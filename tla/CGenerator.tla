----------------------------- MODULE CGenerator -----------------------------
(***************************************************************************)
(* The code generator: from the parsed program to the functions of the     *)
(* output.                                                                 *)
(*                                                                         *)
(* genRecursive and the gen... handlers call one another; the stack of     *)
(* what they have still to do is the variable tasks.  The environment that *)
(* the handlers pass down is always the one of the function being          *)
(* generated, for the body of a lambda expression waits in lambdas until   *)
(* genMain comes to it, so the k-th environment belongs to the k-th        *)
(* function.  Lines are the ones of module Code.                           *)
(*                                                                         *)
(* A write past the end of an array is undefined, and what the compiler    *)
(* does after it is not modelled.                                          *)
(***************************************************************************)
EXTENDS Integers, FiniteSetsExt, SequencesExt, Syntax

CONSTANTS
  Programs,     \* the parsed programs
  NodesOf(_),   \* a node, its car and cdr, their cars and cdrs, and so on
  MaxLambdas    \* MAX_NUM_LAMBDA

Nodes == UNION {NodesOf(x) : x \in Programs}

(* Programs are finite trees.                                              *)
ASSUME NodesAssumption ==
  /\ Programs \subseteq Nodes
  /\ LET nodes == Nodes IN \A x \in nodes :
       /\ x.type \in {"string", "integer", "numeric", "identifier", "list"}
       /\ x.type = "list" => x = List(x.items) /\ x.items \in Seq(nodes)
       /\ IsFiniteSet(NodesOf(x))
       /\ LET below == IF IsPair(x)
                       THEN NodesOf(Head(x.items)) \cup NodesOf(List(Tail(x.items)))
                       ELSE {}
          IN NodesOf(x) = {x} \cup below /\ x \notin below
       /\ IsPair(x) => List(Tail(x.items)) \in nodes
  /\ MaxLambdas \in Nat \ {0}

VARIABLES
  program,
  tasks,      \* what is left to do for the current function
  envs,       \* compile-time environments: of function k at k
  lambdas,    \* lambdaExps and lambdaEnvs
  functions,  \* the functions printed to the temporary file
  stdout,     \* the parts of the output written so far
  status      \* "start", "run", "done", an error's name, or "overrun"

vars == <<program, tasks, envs, lambdas, functions, stdout, status>>

-----------------------------------------------------------------------------
(* What a lambda expression binds.                                         *)

(* countDefinitions walks down car and cdr alike, and neither into a       *)
(* lambda expression nor into a definition.                                *)
CountDefinitions(exp) ==
  LET count[x \in NodesOf(exp)] ==
        IF ~IsPair(x) \/ Tagged(x, "lambda") THEN 0
        ELSE IF Tagged(x, "define") THEN 1
        ELSE count[Head(x.items)] + count[List(Tail(x.items))]
  IN count[exp]

Parameters(x) == x.items[2]
BodyOf(x)     == Tail(Tail(x.items))

(* genLambda finds a list of names where the parameters are.               *)
LambdaFormed(x) ==
  /\ Length(x) >= 2
  /\ Parameters(x).type = "list"
  /\ \A i \in 1 .. Length(Parameters(x)) : Parameters(x).items[i].type = "identifier"

(* numBindings of a lambda expression.                                     *)
NumBindingsShort(x) == Length(Parameters(x))
NumBindings(x) ==
  Length(Parameters(x)) + CountDefinitions(List(BodyOf(x)))

-----------------------------------------------------------------------------
(* Tasks.                                                                  *)

Gen(x)  == [do |-> "gen", exp |-> x]
Bind(x) == [do |-> "bind", exp |-> x]
Assign(x)      == [do |-> "assign", exp |-> x]
Consequent(x)  == [do |-> "consequent", exp |-> x]
Alternative(x) == [do |-> "alternative", exp |-> x]
Emit(ls) == [do |-> "emit", lines |-> ls]
GenAll(xs) == [i \in 1 .. Len(xs) |-> Gen(xs[i])]

(* genListOfValuesReverseOrder: the last operand first.                    *)
GenAllForward(xs) == GenAll(xs)
GenAllReversed(xs) == [i \in 1 .. Len(xs) |-> Gen(xs[Len(xs) + 1 - i])]

Todo == Head(tasks)
Exp  == Todo.exp

(* car, cdr, definitionVariable and assignmentVariable find a node of the  *)
(* wrong type.                                                             *)
Malformed(task) ==
  CASE task.do = "gen" ->
         \/ Kind(task.exp) \in {"define", "set!"} /\ Length(task.exp) < 3
         \/ Kind(task.exp) = "if" /\ Length(task.exp) < 2
    [] task.do = "consequent" -> Length(task.exp) < 3
    [] task.do \in {"bind", "assign"} -> task.exp.items[2].type # "identifier"
    [] OTHER -> FALSE

Doing(do) ==
  status = "run" /\ tasks # <<>> /\ Todo.do = do /\ ~Malformed(Todo)
Generating(kind) == Doing("gen") /\ Kind(Exp) = kind

Follow(ts) == tasks' = ts \o Tail(tasks)
Return == Follow(<<>>)

Current == Len(functions)
Write(ls) == functions' = [functions EXCEPT ![Current].body = @ \o ls]

Fail(reason) ==
  status' = reason /\ UNCHANGED <<program, tasks, envs, lambdas, functions, stdout>>

-----------------------------------------------------------------------------
(* Variables.                                                              *)

(* lookupVariableAddress, from 1; 0 when env has no such variable.  The    *)
(* last of several addresses counts.                                       *)
AddressAmong(var, vs) == Max({0} \cup {i \in 1 .. Len(vs) : vs[i] = var})
Address(var, e) == AddressAmong(var, envs[e].variables)

Line(op) == [op |-> op]
Numbered(op, n) == [op |-> op, n |-> n]

(* genScanVariable's loop over the environments, at environment e: 0 is    *)
(* beyond the outermost.                                                   *)
Scan(op, var, e) == [do |-> "scan", op |-> op, var |-> var, env |-> e]
ScanHere(op, var) == Write(<<Line("scan")>>) /\ Follow(<<Scan(op, var, Current)>>)

FoundAlways == Address(Todo.var, Todo.env) >= 0
Found == Address(Todo.var, Todo.env) # 0

-----------------------------------------------------------------------------
(* generateC.                                                              *)

PrimitiveProcedureVariables ==
  <<"+", "-", "*", "/", "remainder", "=", "eq?", ">", ">=", "<", "<=", "not",
    "string=?", "print", "int->string", "null?", "or", "and">>

PrimitiveProcedureFunctions ==
  <<"pAdd", "pSub", "pMul", "pDiv", "pRemainder", "pEqual", "pEqual", "pGreater",
    "pGreaterEqual", "pLess", "pLessEqual", "pNot", "pEqualString", "pPrint",
    "pInt2string", "pIsNull", "pOr", "pAnd">>

NumPrimitives == Len(PrimitiveProcedureVariables)

Init ==
  /\ program \in Programs
  /\ tasks = <<>> /\ envs = <<>> /\ lambdas = <<>> /\ functions = <<>>
  /\ stdout = <<>> /\ status = "start"

(* genHeader, and the head of main.                                        *)
GenMain ==
  /\ status = "start"
  /\ status' = "run" /\ stdout' = <<"header">>
  /\ envs' = <<[enclosing |-> 0, capacity |-> NumPrimitives,
                variables |-> PrimitiveProcedureVariables]>>
  /\ functions' =
       <<[parent |-> 0, size |-> NumPrimitives,
          body |-> <<Line("env")>> \o
            [i \in 1 .. NumPrimitives |->
               [op |-> "prim", n |-> i - 1, p |-> PrimitiveProcedureFunctions[i]]]]>>
  /\ tasks' = <<Gen(program), Emit(<<Line("exit")>>)>>
  /\ UNCHANGED <<program, lambdas>>

(* genLambda, for the next lambda expression that is waiting.              *)
NextLambda == lambdas[Len(functions)].exp

LambdaIsNextShort ==
  status = "run" /\ tasks = <<>> /\ Len(functions) < Len(lambdas)
LambdaIsNext ==
  status = "run" /\ tasks = <<>> /\ Len(functions) <= Len(lambdas)

GenLambda ==
  /\ LambdaIsNext /\ LambdaFormed(NextLambda)
  /\ LET x == NextLambda
         params == [i \in 1 .. Length(Parameters(x)) |-> Parameters(x).items[i].identifier]
         benv == lambdas[Len(functions)].env
     IN /\ envs' = Append(envs, [enclosing |-> benv, capacity |-> NumBindings(x),
                                 variables |-> params])
        /\ functions' = Append(functions,
             [parent |-> benv, size |-> NumBindings(x),
              body |-> <<Line("enter")>>
                \o [i \in 1 .. Len(params) |-> Numbered("bind", i - 1)]
                \o <<Numbered("int", 0)>>])
        /\ tasks' = GenAll(BodyOf(x)) \o <<Emit(<<Line("return")>>)>>
  /\ UNCHANGED <<program, lambdas, stdout, status>>

(* genLambdaDeclarations, and the temporary file.                          *)
AppendStream ==
  /\ status = "run" /\ tasks = <<>> /\ Len(functions) > Len(lambdas)
  /\ stdout' = stdout \o <<"declarations", "functions">>
  /\ status' = "done"
  /\ UNCHANGED <<program, tasks, envs, lambdas, functions>>

-----------------------------------------------------------------------------
(* The handlers.                                                           *)

EmitLines ==
  /\ Doing("emit")
  /\ Write(Todo.lines) /\ Return
  /\ UNCHANGED <<program, envs, lambdas, stdout, status>>

GenLiteral ==
  /\ \E kind \in {"null", "integer", "string"} : Generating(kind)
  /\ Write(<<CASE Kind(Exp) = "null"    -> Numbered("int", 0)
               [] Kind(Exp) = "integer" -> Numbered("int", Exp.integer)
               [] Kind(Exp) = "string"  -> [op |-> "str", s |-> Exp.string]>>)
  /\ Return
  /\ UNCHANGED <<program, envs, lambdas, stdout, status>>

GenVariable ==
  /\ Generating("identifier")
  /\ ScanHere("get", Exp.identifier)
  /\ UNCHANGED <<program, envs, lambdas, stdout, status>>

(* foundProc: genGetVariableValue or genSetVariableValue.                  *)
FoundVariable ==
  /\ Doing("scan") /\ Todo.env # 0 /\ Found
  /\ Write(<<Numbered(Todo.op, Address(Todo.var, Todo.env) - 1)>>) /\ Return
  /\ UNCHANGED <<program, envs, lambdas, stdout, status>>

ScanOutwards ==
  /\ Doing("scan") /\ Todo.env # 0 /\ ~Found
  /\ Write(<<Line("outer")>>)
  /\ Follow(<<Scan(Todo.op, Todo.var, envs[Todo.env].enclosing)>>)
  /\ UNCHANGED <<program, envs, lambdas, stdout, status>>

(* genDefinition: the value, and then the binding.                         *)
GenDefinition ==
  /\ Generating("define")
  /\ Follow(<<Gen(Exp.items[3]), Bind(Exp)>>)
  /\ UNCHANGED <<program, envs, lambdas, functions, stdout, status>>

Defined == Exp.items[2].identifier
Full == Len(envs[Current].variables) >= envs[Current].capacity

NumVariablesAfter == Len(envs[Current].variables) + 1
NumVariables == Len(envs[Current].variables)

RebindDefinition ==
  /\ Doing("bind") /\ Address(Defined, Current) # 0
  /\ Write(<<Numbered("def", Address(Defined, Current) - 1)>>) /\ Return
  /\ UNCHANGED <<program, envs, lambdas, stdout, status>>

BindDefinition ==
  /\ Doing("bind") /\ Address(Defined, Current) = 0 /\ ~Full
  /\ envs' = [envs EXCEPT ![Current].variables = Append(@, Defined)]
  /\ Write(<<Numbered("def", NumVariables)>>) /\ Return
  /\ UNCHANGED <<program, lambdas, stdout, status>>

GenAssignment ==
  /\ Generating("set!")
  /\ Follow(<<Gen(Exp.items[3]), Assign(Exp)>>)
  /\ UNCHANGED <<program, envs, lambdas, functions, stdout, status>>

SetVariable ==
  /\ Doing("assign")
  /\ ScanHere("set", Defined)
  /\ UNCHANGED <<program, envs, lambdas, stdout, status>>

GenIf ==
  /\ Generating("if")
  /\ Follow(<<Gen(Exp.items[2]), Consequent(Exp)>>)
  /\ UNCHANGED <<program, envs, lambdas, functions, stdout, status>>

GenConsequent ==
  /\ Doing("consequent")
  /\ Write(<<Line("if")>>)
  /\ Follow(<<Gen(Exp.items[3]), Emit(<<Line("close")>>), Alternative(Exp)>>)
  /\ UNCHANGED <<program, envs, lambdas, stdout, status>>

GenAlternative ==
  /\ Doing("alternative")
  /\ IF Length(Exp) > 3
     THEN /\ Write(<<Line("else")>>)
          /\ Follow(<<Gen(Exp.items[4]), Emit(<<Line("close")>>)>>)
     ELSE Return /\ UNCHANGED functions
  /\ UNCHANGED <<program, envs, lambdas, stdout, status>>

(* genProcedure and registLambda.                                          *)
RegisteredMain(x) == [exp |-> x, env |-> 1]
Registered(x) == [exp |-> x, env |-> Current]

LabelRegistered == Len(lambdas) + 3
Label == Len(lambdas) + 2

GenProcedure ==
  /\ Generating("lambda") /\ Len(lambdas) < MaxLambdas
  /\ Write(<<[op |-> "proc", f |-> Label]>>)
  /\ lambdas' = Append(lambdas, Registered(Exp))
  /\ Return
  /\ UNCHANGED <<program, envs, stdout, status>>

GenBegin ==
  /\ Generating("begin")
  /\ Follow(GenAll(Tail(Exp.items)))
  /\ UNCHANGED <<program, envs, lambdas, functions, stdout, status>>

GenApplication ==
  /\ Generating("application")
  /\ LET operands == Tail(Exp.items)
     IN Follow(<<Gen(Head(Exp.items))>> \o GenAllReversed(operands)
               \o <<Emit([i \in 1 .. Len(operands) |-> Numbered("arg", i - 1)]
                         \o <<Line("call"), Line("pushret")>>)>>)
  /\ UNCHANGED <<program, envs, lambdas, functions, stdout, status>>

-----------------------------------------------------------------------------
(* The ways to end early: an error, which ends the process with the header *)
(* written and nothing after it, or a write past an array.                 *)

IllegalNodeType ==
  /\ \/ status = "run" /\ tasks # <<>> /\ Malformed(Todo)
     \/ LambdaIsNext /\ ~LambdaFormed(NextLambda)
  /\ Fail("illegal")

UnboundVariable == Doing("scan") /\ Todo.env = 0 /\ Fail("unbound")

Unimplemented == Generating("numeric") /\ Fail("unimplemented")

Overrun ==
  /\ \/ Doing("bind") /\ Address(Defined, Current) = 0 /\ Full
     \/ Generating("lambda") /\ Len(lambdas) >= MaxLambdas
  /\ Fail("overrun")

Ended == status \notin {"start", "run"} /\ UNCHANGED vars

Step ==
  \/ GenMain \/ GenLambda \/ AppendStream \/ EmitLines \/ GenLiteral \/ GenVariable
  \/ FoundVariable \/ ScanOutwards \/ GenDefinition \/ RebindDefinition \/ BindDefinition
  \/ GenAssignment \/ SetVariable \/ GenIf \/ GenConsequent \/ GenAlternative
  \/ GenProcedure \/ GenBegin \/ GenApplication
  \/ IllegalNodeType \/ UnboundVariable \/ Unimplemented \/ Overrun

Next == Step \/ Ended

Spec == Init /\ [][Next]_vars

(* A process that can run goes on running.                                 *)
FairSpec == Spec /\ WF_vars(Step)

=============================================================================
