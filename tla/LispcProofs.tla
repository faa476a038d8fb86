---------------------------- MODULE LispcProofs ----------------------------
(***************************************************************************)
(* From the source to the process: what the generator promises about its   *)
(* output (OutputProofs) is what the machine asks of the programs it runs  *)
(* (MachineProofs), so that a compiled program keeps the machine's         *)
(* promises whatever it computes.                                          *)
(***************************************************************************)
EXTENDS Lispc, TLAPS

(* The generator's proofs, of the state that Lispc gives it.               *)
Out == INSTANCE OutputProofs WITH envs <- scopes, status <- phase

(* The texts that the generator can print and the layout makes safe to     *)
(* run, as C reads them, each with the notes that its own lines give.      *)
Printable == Seq([parent : Nat, size : Nat, body : Seq(Out!Lines)])
Noted(c, d) ==
  [f \in 1 .. Len(d) |->
     [parent |-> d[f].parent, size |-> d[f].size, body |-> c[f].body,
      depth |-> DepthNotes(d[f].body), owner |-> OwnerNotes(d, f)]]
Layouts == {Noted(ReadByC(d), d) : d \in {e \in Printable : WellFormed(Annotate(e))}}

(* What the texts of the source are for C is a text for the machine.       *)
Heard == Texts \cup {Content(t) : t \in Texts}

(* The machine's proofs, of the output with those notes.                   *)
Mach == INSTANCE MachineProofs
  WITH Codes <- Layouts, code <- Noted(code, functions), Texts <- Heard

-----------------------------------------------------------------------------
(* The definitions that Lispc and the proofs share are the same ones: the  *)
(* provers see them twice, each time under another name.                   *)

(* The generator starts as its proofs assume.                              *)
LEMMA SameStart == Generator!Init => Out!Init
  BY Zenon DEF Generator!Init, Out!Init

(* It takes the steps that they are about.                                 *)
LEMMA SameSteps == Generator!Step => Out!Step
  BY Zenon
  DEF Out!Integer, Generator!Integer, Out!String, Generator!String, Out!Numeric,
      Generator!Numeric, Out!Identifier, Generator!Identifier, Out!List,
      Generator!List, Out!IsPair, Generator!IsPair, Out!IsNull, Generator!IsNull,
      Out!Length, Generator!Length, Out!Tagged, Generator!Tagged, Out!Forms,
      Generator!Forms, Out!Kind, Generator!Kind, Out!Nodes, Generator!Nodes,
      Out!CountDefinitions, Generator!CountDefinitions, Out!Parameters,
      Generator!Parameters, Out!BodyOf, Generator!BodyOf, Out!LambdaFormed,
      Generator!LambdaFormed, Out!NumBindings, Generator!NumBindings, Out!Gen,
      Generator!Gen, Out!Bind, Generator!Bind, Out!Assign, Generator!Assign,
      Out!Consequent, Generator!Consequent, Out!Alternative, Generator!Alternative,
      Out!Emit, Generator!Emit, Out!GenAll, Generator!GenAll, Out!GenAllReversed,
      Generator!GenAllReversed, Out!Todo, Generator!Todo, Out!Exp, Generator!Exp,
      Out!Malformed, Generator!Malformed, Out!Doing, Generator!Doing, Out!Generating,
      Generator!Generating, Out!Follow, Generator!Follow, Out!Return,
      Generator!Return, Out!Current, Generator!Current, Out!Write, Generator!Write,
      Out!Fail, Generator!Fail, Out!AddressAmong, Generator!AddressAmong, Out!Address,
      Generator!Address, Out!Line, Generator!Line, Out!Numbered, Generator!Numbered,
      Out!Scan, Generator!Scan, Out!ScanHere, Generator!ScanHere, Out!Found,
      Generator!Found, Out!PrimitiveProcedureVariables,
      Generator!PrimitiveProcedureVariables, Out!PrimitiveProcedureFunctions,
      Generator!PrimitiveProcedureFunctions, Out!NumPrimitives,
      Generator!NumPrimitives, Out!Init, Generator!Init, Out!GenMain,
      Generator!GenMain, Out!NextLambda, Generator!NextLambda, Out!LambdaIsNext,
      Generator!LambdaIsNext, Out!GenLambda, Generator!GenLambda, Out!AppendStream,
      Generator!AppendStream, Out!EmitLines, Generator!EmitLines, Out!GenLiteral,
      Generator!GenLiteral, Out!GenVariable, Generator!GenVariable, Out!FoundVariable,
      Generator!FoundVariable, Out!ScanOutwards, Generator!ScanOutwards,
      Out!GenDefinition, Generator!GenDefinition, Out!Defined, Generator!Defined,
      Out!Full, Generator!Full, Out!NumVariables, Generator!NumVariables,
      Out!RebindDefinition, Generator!RebindDefinition, Out!BindDefinition,
      Generator!BindDefinition, Out!GenAssignment, Generator!GenAssignment,
      Out!SetVariable, Generator!SetVariable, Out!GenIf, Generator!GenIf,
      Out!GenConsequent, Generator!GenConsequent, Out!GenAlternative,
      Generator!GenAlternative, Out!Registered, Generator!Registered, Out!Label,
      Generator!Label, Out!GenProcedure, Generator!GenProcedure, Out!GenBegin,
      Generator!GenBegin, Out!GenApplication, Generator!GenApplication,
      Out!IllegalNodeType, Generator!IllegalNodeType, Out!UnboundVariable,
      Generator!UnboundVariable, Out!Unimplemented, Generator!Unimplemented,
      Out!Overrun, Generator!Overrun, Out!Step, Generator!Step, Out!Max, Generator!Max

(* It has no step left when it is done.                                    *)
LEMMA DoneIsLast == Generator!Step => phase \in {"start", "run"}
  BY
  DEF Generator!Step, Generator!GenMain, Generator!GenLambda, Generator!AppendStream,
      Generator!EmitLines, Generator!GenLiteral, Generator!GenVariable,
      Generator!FoundVariable, Generator!ScanOutwards, Generator!GenDefinition,
      Generator!RebindDefinition, Generator!BindDefinition, Generator!GenAssignment,
      Generator!SetVariable, Generator!GenIf, Generator!GenConsequent,
      Generator!GenAlternative, Generator!GenProcedure, Generator!GenBegin,
      Generator!GenApplication, Generator!IllegalNodeType, Generator!UnboundVariable,
      Generator!Unimplemented, Generator!Overrun, Generator!Doing,
      Generator!Generating, Generator!LambdaIsNext

(* Its state is theirs.                                                    *)
LEMMA SameState == Generator!vars = Out!vars
  BY Zenon DEF Generator!vars, Out!vars

(* They mean the same conventions.                                         *)
LEMMA SameConventions == Generator!Conventional <=> Out!Conventional
  BY Zenon
  DEF Out!Immediate, Generator!Immediate, Out!BodyParts, Generator!BodyParts,
      Out!ExpressionsOf, Generator!ExpressionsOf, Out!Expressions,
      Generator!Expressions, Out!MayLeaveNone, Generator!MayLeaveNone, Out!Operands,
      Generator!Operands, Out!Conventional, Generator!Conventional, Out!Kind,
      Generator!Kind, Out!IsNull, Generator!IsNull, Out!Forms, Generator!Forms,
      Out!Tagged, Generator!Tagged, Out!IsPair, Generator!IsPair, Out!Length,
      Generator!Length, Out!LambdaFormed, Generator!LambdaFormed, Out!BodyOf,
      Generator!BodyOf, Out!Parameters, Generator!Parameters, Out!Identifier,
      Generator!Identifier, Out!List, Generator!List, Out!Reverse, Generator!Reverse,
      Out!Range, Generator!Range

(* They take the same notes about a text.                                  *)
LEMMA SameNotes == \A c : Out!Annotate(c) = Annotate(c)
  BY Zenon
  DEF Out!Change, Change, Out!Opens, Opens, Out!Match, Match, Out!IsElse, IsElse,
      Out!AfterBlock, AfterBlock, Out!WhenZero, WhenZero, Out!Successors, Successors,
      Out!PushOps, PushOps, Out!PopOps, PopOps, Out!Cardinality, Cardinality,
      Out!IsFiniteSet, IsFiniteSet, Out!Least, Least, Out!DepthNotes, DepthNotes,
      Out!OwnerNotes, OwnerNotes, Out!Annotate, Annotate, Out!LongLong, LongLong,
      Out!IntMin, IntMin, Out!Primitives, Primitives, Out!IntBinary, IntBinary,
      Out!IntUnary, IntUnary

(* They ask the same of a layout.                                          *)
LEMMA SameLayouts == \A c : Out!WellFormed(c) <=> WellFormed(c)
  BY Zenon
  DEF Out!Change, Change, Out!Opens, Opens, Out!Match, Match, Out!IsElse, IsElse,
      Out!AfterBlock, AfterBlock, Out!WhenZero, WhenZero, Out!Successors, Successors,
      Out!PushOps, PushOps, Out!PopOps, PopOps, Out!Cardinality, Cardinality,
      Out!IsFiniteSet, IsFiniteSet, Out!Least, Least, Out!DepthNotes, DepthNotes,
      Out!OwnerNotes, OwnerNotes, Out!Annotate, Annotate, Out!WellFormed, WellFormed,
      Out!OperandsOK, OperandsOK, Out!StepOK, StepOK, Out!OwnerAfter, OwnerAfter,
      Out!LongLong, LongLong, Out!IntMin, IntMin, Out!Primitives, Primitives,
      Out!IntBinary, IntBinary, Out!IntUnary, IntUnary

(* What Lispc assumes of the programs is what the generator's proofs need. *)
LEMMA SameSource == Out!NodesAssumption /\ Out!ValuesAssumption
  BY LispcAssumption, Zenon
  DEF Out!Nodes, Generator!Nodes, Out!IsPair, Generator!IsPair, Out!List,
      Generator!List, Out!IsFiniteSet, Generator!IsFiniteSet, Out!LongLong,
      Generator!LongLong, Out!IntMin, Generator!IntMin

(* What it assumes of the machine is what the machine's proofs need.       *)
LEMMA SameMachine == Mach!MachineAssumption
  BY LispcAssumption
  DEF Mach!IntMin, Runtime!IntMin, Mach!MachineAssumption, Runtime!MachineAssumption,
      Heard

-----------------------------------------------------------------------------
(* The lines of the output.                                                *)

(* C reads the text of a literal, and nothing else.                        *)
LEMMA LineRead ==
  ASSUME NEW l \in Out!Lines
  PROVE  /\ ReadLine(l).op = l.op
         /\ l.op # "str" => ReadLine(l) = l
         /\ l.op = "str" => ReadLine(l).s = Content(l.s)
  <1>1. CASE l.op # "str"
    BY <1>1 DEF ReadLine
  <1>2. CASE l.op = "str"
    <2>1. l \in [op : {"str"}, s : Out!Labels]
      BY <1>2 DEF Out!Lines, Out!PlainOps
    <2>2. ReadLine(l) = [l EXCEPT !.s = Content(l.s)]
      BY <1>2 DEF ReadLine
    <2>. QED  BY <1>2, <2>1, <2>2
  <1>. QED  BY <1>1, <1>2

(* So it leaves the lines of a function where they are,                    *)
LEMMA BodyRead ==
  ASSUME NEW b \in Seq(Out!Lines), NEW a, a = [i \in 1 .. Len(b) |-> ReadLine(b[i])]
  PROVE  /\ Len(a) = Len(b) /\ Len(b) \in Nat
         /\ \A i \in 1 .. Len(b) :
              /\ a[i].op = b[i].op
              /\ b[i].op # "str" => a[i] = b[i]
              /\ b[i].op = "str" => a[i].s = Content(b[i].s)
  <1>1. a \in Seq({ReadLine(l) : l \in Out!Lines}) /\ Len(b) \in Nat
    OBVIOUS
  <1>2. Len(a) = Len(b)
    BY <1>1
  <1>3. \A i \in 1 .. Len(b) : a[i] = ReadLine(b[i]) /\ b[i] \in Out!Lines
    OBVIOUS
  <1>. QED  BY <1>1, <1>2, <1>3, LineRead

(* and control goes the same ways.                                         *)
LEMMA SameWays ==
  ASSUME NEW a, NEW b, Len(a) = Len(b), Len(b) \in Nat,
         \A i \in 1 .. Len(b) : a[i].op = b[i].op
  PROVE  \A i \in 1 .. Len(b) : Mach!Successors(a, i) = Successors(b, i)
  <1>1. ASSUME NEW i \in 1 .. Len(b), NEW j \in i .. Len(b)
        PROVE  Mach!Opens(a, i, j) = Opens(b, i, j)
    <2>1. \A k \in i .. j : a[k].op = b[k].op
      OBVIOUS
    <2>2. /\ {k \in i .. j : a[k].op \in {"if", "else"}}
            = {k \in i .. j : b[k].op \in {"if", "else"}}
          /\ {k \in i .. j : a[k].op = "close"} = {k \in i .. j : b[k].op = "close"}
      BY <2>1
    <2>. QED
      BY <2>2, Zenon
      DEF Mach!Opens, Opens, Mach!Cardinality, Cardinality, Mach!IsFiniteSet, IsFiniteSet
  <1>2. ASSUME NEW i \in 1 .. Len(b)
        PROVE  Mach!Match(a, i) = Match(b, i)
    <2>1. ASSUME NEW j \in i .. Len(b)
          PROVE  (/\ Mach!Opens(a, i, j) = 0
                  /\ \A k \in i .. (j - 1) : Mach!Opens(a, i, k) # 0)
             <=> (/\ Opens(b, i, j) = 0
                  /\ \A k \in i .. (j - 1) : Opens(b, i, k) # 0)
      <3>1. \A k \in i .. (j - 1) : k \in i .. Len(b)
        OBVIOUS
      <3>. QED  BY <1>1, <3>1, Zenon
    <2>2. i .. Len(a) = i .. Len(b)
      OBVIOUS
    <2>3. Mach!Match(a, i) = CHOOSE j \in i .. Len(b) :
                               /\ Mach!Opens(a, i, j) = 0
                               /\ \A k \in i .. (j - 1) : Mach!Opens(a, i, k) # 0
      BY <2>2, Zenon DEF Mach!Match
    <2>4. @ = CHOOSE j \in i .. Len(b) :
                /\ Opens(b, i, j) = 0
                /\ \A k \in i .. (j - 1) : Opens(b, i, k) # 0
      BY <2>1, Zenon
    <2>. QED
      BY <2>3, <2>4, Zenon DEF Match
  <1>3. \A j : Mach!IsElse(a, j) <=> IsElse(b, j)
    BY DEF Mach!IsElse, IsElse
  <1>4. ASSUME NEW i \in 1 .. Len(b)
        PROVE  Mach!WhenZero(a, i) = WhenZero(b, i) /\ Mach!AfterBlock(a, i) = AfterBlock(b, i)
    <2>1. Mach!WhenZero(a, i) = WhenZero(b, i)
      BY <1>2, <1>3, Zenon DEF Mach!WhenZero, WhenZero
    <2>2. IsElse(b, i + 1) => Mach!Match(a, i + 1) = Match(b, i + 1)
      BY <1>2 DEF IsElse
    <2>3. Mach!AfterBlock(a, i) = AfterBlock(b, i)
      BY <1>3, <2>2, Zenon DEF Mach!AfterBlock, AfterBlock
    <2>. QED  BY <2>1, <2>3
  <1>. QED
    BY <1>4, Zenon DEF Mach!Successors, Successors

(* The parts of a text.                                                    *)
LEMMA Printed ==
  ASSUME NEW d \in Printable
  PROVE  /\ Len(d) \in Nat /\ DOMAIN d = 1 .. Len(d)
         /\ \A f \in 1 .. Len(d) :
              d[f] \in [parent : Nat, size : Nat, body : Seq(Out!Lines)]
  <1>1. PICK S : S = [parent : Nat, size : Nat, body : Seq(Out!Lines)]
    OBVIOUS
  <1>2. d \in Seq(S)
    BY <1>1, Zenon DEF Printable
  <1>3. Len(d) \in Nat /\ DOMAIN d = 1 .. Len(d) /\ \A f \in 1 .. Len(d) : d[f] \in S
    BY <1>2
  <1>. QED  BY <1>1, <1>3, Zenon

(* A text with a layout still has it when C has read it.                   *)
LEMMA LayoutRead ==
  ASSUME NEW d \in Printable, WellFormed(Annotate(d))
  PROVE  Mach!WellFormed(Noted(ReadByC(d), d))
  <1> DEFINE N == Len(d)
             e == Annotate(d)
             c == Noted(ReadByC(d), d)
  <1>1. N \in Nat /\ DOMAIN d = 1 .. N
        /\ \A f \in 1 .. N : d[f] \in [parent : Nat, size : Nat, body : Seq(Out!Lines)]
    BY Printed, Zenon
  <1>2. DOMAIN e = 1 .. N /\ DOMAIN c = 1 .. N
        /\ \A f \in 1 .. N :
             /\ e[f].parent = d[f].parent /\ e[f].size = d[f].size /\ e[f].body = d[f].body
             /\ e[f].depth = DepthNotes(d[f].body) /\ e[f].owner = OwnerNotes(d, f)
             /\ c[f].parent = d[f].parent /\ c[f].size = d[f].size
             /\ c[f].depth = DepthNotes(d[f].body) /\ c[f].owner = OwnerNotes(d, f)
             /\ c[f].body = ReadByC(d)[f].body
    BY DEF Annotate, Noted
  <1>3. \A f \in 1 .. N : c[f].body = [i \in 1 .. Len(d[f].body) |-> ReadLine(d[f].body[i])]
    <2> TAKE f \in 1 .. N
    <2>1. ReadByC(d)[f] = [d[f] EXCEPT !.body = [i \in 1 .. Len(@) |-> ReadLine(@[i])]]
      BY <1>1 DEF ReadByC
    <2>. QED  BY <1>1, <1>2, <2>1
  <1>4. Len(e) = N /\ Len(c) = N
    <2>1. e \in Seq({e[f] : f \in 1 .. N}) /\ c \in Seq({c[f] : f \in 1 .. N})
      <3>1. e = [f \in 1 .. N |-> e[f]] /\ c = [f \in 1 .. N |-> c[f]]
        BY <1>2 DEF Annotate, Noted
      <3> HIDE DEF e, c
      <3>. QED  BY <1>1, <3>1
    <2> HIDE DEF e, c
    <2>. QED  BY <1>1, <1>2, <2>1
  <1> HIDE DEF c
  <1>5. ASSUME NEW f \in 1 .. N
        PROVE  /\ Len(c[f].body) = Len(e[f].body) /\ Len(e[f].body) \in Nat
               /\ \A i \in 1 .. Len(e[f].body) :
                    /\ c[f].body[i].op = e[f].body[i].op
                    /\ e[f].body[i].op # "str" => c[f].body[i] = e[f].body[i]
                    /\ e[f].body[i].op = "str" => c[f].body[i].s = Content(e[f].body[i].s)
                    /\ Mach!Successors(c[f].body, i) = Successors(e[f].body, i)
    <2>1. PICK b \in Seq(Out!Lines) : b = e[f].body
      BY <1>1, <1>2
    <2>2. PICK a : a = c[f].body
      OBVIOUS
    <2>3. a = [i \in 1 .. Len(b) |-> ReadLine(b[i])]
      BY <1>2, <1>3, <2>1, <2>2
    <2>4. /\ Len(a) = Len(b) /\ Len(b) \in Nat
          /\ \A i \in 1 .. Len(b) :
               /\ a[i].op = b[i].op
               /\ b[i].op # "str" => a[i] = b[i]
               /\ b[i].op = "str" => a[i].s = Content(b[i].s)
      BY <2>3, BodyRead
    <2>5. \A i \in 1 .. Len(b) : Mach!Successors(a, i) = Successors(b, i)
      BY <2>4, SameWays
    <2>. QED  BY <2>1, <2>2, <2>4, <2>5
  <1>6. WellFormed(e)
    OBVIOUS
  <1> HIDE DEF e
  <1>7. ASSUME NEW f \in 1 .. N, NEW i \in 1 .. Len(e[f].body)
        PROVE  Mach!OperandsOK(c, f, i)
    <2>1. OperandsOK(e, f, i)
      BY <1>4, <1>6 DEF WellFormed
    <2>2. \A g \in 1 .. N : c[g].parent = e[g].parent /\ c[g].size = e[g].size
      BY <1>2
    <2>3. /\ c[f].owner = e[f].owner /\ c[f].parent = e[f].parent /\ c[f].size = e[f].size
          /\ c[f].body[i].op = e[f].body[i].op
      BY <1>2, <1>5
    <2>4. CASE e[f].body[i].op = "str"
      <3>1. c[f].body[i].s \in Heard
        BY <1>5, <2>1, <2>4 DEF OperandsOK, Heard
      <3>. QED  BY <2>3, <2>4, <3>1 DEF Mach!OperandsOK
    <2>5. CASE e[f].body[i].op # "str"
      <3>1. c[f].body[i] = e[f].body[i]
        BY <1>5, <2>5
      <3>2. e[f].owner[i] \in 0 .. N
        BY <1>4, <1>6 DEF WellFormed
      <3>3. e[f].owner[i] # 0 => c[e[f].owner[i]].size = e[e[f].owner[i]].size
        BY <2>2, <3>2
      <3>4. e[f].body[i].op = "proc" /\ e[f].body[i].f \in 2 .. N =>
              c[e[f].body[i].f].parent = e[e[f].body[i].f].parent
        BY <2>2
      <3>. QED
        BY <1>4, <2>1, <2>3, <2>5, <3>1, <3>3, <3>4
        DEF OperandsOK, Mach!OperandsOK, Mach!LongLong, LongLong, Mach!IntMin, IntMin,
            Mach!Primitives, Primitives, Mach!IntBinary, IntBinary, Mach!IntUnary, IntUnary
    <2>. QED  BY <2>4, <2>5
  <1>8. ASSUME NEW f \in 1 .. N, NEW i \in 1 .. Len(e[f].body),
               NEW j \in Successors(e[f].body, i)
        PROVE  Mach!StepOK(c, f, i, j)
    <2>1. StepOK(e, f, i, j)
      BY <1>4, <1>6 DEF WellFormed
    <2>2. c[f].body[i].op = e[f].body[i].op /\ Len(c[f].body) = Len(e[f].body)
          /\ c[f].depth = e[f].depth /\ c[f].owner = e[f].owner
      BY <1>2, <1>5
    <2>3. Mach!Change(e[f].body[i].op) = Change(e[f].body[i].op)
      BY DEF Mach!Change, Change, Mach!PushOps, PushOps, Mach!PopOps, PopOps
    <2>4. Mach!OwnerAfter(c, f, i) = OwnerAfter(e, f, i)
      <3>1. e[f].body[i].op = "outer" => c[e[f].owner[i]].parent = e[e[f].owner[i]].parent
        <4>1. OperandsOK(e, f, i) /\ e[f].owner[i] \in 0 .. N
          BY <1>4, <1>6 DEF WellFormed
        <4>2. e[f].body[i].op = "outer" => e[f].owner[i] \in 1 .. N
          BY <1>1, <4>1 DEF OperandsOK
        <4>. QED  BY <1>2, <4>2
      <3>. QED  BY <2>2, <3>1 DEF Mach!OwnerAfter, OwnerAfter
    <2>. QED  BY <2>1, <2>2, <2>3, <2>4 DEF Mach!StepOK, StepOK
  <1>9. /\ N \in Nat \ {0} /\ c[1].parent = 0
        /\ \A f \in 2 .. N : c[f].parent \in 1 .. (f - 1)
    <2>1. /\ N \in Nat \ {0} /\ e[1].parent = 0
          /\ \A f \in 2 .. N : e[f].parent \in 1 .. (f - 1)
      BY <1>4, <1>6 DEF WellFormed
    <2>2. \A f \in 1 .. N : c[f].parent = e[f].parent
      BY <1>2
    <2>3. 1 \in 1 .. N /\ \A f \in 2 .. N : f \in 1 .. N
      BY <2>1
    <2>. QED  BY <2>1, <2>2, <2>3
  <1>10. ASSUME NEW f \in 1 .. N
         PROVE  /\ c[f].size \in Nat
                /\ Len(c[f].body) \in Nat \ {0}
                /\ c[f].body[1].op = IF f = 1 THEN "env" ELSE "enter"
                /\ c[f].depth[1] = 0 /\ c[f].owner[1] = 0
    <2>1. /\ e[f].size \in Nat
          /\ Len(e[f].body) \in Nat \ {0}
          /\ e[f].body[1].op = IF f = 1 THEN "env" ELSE "enter"
          /\ e[f].depth[1] = 0 /\ e[f].owner[1] = 0
      BY <1>4, <1>6 DEF WellFormed
    <2>2. 1 \in 1 .. Len(e[f].body)
      BY <2>1
    <2>. QED  BY <1>2, <1>5, <2>1, <2>2
  <1>11. ASSUME NEW f \in 1 .. N, NEW i \in 1 .. Len(e[f].body)
         PROVE  /\ c[f].depth[i] \in Nat /\ c[f].owner[i] \in 0 .. N
                /\ c[f].body[i].op \in Mach!PopOps => c[f].depth[i] >= 1
    <2>1. /\ e[f].depth[i] \in Nat /\ e[f].owner[i] \in 0 .. N
          /\ e[f].body[i].op \in PopOps => e[f].depth[i] >= 1
      BY <1>4, <1>6 DEF WellFormed
    <2>2. Mach!PopOps = PopOps
      BY DEF Mach!PopOps, PopOps
    <2>. QED  BY <1>2, <1>5, <2>1, <2>2
  <1>12. ASSUME NEW f \in 1 .. N, NEW i \in 1 .. Len(c[f].body)
         PROVE  /\ Mach!OperandsOK(c, f, i)
                /\ c[f].depth[i] \in Nat /\ c[f].owner[i] \in 0 .. N
                /\ c[f].body[i].op \in Mach!PopOps => c[f].depth[i] >= 1
                /\ \A j \in Mach!Successors(c[f].body, i) : Mach!StepOK(c, f, i, j)
    <2>1. i \in 1 .. Len(e[f].body)
      BY <1>5, Zenon
    <2>2. Mach!Successors(c[f].body, i) = Successors(e[f].body, i)
      BY <1>5, <2>1, Zenon
    <2>. QED
      BY <1>7, <1>8, <1>11, <2>1, <2>2, Zenon
  <1>13. Mach!WellFormed(c)
    BY <1>4, <1>9, <1>10, <1>12, Zenon DEF Mach!WellFormed
  <1>. QED  BY <1>13 DEF c

(* So the machine's proofs, which need a layout, are about all of them.    *)
LEMMA LaidOut == Mach!LayoutAssumption
  BY LayoutRead DEF Layouts

(* There is a note for each function.                                      *)
LEMMA NotedLen ==
  ASSUME NEW c, NEW d, Len(d) \in Nat
  PROVE  Len(Noted(c, d)) = Len(d)
  <1> DEFINE e == Noted(c, d)
  <1>1. DOMAIN e = 1 .. Len(d) /\ e = [f \in 1 .. Len(d) |-> e[f]]
    BY DEF Noted
  <1> HIDE DEF e
  <1>2. e \in Seq({e[f] : f \in 1 .. Len(d)})
    BY <1>1
  <1>3. Len(e) = Len(d)
    BY <1>1, <1>2
  <1>. QED
    BY <1>3 DEF e

(* The notes leave the text as it is.                                      *)
LEMMA SameText ==
  ASSUME functions \in Printable, code = Loaded, NEW f \in 1 .. Len(functions)
  PROVE  /\ Noted(code, functions)[f].body = code[f].body
         /\ Noted(code, functions)[f].size = code[f].size
  <1>1. DOMAIN functions = 1 .. Len(functions)
        /\ functions[f] \in [parent : Nat, size : Nat, body : Seq(Out!Lines)]
    BY Printed, Zenon
  <1>2. code[f] = [functions[f] EXCEPT !.body = [i \in 1 .. Len(@) |-> ReadLine(@[i])]]
    BY <1>1 DEF Loaded, ReadByC
  <1>3. code[f].size = functions[f].size
    BY <1>1, <1>2
  <1>. QED
    BY <1>3 DEF Noted

(* The machine computes the same words.                                    *)
LEMMA SameWords ==
  /\ Mach!PushOps = Runtime!PushOps /\ Mach!PopOps = Runtime!PopOps
  /\ Mach!IntBinary = Runtime!IntBinary /\ Mach!IntUnary = Runtime!IntUnary
  /\ \A w : Mach!IsProcedure(w) <=> Runtime!IsProcedure(w)
  /\ \A w : Mach!IsObject(w) <=> Runtime!IsObject(w)
  /\ \A w : Mach!Contents(w) = Runtime!Contents(w)
  /\ \A p, as : Mach!Readable(p, as) <=> Runtime!Readable(p, as)
  /\ \A p \in Runtime!IntBinary : \A a, b : Mach!Apply(p, a, b) = Runtime!Apply(p, a, b)
  /\ \A p, a, b : Mach!DivTraps(p, a, b) <=> Runtime!DivTraps(p, a, b)
  /\ \A b, i : Mach!WhenZero(b, i) = Runtime!WhenZero(b, i)
  /\ \A b, i : Mach!AfterBlock(b, i) = Runtime!AfterBlock(b, i)
  <1>1. Mach!PushOps = Runtime!PushOps /\ Mach!PopOps = Runtime!PopOps
    BY Zenon DEF Mach!PushOps, Runtime!PushOps,
      Mach!PopOps, Runtime!PopOps
  <1>2. Mach!IntBinary = Runtime!IntBinary /\ Mach!IntUnary = Runtime!IntUnary
    BY Zenon DEF Mach!IntBinary, Runtime!IntBinary,
      Mach!IntUnary, Runtime!IntUnary
  <1>3. \A w : Mach!IsProcedure(w) <=> Runtime!IsProcedure(w)
    BY Zenon DEF Mach!IsProcedure, Runtime!IsProcedure
  <1>4. \A w : Mach!IsObject(w) <=> Runtime!IsObject(w)
    BY Zenon DEF Mach!IsObject, Runtime!IsObject
  <1>5. \A w : Mach!Contents(w) = Runtime!Contents(w)
    BY Zenon DEF Mach!Contents, Runtime!Contents
  <1>6. \A p, as : Mach!Readable(p, as) <=> Runtime!Readable(p, as)
    BY Zenon DEF Mach!Readable, Runtime!Readable,
      Mach!IsObject, Runtime!IsObject,
      Mach!IntBinary, Runtime!IntBinary,
      Mach!IntUnary, Runtime!IntUnary
  <1>7. \A p \in Runtime!IntBinary : \A a, b : Mach!Apply(p, a, b) = Runtime!Apply(p, a, b)
    <2>1. \A n : Mach!Wrap(n) = Runtime!Wrap(n)
      BY Zenon DEF Mach!Wrap, Runtime!Wrap, Mach!IntMin, Runtime!IntMin
    <2>2. \A a, b : Mach!Quotient(a, b) = Runtime!Quotient(a, b)
      BY Zenon DEF Mach!Quotient, Runtime!Quotient, Mach!Abs, Runtime!Abs
    <2>3. \A a, b : Mach!Remainder(a, b) = Runtime!Remainder(a, b)
      BY <2>2, Zenon DEF Mach!Remainder, Runtime!Remainder
    <2>4. \A b : Mach!Flag(b) = Runtime!Flag(b)
      BY Zenon DEF Mach!Flag, Runtime!Flag
    <2>5. ASSUME NEW p \in Runtime!IntBinary, NEW a, NEW b
          PROVE  Mach!Apply(p, a, b) = Runtime!Apply(p, a, b)
      <3>. USE DEF Mach!Apply, Runtime!Apply
      <3>1. CASE p = "pAdd"
        BY <2>1, <2>2, <2>3, <2>4, <3>1
      <3>2. CASE p = "pSub"
        BY <2>1, <2>2, <2>3, <2>4, <3>2
      <3>3. CASE p = "pMul"
        BY <2>1, <2>2, <2>3, <2>4, <3>3
      <3>4. CASE p = "pDiv"
        BY <2>1, <2>2, <2>3, <2>4, <3>4
      <3>5. CASE p = "pRemainder"
        BY <2>1, <2>2, <2>3, <2>4, <3>5
      <3>6. CASE p = "pEqual"
        BY <2>1, <2>2, <2>3, <2>4, <3>6
      <3>7. CASE p = "pGreater"
        BY <2>1, <2>2, <2>3, <2>4, <3>7
      <3>8. CASE p = "pGreaterEqual"
        BY <2>1, <2>2, <2>3, <2>4, <3>8
      <3>9. CASE p = "pLess"
        BY <2>1, <2>2, <2>3, <2>4, <3>9
      <3>10. CASE p = "pLessEqual"
        BY <2>1, <2>2, <2>3, <2>4, <3>10
      <3>11. CASE p = "pOr"
        BY <2>1, <2>2, <2>3, <2>4, <3>11
      <3>12. CASE p = "pAnd"
        BY <2>1, <2>2, <2>3, <2>4, <3>12
      <3>. QED
        BY <3>1, <3>2, <3>3, <3>4, <3>5, <3>6, <3>7, <3>8, <3>9, <3>10, <3>11, <3>12
        DEF Runtime!IntBinary
    <2>. QED
      BY <2>5
  <1>8. \A p, a, b : Mach!DivTraps(p, a, b) <=> Runtime!DivTraps(p, a, b)
    BY Zenon DEF Mach!DivTraps, Runtime!DivTraps,
      Mach!IntMin, Runtime!IntMin
  <1>9. \A b, i : Mach!WhenZero(b, i) = Runtime!WhenZero(b, i)
    BY Zenon DEF Mach!WhenZero, Runtime!WhenZero,
      Mach!Match, Runtime!Match,
      Mach!IsElse, Runtime!IsElse,
      Mach!Opens, Runtime!Opens,
      Mach!Cardinality, Runtime!Cardinality,
      Mach!IsFiniteSet, Runtime!IsFiniteSet
  <1>10. \A b, i : Mach!AfterBlock(b, i) = Runtime!AfterBlock(b, i)
    BY Zenon DEF Mach!AfterBlock, Runtime!AfterBlock,
      Mach!Match, Runtime!Match,
      Mach!IsElse, Runtime!IsElse,
      Mach!Opens, Runtime!Opens,
      Mach!Cardinality, Runtime!Cardinality,
      Mach!IsFiniteSet, Runtime!IsFiniteSet
  <1>. QED
    BY <1>1, <1>2, <1>3, <1>4, <1>5, <1>6, <1>7, <1>8, <1>9, <1>10, Zenon

(* A line of the output does the same with the notes as without them.      *)
LEMMA RunSteps ==
  ASSUME functions \in Printable, code = Loaded, fn \in 1 .. Len(functions),
         Runtime!Step, functions' = functions
  PROVE  Mach!Step
  <1>1. Mach!Body = Runtime!Body
    BY SameText DEF Mach!Body, Runtime!Body
  <1>2. Mach!Line = Runtime!Line
    BY <1>1, Zenon DEF Mach!Line, Runtime!Line
  <1>3. Mach!Faults = Runtime!Faults
    BY <1>2, SameWords, Zenon DEF Mach!Overflows, Runtime!Overflows,
      Mach!Underflows, Runtime!Underflows,
      Mach!BadFrame, Runtime!BadFrame,
      Mach!Pointed, Runtime!Pointed,
      Mach!NoEnvironment, Runtime!NoEnvironment,
      Mach!BadBinding, Runtime!BadBinding,
      Mach!BadArgument, Runtime!BadArgument,
      Mach!BadWord, Runtime!BadWord,
      Mach!Faults, Runtime!Faults
  <1>4. \A op : Mach!At(op) <=> Runtime!At(op)
    BY <1>2, <1>3, Zenon DEF Mach!At, Runtime!At
  <1>5. Mach!NewEnvironment <=> Runtime!NewEnvironment
    <2>1. Noted(code, functions)[fn].size = code[fn].size
      BY SameText
    <2>. QED
      BY <2>1, Zenon DEF Mach!NewEnvironment, Runtime!NewEnvironment,
        Mach!Enclosing, Runtime!Enclosing, Mach!Unset, Runtime!Unset
  <1>6. code' = code => Noted(code, functions)' = Noted(code, functions)
    BY DEF Noted
  <1>. USE <1>1, <1>2, <1>3, <1>4, <1>5, <1>6, SameWords
       DEF Mach!Top, Runtime!Top, Mach!DropTwo, Runtime!DropTwo, Mach!Drop,
           Runtime!Drop, Mach!Push, Runtime!Push, Mach!KeepStack, Runtime!KeepStack,
           Mach!Goto, Runtime!Goto, Mach!Advance, Runtime!Advance, Mach!Stored,
           Runtime!Stored, Mach!Store, Runtime!Store, Mach!Enclosing,
           Runtime!Enclosing, Mach!SavedFp, Runtime!SavedFp, Mach!Base, Runtime!Base,
           Mach!Literal, Runtime!Literal, Mach!Outer, Runtime!Outer, Mach!Rejoin,
           Runtime!Rejoin, Mach!CallPrimitive, Runtime!CallPrimitive, Mach!SavedEnv,
           Runtime!SavedEnv, Mach!Null, Runtime!Null, Mach!Unset, Runtime!Unset,
           Mach!IntObj, Runtime!IntObj, Mach!StrObj, Runtime!StrObj, Mach!ProcObj,
           Runtime!ProcObj, Mach!PrimObj, Runtime!PrimObj, Mach!EnvWord,
           Runtime!EnvWord, Mach!FpWord, Runtime!FpWord, Mach!Flag, Runtime!Flag
  <1>7. Runtime!Environment => Mach!Environment
    BY Zenon DEF Mach!Environment, Runtime!Environment
  <1>8. Runtime!Enter => Mach!Enter
    BY Zenon DEF Mach!Enter, Runtime!Enter
  <1>9. Runtime!BindPrimitive => Mach!BindPrimitive
    BY Zenon DEF Mach!BindPrimitive, Runtime!BindPrimitive
  <1>10. Runtime!BindParameter => Mach!BindParameter
    BY Zenon DEF Mach!BindParameter, Runtime!BindParameter
  <1>11. Runtime!PushLiteral => Mach!PushLiteral
    BY Zenon DEF Mach!PushLiteral, Runtime!PushLiteral
  <1>12. Runtime!ScanFromHere => Mach!ScanFromHere
    BY Zenon DEF Mach!ScanFromHere, Runtime!ScanFromHere
  <1>13. Runtime!ScanOutwards => Mach!ScanOutwards
    BY Zenon DEF Mach!ScanOutwards, Runtime!ScanOutwards
  <1>14. Runtime!GetVariable => Mach!GetVariable
    BY Zenon DEF Mach!GetVariable, Runtime!GetVariable
  <1>15. Runtime!SetVariable => Mach!SetVariable
    BY Zenon DEF Mach!SetVariable, Runtime!SetVariable
  <1>16. Runtime!DefineVariable => Mach!DefineVariable
    BY Zenon DEF Mach!DefineVariable, Runtime!DefineVariable
  <1>17. Runtime!Branch => Mach!Branch
    BY Zenon DEF Mach!Branch, Runtime!Branch
  <1>18. Runtime!CloseBlock => Mach!CloseBlock
    BY Zenon DEF Mach!CloseBlock, Runtime!CloseBlock
  <1>19. Runtime!TakeArgument => Mach!TakeArgument
    BY Zenon DEF Mach!TakeArgument, Runtime!TakeArgument
  <1>20. Runtime!CallLambda => Mach!CallLambda
    BY Zenon DEF Mach!CallLambda, Runtime!CallLambda
  <1>21. Runtime!CallIntBinary => Mach!CallIntBinary
    BY Zenon DEF Mach!CallIntBinary, Runtime!CallIntBinary
  <1>22. Runtime!CallIntUnary => Mach!CallIntUnary
    BY Zenon DEF Mach!CallIntUnary, Runtime!CallIntUnary
  <1>23. Runtime!CallEqualString => Mach!CallEqualString
    BY Zenon DEF Mach!CallEqualString, Runtime!CallEqualString
  <1>24. Runtime!CallInt2string => Mach!CallInt2string
    BY Zenon DEF Mach!CallInt2string, Runtime!CallInt2string
  <1>25. Runtime!CallPrint => Mach!CallPrint
    BY Zenon DEF Mach!CallPrint, Runtime!CallPrint
  <1>26. Runtime!PushResult => Mach!PushResult
    BY Zenon DEF Mach!PushResult, Runtime!PushResult
  <1>27. Runtime!Return => Mach!Return
    BY Zenon DEF Mach!Return, Runtime!Return
  <1>28. Runtime!Exit => Mach!Exit
    BY Zenon DEF Mach!Exit, Runtime!Exit
  <1>29. Runtime!Undefined => Mach!Undefined
    BY Zenon DEF Mach!Undefined, Runtime!Undefined
  <1>. QED
    BY <1>7, <1>8, <1>9, <1>10, <1>11, <1>12, <1>13, <1>14, <1>15, <1>16, <1>17, <1>18,
       <1>19, <1>20, <1>21, <1>22, <1>23, <1>24, <1>25, <1>26, <1>27, <1>28,
       <1>29
    DEF Mach!Step, Runtime!Step

-----------------------------------------------------------------------------
(* The generator at work.                                                  *)

(* What Lispc does to the generator's state is what its proofs are about.  *)
THEOREM Compiles == Spec => Out!Spec
  <1>1. Init => Out!Init
    BY SameStart DEF Init
  <1>2. [Next]_vars => [Out!Next]_(Out!vars)
    <2>1. CASE Compile
      BY <2>1, SameSteps DEF Compile, Out!Next
    <2>2. CASE UNCHANGED compiler
      BY <2>2 DEF compiler, Out!vars
    <2>. QED
      BY <2>1, <2>2 DEF Next, Step, Start, Run, Ended, vars, compiler
  <1>. QED
    BY <1>1, <1>2, PTL DEF Spec, Out!Spec

(* So its output is laid out as the machine needs it.                      *)
LEMMA OutputSound == Spec => [](Out!IInv /\ Out!LayoutSound)
  <1>1. Spec => []Out!LayoutSound
    BY Compiles, Out!LayoutIsSound, SameSource, PTL
  <1>2. Spec => [](Out!IInv /\ Out!LInv /\ Out!Finished)
    BY Compiles, Out!LayoutInvariance, SameSource, PTL
  <1>. QED
    BY <1>1, <1>2, PTL

-----------------------------------------------------------------------------
(* Its output at work.                                                     *)

(* The machine's invariant and its promise, in the names of Lispc.         *)
LEMMA MachineStarts == Mach!Init => Mach!Inv /\ Mach!NoFrameFault
  <1>1. Mach!Init => Mach!Inv
    BY Mach!InvInit, SameMachine, LaidOut
  <1>2. Mach!Init => Mach!NoFrameFault
    BY DEF Mach!Init, Mach!Boot, Mach!NoFrameFault
  <1>. QED
    BY <1>1, <1>2

(* The same of the state that a step leads to.                             *)
LEMMA MachineStartsNext == Mach!Init' => Mach!Inv' /\ Mach!NoFrameFault'
  BY MachineStarts, PTL

(* The steps of the machine keep them.                                     *)
LEMMA MachineRuns ==
  ASSUME Mach!Inv, Mach!NoFrameFault, [Mach!Next]_(Mach!vars)
  PROVE  Mach!Inv' /\ Mach!NoFrameFault'
  <1>1. Mach!Inv'
    BY Mach!InvNext, SameMachine, LaidOut
  <1>2. Mach!NoFrameFault'
    BY Mach!NoFrameFaultNext, SameMachine, LaidOut
  <1>. QED
    BY <1>1, <1>2

(* The process is there once the generator is done, it has not begun       *)
(* before, and a conventional program runs within the machine's invariant. *)
ProcessInv ==
  /\ code = <<>> => Runtime!Boot
  /\ code # <<>> => phase = "done" /\ code = Loaded
  /\ code # <<>> /\ Generator!Conventional => Mach!Inv /\ Mach!NoFrameFault

(* The text of the output does not change when it runs.                    *)
LEMMA RunKeepsCode == Runtime!Step => code' = code
  BY DEF Runtime!Step, Runtime!Environment, Runtime!Enter, Runtime!BindPrimitive,
         Runtime!BindParameter, Runtime!PushLiteral, Runtime!ScanFromHere,
         Runtime!ScanOutwards, Runtime!GetVariable, Runtime!SetVariable,
         Runtime!DefineVariable, Runtime!Branch, Runtime!CloseBlock,
         Runtime!TakeArgument, Runtime!CallLambda, Runtime!CallPrimitive,
         Runtime!CallIntBinary, Runtime!CallIntUnary, Runtime!CallEqualString,
         Runtime!CallInt2string, Runtime!CallPrint, Runtime!PushResult,
         Runtime!Return, Runtime!Exit, Runtime!Undefined, Runtime!Advance,
         Runtime!Goto

(* The output starts as a program with a layout.                           *)
LEMMA ProcessStarts ==
  ASSUME ProcessInv, Out!IInv, Out!LayoutSound, Start
  PROVE  ProcessInv'
  <1>1. /\ code' = Loaded /\ phase = "done" /\ phase' = phase /\ program' = program
        /\ functions' = functions /\ Loaded' = Loaded /\ Runtime!Boot
    BY DEF Start, Loaded, compiler, ProcessInv
  <1>2. Runtime!Boot'
    BY <1>1 DEF Start, Runtime!Boot, Runtime!Null
  <1>3. functions \in Printable
    BY DEF Out!IInv, Out!Typed, Printable
  <1>4. ASSUME Generator!Conventional'
        PROVE  Mach!Inv' /\ Mach!NoFrameFault'
    <2>1. Generator!Conventional
      BY <1>1, <1>4 DEF Generator!Conventional, Generator!Expressions
    <2>2. WellFormed(Annotate(functions))
      BY <1>1, <2>1, SameConventions, SameNotes, SameLayouts DEF Out!LayoutSound
    <2>3. Noted(code, functions)' = Noted(ReadByC(functions), functions)
      BY <1>1 DEF Noted, Loaded
    <2>4. Noted(code, functions)' \in Layouts
      BY <1>3, <2>2, <2>3 DEF Layouts
    <2>5. Mach!Boot'
      BY <1>2 DEF Mach!Boot, Runtime!Boot, Mach!Null, Runtime!Null
    <2>. QED
      BY <2>4, <2>5, MachineStartsNext DEF Mach!Init
  <1>. QED
    BY <1>1, <1>2, <1>4 DEF ProcessInv

(* Once it is there, the machine's steps are all that changes it.          *)
LEMMA ProcessSteps ==
  ASSUME ProcessInv, Out!IInv, code # <<>>, Mach!Inv, [Next]_vars
  PROVE  code' = code /\ UNCHANGED <<program, phase>> /\ [Mach!Next]_(Mach!vars)
  <1>1. CASE Compile \/ Start
    BY <1>1, DoneIsLast DEF Compile, Start, ProcessInv
  <1>2. CASE Run
    <2>1. functions \in Printable
      BY DEF Out!IInv, Out!Typed, Printable
    <2>2. fn \in 1 .. Len(Noted(code, functions)) /\ Len(functions) \in Nat
      BY <2>1 DEF Mach!Inv, Mach!TypeOK, Mach!Functions, Printable
    <2>3. Len(Noted(code, functions)) = Len(functions)
      BY <2>2, NotedLen
    <2>4. Mach!Step
      BY <1>2, <2>1, <2>2, <2>3, RunSteps DEF Run, compiler, ProcessInv
    <2>. QED
      BY <1>2, <2>4, RunKeepsCode DEF Run, compiler, Mach!Next
  <1>3. CASE UNCHANGED vars
    <2>1. UNCHANGED <<program, phase, functions>> /\ UNCHANGED process
      BY <1>3 DEF vars, compiler
    <2>2. Noted(code, functions)' = Noted(code, functions)
      BY <2>1 DEF process, Noted
    <2>. QED
      BY <2>1, <2>2 DEF process, Mach!vars
  <1>. QED
    BY <1>1, <1>2, <1>3 DEF Next, Step, Ended

(* Each of them keeps the machine's invariant in a conventional program.   *)
LEMMA ProcessRuns ==
  ASSUME ProcessInv, Out!IInv, code # <<>>, [Next]_vars
  PROVE  ProcessInv'
  <1>1. ASSUME code' = code, UNCHANGED <<program, phase>>, Generator!Conventional'
        PROVE  Mach!Inv' /\ Mach!NoFrameFault'
    <2>1. Generator!Conventional
      BY <1>1 DEF Generator!Conventional, Generator!Expressions
    <2>2. Mach!Inv /\ Mach!NoFrameFault
      BY <2>1 DEF ProcessInv
    <2>. QED
      BY <2>2, ProcessSteps, MachineRuns
  <1>2. code' = code /\ UNCHANGED <<program, phase, functions>>
    BY DoneIsLast, RunKeepsCode
    DEF Next, Step, Ended, Compile, Start, Run, vars, compiler, process, ProcessInv
  <1>3. Loaded' = Loaded
    BY <1>2 DEF Loaded
  <1>. QED
    BY <1>1, <1>2, <1>3 DEF ProcessInv

(* Before, only the generator does something.                              *)
LEMMA ProcessInvNext ==
  ASSUME ProcessInv, Out!IInv, Out!LayoutSound, [Next]_vars
  PROVE  ProcessInv'
  <1>1. CASE code = <<>> /\ UNCHANGED process
    BY <1>1 DEF process, ProcessInv, Runtime!Boot, Runtime!Null
  <1>2. CASE Start
    BY <1>2, ProcessStarts
  <1>3. CASE code # <<>>
    BY <1>3, ProcessRuns
  <1>. QED
    BY <1>1, <1>2, <1>3 DEF Next, Step, Compile, Run, Ended, vars

(* It holds from the start.                                                *)
THEOREM ProcessInvariance == Spec => []ProcessInv
  <1>1. Init => ProcessInv
    BY DEF Init, ProcessInv
  <1>. QED
    BY OutputSound, ProcessInvNext, <1>1, PTL DEF Spec

-----------------------------------------------------------------------------
(* What a program may count on.                                            *)

(* A conventional program that lispc compiles never pops an empty stack,   *)
(* takes another word for a saved register, follows a NULL environment or  *)
(* indexes past its bindings or arguments: the pushes, pops and ldmfd that *)
(* genHeader prints without a check are safe up to the size of the stack.  *)
CompiledSafely ==
  Generator!Conventional =>
    status \notin {"underflow", "frame", "environment", "binding", "argument"}

(* The procedures that such a program passes around are closures: each     *)
(* carries an environment of the function whose lines it was written in,   *)
(* and that environment is nested as the source nests its lambdas.         *)
CompiledScope ==
  Generator!Conventional /\ code # <<>> => Mach!LexicalScope /\ Mach!ClosuresKeepScope

(* Its calls return to the registers they were made with, and no call      *)
(* writes where its callers keep their operands.                           *)
CompiledCalls ==
  [][Generator!Conventional /\ code # <<>> =>
       /\ Len(calls') < Len(calls) =>
            fp' = Mach!Caller.fp /\ env' = Mach!Caller.env /\ sp' = Mach!Caller.sp
       /\ \A i \in fp .. (StackSize - 1) : stack'[i] = stack[i]]_vars

(* No output that comes from conventional source makes a frame fault,      *)
(* whatever it computes: push, pop, stmfd and ldmfd need no check of sp.   *)
THEOREM CompiledIsSafe == Spec => []CompiledSafely
  <1>1. ProcessInv => CompiledSafely
    BY DEF ProcessInv, CompiledSafely, Mach!NoFrameFault, Runtime!Boot
  <1>. QED
    BY ProcessInvariance, <1>1, PTL

(* Lexical scope survives compilation: what genScanVariable counted in the *)
(* source is what the steps outwards find at run time.                     *)
THEOREM CompiledIsScoped == Spec => []CompiledScope
  <1>1. ProcessInv => CompiledScope
    BY DEF ProcessInv, CompiledScope, Mach!Inv
  <1>. QED
    BY ProcessInvariance, <1>1, PTL

(* The calls of the output are properly nested on the stack that push,     *)
(* stmfd and ldmfd share.                                                  *)
THEOREM CompiledCallsAreNested == Spec => CompiledCalls
  <1>1. ProcessInv /\ Out!IInv /\ [Next]_vars =>
          [Generator!Conventional /\ code # <<>> =>
             /\ Len(calls') < Len(calls) =>
                  fp' = Mach!Caller.fp /\ env' = Mach!Caller.env /\ sp' = Mach!Caller.sp
             /\ \A i \in fp .. (StackSize - 1) : stack'[i] = stack[i]]_vars
    <2> SUFFICES ASSUME ProcessInv, Out!IInv, [Next]_vars, Generator!Conventional, code # <<>>
                 PROVE  /\ Len(calls') < Len(calls) =>
                             /\ fp' = Mach!Caller.fp /\ env' = Mach!Caller.env
                             /\ sp' = Mach!Caller.sp
                        /\ \A i \in fp .. (StackSize - 1) : stack'[i] = stack[i]
      OBVIOUS
    <2>1. Mach!Inv
      BY DEF ProcessInv
    <2>2. [Mach!Next]_(Mach!vars)
      BY <2>1, ProcessSteps
    <2>3. Len(calls') < Len(calls) =>
            fp' = Mach!Caller.fp /\ env' = Mach!Caller.env /\ sp' = Mach!Caller.sp
      BY <2>1, <2>2, Mach!ShorterCalls, SameMachine, LaidOut
    <2>4. \A i \in fp .. (StackSize - 1) : stack'[i] = stack[i]
      BY <2>1, <2>2, Mach!DeeperStack, SameMachine, LaidOut
    <2>. QED
      BY <2>3, <2>4
  <1>. QED
    BY ProcessInvariance, OutputSound, <1>1, PTL DEF Spec, CompiledCalls

=============================================================================
