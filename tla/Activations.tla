---------------------------- MODULE Activations ----------------------------
(***************************************************************************)
(* The machine that the output of lispc is meant to be: every active call  *)
(* is an activation of its own, with the line it has come to, the          *)
(* environment it runs in and the operands it has computed.  There is no   *)
(* stack that activations share, nothing to save and nothing to restore,   *)
(* and a call ends by going away.                                          *)
(*                                                                         *)
(* It promises nothing about when operands are too many (overflow), and    *)
(* nothing about programs without a layout.                                *)
(***************************************************************************)
EXTENDS Words

CONSTANT Codes    \* the compiled programs to run

VARIABLES
  code,
  acts,           \* the activations, the running one last
  args, ret, r0,  \* the registers that pass operands, results and environments
  envs, printed, status

vars == <<code, acts, args, ret, r0, envs, printed, status>>

-----------------------------------------------------------------------------

(* Before its first line, env is the environment around the function's.    *)
Activation(f, i, e, ops) == [fn |-> f, pc |-> i, env |-> e, operands |-> ops]

Now  == acts[Len(acts)]
Body == code[Now.fn].body
Line == Body[Now.pc]

Top     == Now.operands[Len(Now.operands)]
Dropped == SubSeq(Now.operands, 1, Len(Now.operands) - 1)

At(ops) == status = "run" /\ Line.op \in ops

(* The running activation goes on at line i with the given operands.       *)
Becomes(a) == acts' = [acts EXCEPT ![Len(acts)] = a]
Proceed(ops, i) == Becomes(Activation(Now.fn, i, Now.env, ops))
Onward(ops) == Proceed(ops, Now.pc + 1)

Push(w) == Onward(Append(Now.operands, w))
Drop    == Onward(Dropped)
Pass    == Onward(Now.operands)

Store(e, n, w) == envs' = [envs EXCEPT ![e].bindings[n + 1] = w]

-----------------------------------------------------------------------------

Init ==
  /\ code \in Codes
  /\ acts = <<Activation(1, 1, 0, <<>>)>>
  /\ args = [i \in 0 .. (MaxArgs - 1) |-> Null]
  /\ ret = Null /\ r0 = Null
  /\ envs = <<>> /\ printed = <<>> /\ status = "run"

(* A function, main or a Lambda, gets an environment.                      *)
Begin ==
  /\ At({"env", "enter"})
  /\ envs' = Append(envs, [fn |-> Now.fn, enclosing |-> Now.env,
                           bindings |-> [i \in 1 .. code[Now.fn].size |-> Unset]])
  /\ Becomes(Activation(Now.fn, 2, Len(envs) + 1, Now.operands))
  /\ UNCHANGED <<code, args, ret, r0, printed, status>>

(* Primitives and parameters are bound.                                    *)
Bind ==
  /\ At({"prim", "bind"})
  /\ LET w == IF Line.op = "prim" THEN PrimObj(Line.p, Now.env) ELSE args[Line.n]
     IN Store(Now.env, Line.n, w) /\ r0' = IF Line.op = "prim" THEN w ELSE r0
  /\ Pass
  /\ UNCHANGED <<code, args, ret, printed, status>>

Literal ==
  CASE Line.op = "int"  -> IntObj(Line.n)
    [] Line.op = "str"  -> StrObj(Line.s)
    [] Line.op = "proc" -> ProcObj(Line.f, Now.env)

PushLiteral ==
  /\ At({"int", "str", "proc"})
  /\ r0' = Literal /\ Push(Literal)
  /\ UNCHANGED <<code, args, ret, envs, printed, status>>

Scan ==
  /\ At({"scan", "outer"})
  /\ r0' = EnvWord(IF Line.op = "scan" THEN Now.env ELSE envs[r0.e].enclosing)
  /\ Pass
  /\ UNCHANGED <<code, args, ret, envs, printed, status>>

Fetch ==
  /\ At({"get", "pushret"})
  /\ Push(IF Line.op = "get" THEN envs[r0.e].bindings[Line.n + 1] ELSE ret)
  /\ UNCHANGED <<code, args, ret, r0, envs, printed, status>>

Assign ==
  /\ At({"set", "def"})
  /\ Store(IF Line.op = "set" THEN r0.e ELSE Now.env, Line.n, Top) /\ Drop
  /\ UNCHANGED <<code, args, ret, r0, printed, status>>

Branch ==
  /\ At({"if"})
  /\ r0' = Top
  /\ \E content \in Contents(Top) :
       Proceed(Dropped, IF content # 0 THEN Now.pc + 1 ELSE WhenZero(Body, Now.pc))
  /\ UNCHANGED <<code, args, ret, envs, printed, status>>

CloseBlock ==
  /\ At({"close"})
  /\ Proceed(Now.operands, AfterBlock(Body, Now.pc))
  /\ UNCHANGED <<code, args, ret, r0, envs, printed, status>>

TakeArgument ==
  /\ At({"arg"})
  /\ args' = [args EXCEPT ![Line.n] = Top] /\ Drop
  /\ UNCHANGED <<code, ret, r0, envs, printed, status>>

-----------------------------------------------------------------------------

(* A new activation, without operands, in the environment of the closure.  *)
CallLambda ==
  /\ At({"call"}) /\ Top.t = "proc"
  /\ acts' = Append([acts EXCEPT ![Len(acts)] =
                       Activation(Now.fn, Now.pc + 1, Now.env, Dropped)],
                    Activation(Top.f, 1, Top.base, <<>>))
  /\ UNCHANGED <<code, args, ret, r0, envs, printed, status>>

(* What the primitive p may return; print returns what the last call did.  *)
Returns(p, w) ==
  \/ /\ p \in IntBinary
     /\ \E a \in Contents(args[0]), b \in Contents(args[1]) :
          ~DivTraps(p, a, b) /\ w = IntObj(Apply(p, a, b))
  \/ p \in IntUnary /\ \E a \in Contents(args[0]) : w = IntObj(Flag(a = 0))
  \/ p = "pEqualString" /\ w = IntObj(Flag(args[0].s = args[1].s))
  \/ p = "pInt2string" /\ \E a \in Contents(args[0]) : w = StrObj(Decimal(a))
  \/ p = "pPrint" /\ w = ret

CallPrimitive ==
  /\ At({"call"}) /\ Top.t = "prim"
  /\ r0' = args[0] /\ Drop
  /\ \/ Returns(Top.p, ret') /\ status' = status
     \/ /\ Top.p \in IntBinary
        /\ \E a \in Contents(args[0]), b \in Contents(args[1]) : DivTraps(Top.p, a, b)
        /\ ret' = ret /\ status' = "arithmetic"
  /\ printed' = IF Top.p = "pPrint" THEN Append(printed, args[0].s) ELSE printed
  /\ UNCHANGED <<code, args, envs>>

Return ==
  /\ At({"return"}) /\ Len(acts) > 1
  /\ ret' = Top
  /\ acts' = SubSeq(acts, 1, Len(acts) - 1)
  /\ UNCHANGED <<code, args, r0, envs, printed, status>>

Exit ==
  /\ At({"exit"})
  /\ ret' = Top /\ status' = "exit"
  /\ Proceed(Dropped, Now.pc)
  /\ UNCHANGED <<code, args, r0, envs, printed>>

(* What may go wrong: no room for an operand or an activation, and a word  *)
(* of the wrong kind.                                                      *)
Fault ==
  /\ \/ At(PushOps \cup {"enter"}) /\ status' = "overflow"
     \/ /\ At({"if", "call", "exit"}) /\ status' = "word"
        /\ ~ IF Line.op = "call"
             THEN IsProcedure(Top) /\ (Top.t = "prim" => Readable(Top.p, args))
             ELSE IsObject(Top)
  /\ UNCHANGED <<code, acts, args, ret, r0, envs, printed>>

Next ==
  \/ Begin \/ Bind \/ PushLiteral \/ Scan \/ Fetch \/ Assign \/ Branch
  \/ CloseBlock \/ TakeArgument \/ CallLambda \/ CallPrimitive \/ Return \/ Exit
  \/ Fault

Spec == Init /\ [][Next]_vars

=============================================================================
