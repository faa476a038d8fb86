------------------------------ MODULE Machine ------------------------------
(***************************************************************************)
(* The run-time machine of a compiled program: the registers, the stack    *)
(* and the helper functions that genHeader prints at the head of every     *)
(* output file, driven by the lines that the generator prints after them.  *)
(*                                                                         *)
(* A line whose effect C leaves undefined (a read through NULL, an index   *)
(* out of range, a division by zero) moves the machine to a state named    *)
(* after the reason; what the process does after it is not modelled.  The  *)
(* registers proc, r1, r2 and r3 are left out: no statement reads one that *)
(* the same line did not write.                                            *)
(***************************************************************************)
EXTENDS Words

CONSTANTS
  Codes,        \* the compiled programs to run
  StackSize     \* STACK_SIZE

ASSUME MachineAssumption ==
  /\ StackSize \in Nat \ {0}
  /\ MaxArgs \in Nat \ {0, 1}
  /\ IntMax \in Nat \ {0}
  /\ Addresses \subseteq (IntMin .. IntMax) \ {0}
  /\ Addresses # {}
  /\ \A n \in IntMin .. IntMax : Decimal(n) \in Texts

VARIABLES
  code,     \* the program being run; no step changes it
  fn, pc,   \* the function and the line of it that come next
  calls,    \* the C call stack: where each active call() returns to, with
            \* the caller's fp, env and sp at the call as history
  stack, sp, fp, args, ret, r0, env, benv,
  envs,     \* the environments allocated so far: a pointer is an index, 0 is NULL
  printed,  \* what the process has written
  status    \* "run", "exit", or the reason why the last line was undefined

vars == <<code, fn, pc, calls, stack, sp, fp, args, ret, r0, env, benv,
          envs, printed, status>>

-----------------------------------------------------------------------------
(* The line that comes next.                                               *)

Body == code[fn].body
Line == Body[pc]

-----------------------------------------------------------------------------
(* Lines that are undefined in the current state, and why.                 *)

Overflows ==
  \/ Line.op \in PushOps /\ sp < 1
  \/ Line.op = "enter" /\ sp < 2

Underflows ==
  \/ Line.op \in PopOps /\ sp >= StackSize
  \/ Line.op = "return" /\ fp + 1 >= StackSize

BadFrame ==
  /\ Line.op = "return" /\ fp + 1 < StackSize
  /\ ~(stack[fp].t = "fp" /\ stack[fp + 1].t = "env")

(* The environment that the line reads or writes through a pointer.        *)
Pointed ==
  IF Line.op \in {"outer", "get", "set"}
  THEN IF r0.t = "env" THEN r0.e ELSE 0
  ELSE env

NoEnvironment ==
  Line.op \in {"prim", "bind", "def", "outer", "get", "set"} /\ Pointed = 0

BadBinding ==
  /\ Line.op \in {"prim", "bind", "def", "get", "set"} /\ Pointed # 0
  /\ Line.n >= Len(envs[Pointed].bindings)

BadArgument == Line.op \in {"arg", "bind"} /\ Line.n >= MaxArgs

BadWord ==
  /\ Line.op \in {"if", "call", "exit"} /\ sp < StackSize
  /\ ~ IF Line.op = "call"
       THEN IsProcedure(stack[sp]) /\ (stack[sp].t = "prim" => Readable(stack[sp].p, args))
       ELSE IsObject(stack[sp])

Faults ==
  {r \in {"overflow", "underflow", "frame", "environment", "binding",
          "argument", "word"} :
     CASE r = "overflow"    -> Overflows
       [] r = "underflow"   -> Underflows
       [] r = "frame"       -> BadFrame
       [] r = "environment" -> NoEnvironment
       [] r = "binding"     -> BadBinding
       [] r = "argument"    -> BadArgument
       [] r = "word"        -> BadWord}

At(op) == status = "run" /\ Line.op = op /\ Faults = {}

-----------------------------------------------------------------------------
(* The machine.  main starts after initMachine.                            *)

Boot ==
  /\ fn = 1 /\ pc = 1 /\ calls = <<>>
  /\ stack = [i \in 0 .. (StackSize - 1) |-> Null]
  /\ sp = StackSize /\ fp = StackSize
  /\ args = [i \in 0 .. (MaxArgs - 1) |-> Null]
  /\ ret = Null /\ r0 = Null
  /\ env = 0 /\ benv = 0 /\ envs = <<>>
  /\ printed = <<>> /\ status = "run"

Init == code \in Codes /\ Boot

Top == stack[sp]
DropTwo == sp' = sp + 2 /\ stack' = stack
Drop == sp' = sp + 1 /\ stack' = stack
Push(w) == sp' = sp - 1 /\ stack' = [stack EXCEPT ![sp - 1] = w]
KeepStack == UNCHANGED <<stack, sp>>

Goto(i) == pc' = i /\ UNCHANGED <<fn, calls, code, fp, benv>>
Advance == Goto(pc + 1)

Stored(es, e, n, w) == [es EXCEPT ![e].bindings[n + 1] = w]
Store(e, n, w) == envs' = Stored(envs, e, n, w)

EnclosingCaller == env
Enclosing == benv

(* genEnvironment: a new environment for the running function; fn is       *)
(* history, C has only the pointers.                                       *)
NewEnvironment ==
  /\ envs' = Append(envs, [fn |-> fn, enclosing |-> Enclosing,
                           bindings |-> [i \in 1 .. code[fn].size |-> Unset]])
  /\ env' = Len(envs) + 1

Environment ==
  /\ At("env")
  /\ NewEnvironment /\ KeepStack /\ Advance
  /\ UNCHANGED <<args, ret, r0, printed, status>>

(* The head of a Lambda: stmfd, and the callee's environment.              *)
SavedFpMoved == FpWord(sp - 2)
SavedFp == FpWord(fp)

Enter ==
  /\ At("enter")
  /\ stack' = [stack EXCEPT ![sp - 1] = EnvWord(env), ![sp - 2] = SavedFp]
  /\ sp' = sp - 2 /\ fp' = sp - 2
  /\ NewEnvironment
  /\ pc' = pc + 1
  /\ UNCHANGED <<code, fn, calls, args, ret, r0, benv, printed, status>>

BindPrimitive ==
  /\ At("prim")
  /\ r0' = PrimObj(Line.p, env)
  /\ Store(env, Line.n, PrimObj(Line.p, env))
  /\ KeepStack /\ Advance
  /\ UNCHANGED <<args, ret, env, printed, status>>

BindParameter ==
  /\ At("bind")
  /\ Store(env, Line.n, args[Line.n])
  /\ KeepStack /\ Advance
  /\ UNCHANGED <<args, ret, r0, env, printed, status>>

(* The object that an int, a str or a proc line builds.                    *)
BaseCallee == benv
Base == env

Literal ==
  CASE Line.op = "int"  -> IntObj(Line.n)
    [] Line.op = "str"  -> StrObj(Line.s)
    [] Line.op = "proc" -> ProcObj(Line.f, Base)

PushLiteral ==
  /\ \E op \in {"int", "str", "proc"} : At(op)
  /\ r0' = Literal
  /\ Push(Literal) /\ Advance
  /\ UNCHANGED <<args, ret, env, envs, printed, status>>

ScanFromHere ==
  /\ At("scan")
  /\ r0' = EnvWord(env)
  /\ KeepStack /\ Advance
  /\ UNCHANGED <<args, ret, env, envs, printed, status>>

OuterFromHere == EnvWord(envs[env].enclosing)
Outer == EnvWord(envs[r0.e].enclosing)

ScanOutwards ==
  /\ At("outer")
  /\ r0' = Outer
  /\ KeepStack /\ Advance
  /\ UNCHANGED <<args, ret, env, envs, printed, status>>

GetVariable ==
  /\ At("get")
  /\ Push(envs[r0.e].bindings[Line.n + 1]) /\ Advance
  /\ UNCHANGED <<args, ret, r0, env, envs, printed, status>>

SetVariable ==
  /\ At("set")
  /\ Store(r0.e, Line.n, Top)
  /\ Drop /\ Advance
  /\ UNCHANGED <<args, ret, r0, env, printed, status>>

DefineVariable ==
  /\ At("def")
  /\ Store(env, Line.n, Top)
  /\ Drop /\ Advance
  /\ UNCHANGED <<args, ret, r0, env, printed, status>>

Branch ==
  /\ At("if")
  /\ r0' = Top /\ Drop
  /\ \E content \in Contents(Top) :
       Goto(IF content # 0 THEN pc + 1 ELSE WhenZero(Body, pc))
  /\ UNCHANGED <<args, ret, env, envs, printed, status>>

RejoinStuck == pc
Rejoin == AfterBlock(Body, pc)

CloseBlock ==
  /\ At("close")
  /\ KeepStack /\ Goto(Rejoin)
  /\ UNCHANGED <<args, ret, r0, env, envs, printed, status>>

TakeArgument ==
  /\ At("arg")
  /\ args' = [args EXCEPT ![Line.n] = Top]
  /\ Drop /\ Advance
  /\ UNCHANGED <<ret, r0, env, envs, printed, status>>

-----------------------------------------------------------------------------
(* proc = pop(); call(); -- call sets benv and runs the function that the  *)
(* procedure points to: a Lambda, or a primitive, which returns at once.   *)

CallLambda ==
  /\ At("call") /\ Top.t = "proc"
  /\ benv' = Top.base
  /\ calls' = Append(calls, [fn |-> fn, pc |-> pc + 1, fp |-> fp, env |-> env,
                             sp |-> sp + 1])
  /\ fn' = Top.f /\ pc' = 1
  /\ Drop
  /\ UNCHANGED <<code, fp, args, ret, r0, env, envs, printed, status>>

(* What every primitive does to the registers.                             *)
CallPrimitive(ps) ==
  /\ At("call") /\ Top.t = "prim" /\ Top.p \in ps
  /\ benv' = Top.base /\ r0' = args[0]
  /\ pc' = pc + 1 /\ Drop
  /\ UNCHANGED <<code, fn, calls, fp, args, env, envs>>

CallIntBinary ==
  /\ CallPrimitive(IntBinary)
  /\ \E a \in Contents(args[0]), b \in Contents(args[1]) :
       IF DivTraps(Top.p, a, b)
       THEN status' = "arithmetic" /\ ret' = ret
       ELSE status' = status /\ ret' = IntObj(Apply(Top.p, a, b))
  /\ UNCHANGED printed

CallIntUnary ==
  /\ CallPrimitive(IntUnary)
  /\ \E a \in Contents(args[0]) : ret' = IntObj(Flag(a = 0))
  /\ UNCHANGED <<printed, status>>

CallEqualString ==
  /\ CallPrimitive({"pEqualString"})
  /\ ret' = IntObj(Flag(args[0].s = args[1].s))
  /\ UNCHANGED <<printed, status>>

CallInt2string ==
  /\ CallPrimitive({"pInt2string"})
  /\ \E a \in Contents(args[0]) : ret' = StrObj(Decimal(a))
  /\ UNCHANGED <<printed, status>>

(* pPrint leaves ret as the last call left it.                             *)
CallPrint ==
  /\ CallPrimitive({"pPrint"})
  /\ printed' = Append(printed, args[0].s)
  /\ UNCHANGED <<ret, status>>

PushResult ==
  /\ At("pushret")
  /\ Push(ret) /\ Advance
  /\ UNCHANGED <<args, ret, r0, env, envs, printed, status>>

-----------------------------------------------------------------------------
(* The end of a function: ret = pop(), and then ldmfd and the C return of  *)
(* a Lambda, or the exit of main with the content of ret.                  *)

SavedEnvStale == benv
SavedEnv == stack[fp + 1].e

Return ==
  /\ At("return") /\ calls # <<>>
  /\ ret' = Top
  /\ sp' = fp + 2 /\ fp' = stack[fp].p /\ env' = SavedEnv
  /\ LET caller == calls[Len(calls)]
     IN fn' = caller.fn /\ pc' = caller.pc
  /\ calls' = SubSeq(calls, 1, Len(calls) - 1)
  /\ UNCHANGED <<code, stack, args, r0, benv, envs, printed, status>>

Exit ==
  /\ At("exit")
  /\ ret' = Top /\ Drop
  /\ status' = "exit"
  /\ UNCHANGED <<code, fn, pc, calls, fp, args, r0, env, benv, envs, printed>>

Undefined ==
  /\ status = "run" /\ status' \in Faults
  /\ UNCHANGED <<code, fn, pc, calls, stack, sp, fp, args, ret, r0, env, benv,
                 envs, printed>>

(* The process is gone.                                                    *)
Halted == status # "run" /\ UNCHANGED vars

Step ==
  \/ Environment \/ Enter \/ BindPrimitive \/ BindParameter
  \/ PushLiteral \/ ScanFromHere \/ ScanOutwards \/ GetVariable \/ SetVariable
  \/ DefineVariable \/ Branch \/ CloseBlock \/ TakeArgument
  \/ CallLambda \/ CallIntBinary \/ CallIntUnary \/ CallEqualString
  \/ CallInt2string \/ CallPrint \/ PushResult \/ Return \/ Exit \/ Undefined

Next == Step \/ Halted

Spec == Init /\ [][Next]_vars

(* A process that can run goes on running.                                 *)
FairSpec == Spec /\ WF_vars(Step)

=============================================================================
