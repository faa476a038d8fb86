------------------------------- MODULE Lispc -------------------------------
(***************************************************************************)
(* From the parsed program to what it prints: the generator compiles it,   *)
(* a C compiler reads the output, and the machine runs it.                 *)
(***************************************************************************)
EXTENDS Code

CONSTANTS
  Programs, NodesOf(_), MaxLambdas, StackSize, Addresses, Decimal(_),
  Content(_)    \* the text that C takes a literal for, by what is between its quotes

VARIABLES
  program, tasks, scopes, lambdas, functions, stdout, phase,    \* lispc
  code, fn, pc, calls, stack, sp, fp, args, ret, r0, env, benv, \* its output
  envs, printed, status

compiler == <<program, tasks, scopes, lambdas, functions, stdout, phase>>
process  == <<code, fn, pc, calls, stack, sp, fp, args, ret, r0, env, benv,
              envs, printed, status>>
vars == <<compiler, process>>

Generator == INSTANCE GeneratedCode WITH envs <- scopes, status <- phase
Runtime   == INSTANCE Machine WITH Codes <- {}

(* Programs are finite trees of values that the output can hold, and the   *)
(* machine is as the output needs it.                                      *)
ASSUME LispcAssumption ==
  Generator!NodesAssumption /\ Generator!ValuesAssumption /\ Runtime!MachineAssumption

-----------------------------------------------------------------------------

Init == Generator!Init /\ code = <<>> /\ Runtime!Boot

Compile == Generator!Step /\ UNCHANGED process

(* The output becomes a process: gcc, which is not lispc's own.  It reads  *)
(* the literals, where genString has printed each text as it is.           *)
ReadLine(l) == IF l.op = "str" THEN [l EXCEPT !.s = Content(@)] ELSE l

ReadByC(c) ==
  [f \in DOMAIN c |-> [c[f] EXCEPT !.body = [i \in 1 .. Len(@) |-> ReadLine(@[i])]]]

Loaded == ReadByC(functions)

Start ==
  /\ phase = "done" /\ code = <<>>
  /\ code' = Loaded
  /\ UNCHANGED <<compiler, fn, pc, calls, stack, sp, fp, args, ret, r0, env, benv,
                 envs, printed, status>>

Run == code # <<>> /\ Runtime!Step /\ UNCHANGED compiler

(* No output, or an end.                                                   *)
Ended ==
  /\ phase \notin {"start", "run", "done"} \/ status # "run"
  /\ UNCHANGED vars

Step == Compile \/ Start \/ Run
Next == Step \/ Ended

Spec == Init /\ [][Next]_vars

=============================================================================
