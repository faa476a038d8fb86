--------------------------- MODULE Implementation ---------------------------
(***************************************************************************)
(* The machine with its one stack implements the activations: cutting the  *)
(* stack at the frames gives each active call the operands that are its    *)
(* own.                                                                    *)
(***************************************************************************)
EXTENDS FrameDiscipline

(* The words of a stack from hi - 1 down to lo, in the order in which they *)
(* were pushed.                                                            *)
Cut(s, lo, hi) == [i \in 1 .. (hi - lo) |-> s[hi - i]]

(* A Lambda has been called, and its stmfd is still to come.               *)
Entering == fn # 1 /\ pc = 1

Active(f, i, e, ops) == [fn |-> f, pc |-> i, env |-> e, operands |-> ops]

(* A call that waits for another, and the one that runs.                   *)
Waiting(k) ==
  Active(calls[k].fn, calls[k].pc, calls[k].env, Cut(stack, calls[k].sp, calls[k].fp))

Running ==
  IF Entering THEN Active(fn, pc, benv, <<>>)
  ELSE Active(fn, pc, env, Cut(stack, sp, fp))

Activated == Append([k \in 1 .. Len(calls) |-> Waiting(k)], Running)

Abstract == INSTANCE Activations WITH acts <- Activated

(* Every step of the machine is one of the activations, or none: whatever  *)
(* the unchecked push, pop, stmfd and ldmfd do to the one stack, no call   *)
(* loses, gains or changes an operand of another, and a return leaves the  *)
(* caller exactly as it was.                                               *)
ImplementsActivations == Abstract!Spec

=============================================================================
