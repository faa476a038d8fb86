-------------------------- MODULE FrameDiscipline --------------------------
(***************************************************************************)
(* What the machine promises to programs laid out the way the generator    *)
(* lays them out, and the invariants behind the promise.                   *)
(*                                                                         *)
(* No line of the output checks the stack: stmfd and ldmfd find a caller's *)
(* registers only because every line leaves the words between sp and fp    *)
(* balanced, and a variable is found only because the environments nest at *)
(* run time the way the functions nested when they were compiled.          *)
(***************************************************************************)
EXTENDS Machine

ASSUME LayoutAssumption == \A c \in Codes : WellFormed(c)

Functions    == 1 .. Len(code)
Environments == 1 .. Len(envs)

-----------------------------------------------------------------------------
(* The type invariant.                                                     *)

Word ==
  {Null, Unset}
    \cup [t : {"int"}, n : LongLong]
    \cup [t : {"str"}, s : Texts]
    \cup [t : {"proc"}, f : Nat, base : Nat]
    \cup [t : {"prim"}, p : Primitives, base : Nat]
    \cup [t : {"env"}, e : Nat]
    \cup [t : {"fp"}, p : Nat]

EnvironmentRecord == [fn : Nat, enclosing : Nat, bindings : Seq(Word)]
CallRecord   == [fn : Nat, pc : Nat, fp : Nat, env : Nat, sp : Nat]

Status ==
  {"run", "exit", "overflow", "underflow", "frame", "environment", "binding",
   "argument", "word", "arithmetic"}

(* Every register, stack slot, argument and binding holds a word of the    *)
(* machine, and the stack pointers stay within one of the stack.           *)
TypeOK ==
  /\ code \in Codes
  /\ fn \in Functions
  /\ pc \in 1 .. Len(code[fn].body)
  /\ calls \in Seq(CallRecord)
  /\ sp \in 0 .. StackSize
  /\ fp \in 0 .. StackSize
  /\ stack \in [0 .. (StackSize - 1) -> Word]
  /\ args \in [0 .. (MaxArgs - 1) -> Word]
  /\ ret \in Word
  /\ r0 \in Word
  /\ env \in Nat
  /\ benv \in Nat
  /\ envs \in Seq(EnvironmentRecord)
  /\ printed \in Seq(Texts)
  /\ status \in Status

-----------------------------------------------------------------------------
(* Lexical scope.                                                          *)

(* The environments nest the way the functions do: an environment is       *)
(* enclosed by one of its function's parent, only main's is outermost, and *)
(* each has the bindings its function allocates.  genScanVariable counts   *)
(* on it when it turns a variable into a number of steps outwards.         *)
LexicalScope ==
  \A e \in Environments :
    /\ envs[e].fn \in Functions
    /\ Len(envs[e].bindings) = code[envs[e].fn].size
    /\ IF envs[e].fn = 1
       THEN envs[e].enclosing = 0
       ELSE /\ envs[e].enclosing \in 1 .. (e - 1)
            /\ envs[envs[e].enclosing].fn = code[envs[e].fn].parent

(* A closure carries an environment of the function whose body built it,   *)
(* wherever it travels: on the stack, in args, in a binding, or in ret.    *)
ClosedIn(c, es, w) ==
  w.t = "proc" =>
    /\ w.f \in 2 .. Len(c)
    /\ w.base \in 1 .. Len(es)
    /\ es[w.base].fn = c[w.f].parent

Closed(w) == ClosedIn(code, envs, w)

ClosuresKeepScope ==
  /\ Closed(ret) /\ Closed(r0)
  /\ \A i \in 0 .. (StackSize - 1) : Closed(stack[i])
  /\ \A i \in 0 .. (MaxArgs - 1) : Closed(args[i])
  /\ \A e \in Environments :
       \A i \in 1 .. Len(envs[e].bindings) : Closed(envs[e].bindings[i])

(* Past its head a function runs in an environment of its own.             *)
OwnEnvironment ==
  IF pc > 1
  THEN env \in Environments /\ envs[env].fn = fn
  ELSE IF fn = 1 THEN env = 0 /\ benv = 0 /\ envs = <<>>
       ELSE benv \in Environments /\ envs[benv].fn = code[fn].parent

(* Where a line relies on r0, r0 points to an environment of the function  *)
(* that the layout says.                                                   *)
ScanOnPath ==
  code[fn].owner[pc] # 0 =>
    /\ r0.t = "env" /\ r0.e \in Environments
    /\ envs[r0.e].fn = code[fn].owner[pc]

-----------------------------------------------------------------------------
(* Frames.                                                                 *)

Caller == calls[Len(calls)]

(* The two words below a caller's operands, where the frame of the         *)
(* function it called starts, hold the caller's fp and env.                *)
SavedAt(p, c) == stack[p] = FpWord(c.fp) /\ stack[p + 1] = EnvWord(c.env)

(* The calls still active are chained through the stack: each one's frame  *)
(* starts right below the operands of the call that made it, holds that    *)
(* caller's registers, and lies below every earlier caller's operands.     *)
FrameChain ==
  /\ \A k \in 1 .. Len(calls) :
       /\ calls[k].sp <= calls[k].fp
       /\ calls[k].fn \in Functions /\ calls[k].env \in Environments
       /\ envs[calls[k].env].fn = calls[k].fn
       /\ IF k = 1
          THEN calls[k].fn = 1 /\ calls[k].fp = StackSize
          ELSE /\ calls[k].fn # 1
               /\ calls[k].fp = calls[k - 1].sp - 2
               /\ SavedAt(calls[k].fp, calls[k - 1])
       /\ \A j \in 1 .. (k - 1) : calls[k].fp < calls[j].sp
  /\ calls = <<>> <=> fn = 1
  /\ fn = 1 => fp = StackSize
  /\ fn # 1 /\ pc > 1 =>
       /\ fp = Caller.sp - 2
       /\ SavedAt(fp, Caller)
       /\ \A j \in 1 .. Len(calls) : fp < calls[j].sp

(* Every function keeps at least the operands that its layout promises,    *)
(* its callers while they wait for it included, so that no line pops a     *)
(* word of another frame.                                                  *)
DepthKept ==
  /\ \A k \in 1 .. Len(calls) :
       /\ calls[k].pc \in 2 .. Len(code[calls[k].fn].body)
       /\ code[calls[k].fn].depth[calls[k].pc] <= calls[k].fp - calls[k].sp
       /\ code[calls[k].fn].owner[calls[k].pc] = 0
  /\ IF pc = 1 /\ fn # 1
     THEN sp = Caller.sp /\ fp = Caller.fp /\ env = Caller.env
     ELSE status # "exit" => sp <= fp /\ code[fn].depth[pc] <= fp - sp

Inv ==
  /\ TypeOK /\ LexicalScope /\ ClosuresKeepScope /\ OwnEnvironment
  /\ ScanOnPath /\ FrameChain /\ DepthKept

-----------------------------------------------------------------------------
(* The promises.                                                           *)

(* A program with a layout never pops an empty stack, never takes another  *)
(* word for a saved register, and never follows a NULL environment or      *)
(* indexes past a binding or argument array, whatever it computes: the     *)
(* unchecked push, pop and ldmfd are then safe up to the stack's size.     *)
NoFrameFault ==
  status \notin {"underflow", "frame", "environment", "binding", "argument"}

(* A return gives the caller back the registers fp, env and sp that it had *)
(* when it made the call: the values a Lambda leaves on the stack go away. *)
ReturnRestoresCaller ==
  [][Len(calls') < Len(calls) =>
       fp' = Caller.fp /\ env' = Caller.env /\ sp' = Caller.sp]_vars

(* No step of a function writes to the stack above its own operands: its   *)
(* callers find their operands and saved registers as they left them.      *)
CallersUntouched ==
  [][\A i \in fp .. (StackSize - 1) : stack'[i] = stack[i]]_vars

(* Every run comes to an end: the text has no backward jump and the stack  *)
(* bounds the recursion.                                                   *)
Halts == <>(status # "run")

-----------------------------------------------------------------------------
(* What the primitive procedures compute.                                  *)

(* The line that comes next calls the primitive p.                         *)
Calls(p) ==
  status = "run" /\ Line.op = "call" /\ sp < StackSize /\ Top.t = "prim" /\ Top.p = p

Gives(n) == status' = "run" /\ ret' = IntObj(n)
Tells(b) == Gives(IF b THEN 1 ELSE 0)

(* The result up to a multiple of the number of long longs.                *)
Modulus == 2 * (IntMax + 1)
GivesNear(n) ==
  status' = "run" /\ ret'.t = "int" /\ ret'.n \in LongLong /\ (ret'.n - n) % Modulus = 0

(* Long division, with the remainder on the dividend's side of zero.       *)
Divides(a, b, q, r) == a = b * q + r /\ r * r < b * b /\ r * a >= 0

ExactOfOne(p, a) ==
  /\ p \in IntUnary => Tells(a = 0)
  /\ p = "pInt2string" => status' = "run" /\ ret' = StrObj(Decimal(a))
  /\ p \in {"pPrint", "pEqualString"} => status' = "word"

ExactOfTwo(p, a, b) ==
  LET divides == p \in {"pDiv", "pRemainder"}
      traps   == b = 0 \/ <<a, b>> = <<IntMin, -1>>
  IN /\ divides /\ traps => status' = "arithmetic"
     /\ divides /\ ~traps =>
          \E q, r \in LongLong : Divides(a, b, q, r) /\ Gives(IF p = "pDiv" THEN q ELSE r)
     /\ p = "pAdd"          => GivesNear(a + b)
     /\ p = "pSub"          => GivesNear(a - b)
     /\ p = "pMul"          => GivesNear(a * b)
     /\ p = "pEqual"        => Tells(a = b)
     /\ p = "pGreater"      => Tells(~(a <= b))
     /\ p = "pGreaterEqual" => Tells(~(a < b))
     /\ p = "pLess"         => Tells(b > a)
     /\ p = "pLessEqual"    => Tells(b >= a)
     /\ p = "pOr"           => Tells({a, b} # {0})
     /\ p = "pAnd"          => Tells(0 \notin {a, b})

(* The result of a primitive whose operands are Integers, told by what     *)
(* characterises it: a sum, difference or product up to a multiple of      *)
(* 2^64; a quotient and remainder by long division; a comparison by the    *)
(* order of the integers; and a process that stops exactly where idiv      *)
(* traps, or where an Integer is read as a String.  eq? is =.              *)
PrimitivesExact ==
  [][\A p \in Primitives :
       Calls(p) /\ args[0].t = "int" =>
         /\ ExactOfOne(p, args[0].n)
         /\ args[1].t = "int" => ExactOfTwo(p, args[0].n, args[1].n)]_vars

(* Anything but the number 0 counts as true wherever a truth is asked for, *)
(* also a String or a Procedure; and a String equals another by its text.  *)
Truthy(w) == w # IntObj(0)

ObjectsAreTrue ==
  [][\A p \in Primitives :
       Calls(p) /\ IsObject(args[0]) =>
         /\ p \in IntUnary => Tells(~Truthy(args[0]))
         /\ IsObject(args[1]) =>
              /\ p = "pOr"  => Tells(Truthy(args[0]) \/ Truthy(args[1]))
              /\ p = "pAnd" => Tells(Truthy(args[0]) /\ Truthy(args[1]))
              /\ p = "pEqualString" =>
                   IF args[0].t = "str" /\ args[1].t = "str"
                   THEN Tells(args[0].s = args[1].s)
                   ELSE status' = "word"]_vars

=============================================================================
