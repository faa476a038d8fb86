--------------------------- MODULE MachineProofs ---------------------------
(***************************************************************************)
(* Proofs about the machine, for every program with a layout, every stack  *)
(* size and every width of the integers; and that with its one stack it    *)
(* implements the activations.                                             *)
(***************************************************************************)
EXTENDS Implementation, SequenceTheorems, TLAPS

-----------------------------------------------------------------------------
(* long long arithmetic stays in long long.                                *)

(* Natural division: quotient, remainder, and that neither exceeds x.      *)
LEMMA Division ==
  ASSUME NEW x \in Nat, NEW y \in Nat \ {0}
  PROVE  /\ x \div y \in Nat /\ x % y \in 0 .. (y - 1)
         /\ x = y * (x \div y) + (x % y)
         /\ x \div y <= x /\ x % y <= x
  OBVIOUS

(* A multiple leaves no remainder.                                         *)
LEMMA Multiples ==
  ASSUME NEW m \in Nat \ {0}, NEW k \in Int
  PROVE  (m * k) % m = 0
  <1>1. PICK x, q, r : x = m * k /\ q = x \div m /\ r = x % m
    OBVIOUS
  <1>2. x \in Int /\ q \in Int /\ r \in 0 .. (m - 1) /\ x = m * q + r
    BY <1>1
  <1>3. PICK d : d = k - q
    OBVIOUS
  <1>4. d \in Int /\ m * d = r
    BY <1>1, <1>2, <1>3
  <1>5. CASE d = 0
    BY <1>1, <1>4, <1>5
  <1>6. CASE d > 0
    <2>1. m * d >= m
      BY <1>4, <1>6
    <2>. QED
      BY <1>2, <1>4, <2>1
  <1>7. CASE d < 0
    <2>1. m * d < 0
      BY <1>4, <1>7
    <2>. QED
      BY <1>2, <1>4, <2>1
  <1>. QED
    BY <1>4, <1>5, <1>6, <1>7

(* Wrapping around brings every integer back into a long long.             *)
LEMMA WrapInRange ==
  ASSUME NEW n \in Int
  PROVE  Wrap(n) \in LongLong
  <1> DEFINE m == 2 * (IntMax + 1)
  <1>1. IntMax \in Nat
    BY MachineAssumption
  <1>2. m \in Nat \ {0} /\ n - IntMin \in Int
    BY <1>1 DEF IntMin
  <1>3. (n - IntMin) % m \in 0 .. (m - 1)
    BY <1>2
  <1>. QED
    BY <1>1, <1>3 DEF Wrap, LongLong, IntMin

(* It takes or adds a multiple of the number of long longs.                *)
LEMMA WrapIsNear ==
  ASSUME NEW n \in Int
  PROVE  (Wrap(n) - n) % Modulus = 0
  <1> DEFINE m == 2 * (IntMax + 1)
  <1>1. m \in Nat \ {0} /\ IntMin \in Int
    BY MachineAssumption DEF IntMin
  <1>2. Modulus = m /\ Wrap(n) = ((n - IntMin) % m) + IntMin
    BY DEF Modulus, Wrap
  <1> HIDE DEF m
  <1>3. PICK k, r, d : k = (n - IntMin) \div m /\ r = (n - IntMin) % m /\ d = 0 - k
    OBVIOUS
  <1>4. k \in Int /\ r \in Int /\ d \in Int /\ n - IntMin = m * k + r
    BY <1>1, <1>3
  <1>5. Wrap(n) - n = r - (n - IntMin)
    <2>1. Wrap(n) = r + IntMin
      BY ONLY <1>2, <1>3
    <2>. QED
      BY <1>1, <1>4, <2>1
  <1>6. m * d = 0 - m * k
    BY <1>1, <1>3, <1>4
  <1>7. Wrap(n) - n = m * d
    BY <1>1, <1>4, <1>5, <1>6
  <1>. QED
    BY <1>1, <1>2, <1>4, <1>7, Multiples

(* A divisor of two or more at least halves its dividend.                  *)
LEMMA Halved ==
  ASSUME NEW x \in Nat, NEW y \in Nat \ {0, 1}, NEW q \in Nat, NEW r \in Nat,
         x = y * q + r
  PROVE  2 * q <= x
  OBVIOUS

(* Squares grow.                                                           *)
LEMMA Squares ==
  ASSUME NEW r \in Nat, NEW y \in Nat, r < y
  PROVE  r * r < y * y
  <1>1. r * r <= r * y
    OBVIOUS
  <1>2. r * y < y * y
    OBVIOUS
  <1>. QED
    BY <1>1, <1>2

(* C's quotient and remainder fit unless idiv traps; the remainder is the  *)
(* one of long division.                                                   *)
LEMMA QuotientInRange ==
  ASSUME NEW a \in LongLong, NEW b \in LongLong, b # 0, ~(a = IntMin /\ b = -1)
  PROVE  /\ Quotient(a, b) \in LongLong /\ Remainder(a, b) \in LongLong
         /\ Divides(a, b, Quotient(a, b), Remainder(a, b))
  <1> DEFINE x == Abs(a)
             y == Abs(b)
             q == x \div y
             r == x % y
  <1>1. IntMax \in Nat \ {0} /\ IntMin = -IntMax - 1
    BY MachineAssumption DEF IntMin
  <1>2. /\ a \in Int /\ b \in Int /\ a <= IntMax /\ a >= IntMin
        /\ x \in Nat /\ y \in Nat \ {0} /\ x <= IntMax + 1 /\ y <= IntMax + 1
        /\ x = IntMax + 1 => a = IntMin
        /\ y = 1 => b \in {1, -1}
        /\ a = IF a < 0 THEN -x ELSE x
        /\ b = IF b < 0 THEN -y ELSE y
    BY <1>1 DEF LongLong, Abs
  <1>3. Quotient(a, b) = IF (a < 0) = (b < 0) THEN q ELSE -q
    BY DEF Quotient
  <1> HIDE DEF x, y
  <1>4. q \in Nat /\ r \in Nat /\ x = y * q + r /\ q <= x /\ r <= x /\ r < y
    <2>1. x \in Nat /\ y \in Nat \ {0}
      BY <1>2
    <2>2. /\ x \div y \in Nat /\ x % y \in 0 .. (y - 1)
          /\ x = y * (x \div y) + (x % y)
          /\ x \div y <= x /\ x % y <= x
      BY <2>1, Division
    <2>3. r \in Nat /\ r < y
      BY <2>1, <2>2
    <2>. QED
      BY <2>2, <2>3
  <1> HIDE DEF q, r
  <1>5. y = 1 => q = x
    BY <1>2, <1>4
  <1>6. Remainder(a, b) = IF a < 0 THEN -r ELSE r
    <2>1. b * Quotient(a, b) = IF a < 0 THEN -(y * q) ELSE y * q
      <3>1. CASE a < 0 /\ b < 0
        BY <3>1, <1>2, <1>3, <1>4
      <3>2. CASE a < 0 /\ ~(b < 0)
        BY <3>2, <1>2, <1>3, <1>4
      <3>3. CASE ~(a < 0) /\ b < 0
        BY <3>3, <1>2, <1>3, <1>4
      <3>4. CASE ~(a < 0) /\ ~(b < 0)
        BY <3>4, <1>2, <1>3, <1>4
      <3>. QED
        BY <3>1, <3>2, <3>3, <3>4
    <2>2. Remainder(a, b) = a - (b * Quotient(a, b))
      BY DEF Remainder
    <2>3. y * q \in Nat
      BY <1>2, <1>4
    <2>. QED
      BY <1>2, <1>4, <2>1, <2>2, <2>3
  <1>7. q <= IntMax \/ (q = IntMax + 1 /\ (a < 0) # (b < 0))
    <2>1. CASE y = 1
      BY <2>1, <1>1, <1>2, <1>5
    <2>2. CASE y # 1
      <3>1. 2 * q <= x
        BY <2>2, <1>2, <1>4, Halved
      <3>. QED
        BY <3>1, <1>1, <1>2, <1>4
    <2>. QED
      BY <2>1, <2>2
  <1>8. Quotient(a, b) \in LongLong
    BY <1>1, <1>3, <1>4, <1>7 DEF LongLong
  <1>9. Remainder(a, b) \in LongLong
    <2>1. r <= IntMax
      BY <1>1, <1>2, <1>4
    <2>. QED
      BY <1>1, <1>4, <1>6, <2>1 DEF LongLong
  <1>10. Divides(a, b, Quotient(a, b), Remainder(a, b))
    <2>1. PICK u, v : u = Quotient(a, b) /\ v = Remainder(a, b)
      OBVIOUS
    <2>2. a = b * u + v
      <3>1. u \in Int /\ v = a - b * u
        BY <1>1, <1>8, <2>1 DEF Remainder, LongLong
      <3>. QED
        BY <1>2, <3>1
    <2>3. v * v = r * r /\ b * b = y * y
      BY <1>2, <1>4, <1>6, <2>1
    <2>4. r * r < y * y
      BY <1>2, <1>4, Squares
    <2>5. v * a = r * x /\ r * x >= 0
      BY <1>2, <1>4, <1>6, <2>1
    <2>. QED
      BY <2>1, <2>2, <2>3, <2>4, <2>5 DEF Divides
  <1>. QED
    BY <1>8, <1>9, <1>10

(* What a binary primitive computes (opAdd to opAnd) is a long long.       *)
LEMMA ApplyInRange ==
  ASSUME NEW p \in IntBinary, NEW a \in LongLong, NEW b \in LongLong,
         ~DivTraps(p, a, b)
  PROVE  Apply(p, a, b) \in LongLong
  <1>1. a \in Int /\ b \in Int
    BY MachineAssumption DEF LongLong, IntMin
  <1>2. Wrap(a + b) \in LongLong /\ Wrap(a - b) \in LongLong /\ Wrap(a * b) \in LongLong
    BY <1>1, WrapInRange
  <1>3. 0 \in LongLong /\ 1 \in LongLong
    BY MachineAssumption DEF LongLong, IntMin
  <1>4. p \in {"pDiv", "pRemainder"} =>
          Quotient(a, b) \in LongLong /\ Remainder(a, b) \in LongLong
    BY QuotientInRange DEF DivTraps
  <1>5. /\ Flag(a = b) \in LongLong /\ Flag(a > b) \in LongLong
        /\ Flag(a >= b) \in LongLong /\ Flag(a < b) \in LongLong
        /\ Flag(a <= b) \in LongLong /\ Flag(a # 0 \/ b # 0) \in LongLong
        /\ Flag(a # 0 /\ b # 0) \in LongLong
    BY <1>3 DEF Flag
  <1>. QED
    BY <1>2, <1>4, <1>5 DEF Apply, IntBinary

-----------------------------------------------------------------------------
(* Facts about the text of a program.                                      *)

(* What the layout says about every line of the program being run.         *)
LEMMA LineFacts ==
  ASSUME Inv
  PROVE  /\ Len(code) \in Nat \ {0}
         /\ code[1].parent = 0
         /\ \A f \in 2 .. Len(code) : code[f].parent \in 1 .. (f - 1)
         /\ \A f \in Functions :
              /\ code[f].size \in Nat
              /\ Len(code[f].body) \in Nat \ {0}
              /\ code[f].body[1].op = IF f = 1 THEN "env" ELSE "enter"
              /\ \A i \in 1 .. Len(code[f].body) :
                   code[f].depth[i] \in Nat /\ code[f].owner[i] \in 0 .. Len(code)
         /\ Line.op \in PopOps => code[fn].depth[pc] >= 1
         /\ OperandsOK(code, fn, pc)
         /\ \A j \in Successors(Body, pc) : StepOK(code, fn, pc, j)
  BY LayoutAssumption DEF Inv, TypeOK, WellFormed, Functions, Line, Body

(* Past its first line a function is inside its frame and environment.     *)
LEMMA PastHead ==
  ASSUME Inv, Line.op \notin {"env", "enter"}
  PROVE  /\ pc > 1
         /\ env \in Environments /\ envs[env].fn = fn
  <1>1. fn \in Functions /\ pc \in 1 .. Len(code[fn].body)
    BY DEF Inv, TypeOK
  <1>2. Len(code[fn].body) \in Nat
    BY <1>1, LineFacts
  <1>3. pc # 1
    BY <1>1, LineFacts DEF Line, Body
  <1>4. pc > 1
    BY <1>1, <1>2, <1>3
  <1>. QED
    BY <1>4 DEF Inv, OwnEnvironment

(* Every active call kept its operands within the stack.                   *)
LEMMA StackFacts ==
  ASSUME Inv
  PROVE  /\ StackSize \in Nat \ {0}
         /\ Len(calls) \in Nat
         /\ \A k \in 1 .. Len(calls) :
              /\ calls[k].fp \in Nat /\ calls[k].sp \in Nat /\ calls[k].pc \in Nat
              /\ calls[k].sp <= calls[k].fp /\ calls[k].fp <= StackSize
         /\ fn # 1 => Len(calls) # 0
         /\ fn = 1 => Len(calls) = 0
  <1>1. Len(calls) \in Nat /\ \A k \in 1 .. Len(calls) : calls[k] \in CallRecord
    BY DEF Inv, TypeOK
  <1>2. \A k \in 1 .. Len(calls) : calls[k].fp \in Nat /\ calls[k].sp \in Nat /\ calls[k].pc \in Nat
    BY <1>1 DEF CallRecord
  <1>3. \A k \in 1 .. Len(calls) : calls[k].sp <= calls[k].fp
    BY DEF Inv, FrameChain
  <1>4. StackSize \in Nat \ {0}
    BY MachineAssumption
  <1>5. ASSUME NEW k \in 1 .. Len(calls) PROVE calls[k].fp <= StackSize
    <2>1. calls[1].fp = StackSize
      BY <1>1, <1>5 DEF Inv, FrameChain
    <2>2. CASE k = 1
      BY <2>1, <2>2, <1>4
    <2>3. CASE k # 1
      <3>1. 1 \in 1 .. (k - 1) /\ 1 \in 1 .. Len(calls)
        BY <2>3, <1>1, <1>5
      <3>2. calls[k].fp < calls[1].sp
        BY <3>1 DEF Inv, FrameChain
      <3>3. calls[1].sp <= StackSize
        BY <2>1, <1>3, <3>1
      <3>. QED
        BY <3>1, <3>2, <3>3, <1>2, <1>4
    <2>. QED
      BY <2>2, <2>3
  <1>6. calls = <<>> <=> Len(calls) = 0
    BY DEF Inv, TypeOK
  <1>. QED
    BY <1>1, <1>2, <1>3, <1>4, <1>5, <1>6 DEF Inv, FrameChain

(* The words a line pops, the frame it leaves and the bindings it reaches  *)
(* are there.                                                              *)
LEMMA LineSafe ==
  ASSUME Inv, status = "run"
  PROVE  /\ Line.op = "return" =>
              /\ fn # 1 /\ fp + 1 < StackSize
              /\ stack[fp] = FpWord(Caller.fp) /\ stack[fp + 1] = EnvWord(Caller.env)
         /\ Line.op \in PopOps => sp < StackSize
         /\ Line.op \in {"prim", "bind", "def", "outer", "get", "set"} =>
              /\ Pointed \in Environments
              /\ Line.op \in {"prim", "bind", "def"} => Pointed = env
              /\ Line.op \in {"outer", "get", "set"} =>
                   r0.t = "env" /\ Pointed = r0.e /\ envs[r0.e].fn = code[fn].owner[pc]
              /\ Line.op # "outer" =>
                   Line.n \in Nat /\ Line.n < Len(envs[Pointed].bindings)
         /\ Line.op \in {"arg", "bind"} => Line.n \in 0 .. (MaxArgs - 1)
  <1>0. /\ fn \in Functions /\ pc \in 1 .. Len(code[fn].body)
        /\ Len(code[fn].body) \in Nat
        /\ sp \in 0 .. StackSize /\ fp \in 0 .. StackSize /\ StackSize \in Nat
        /\ code[fn].depth[pc] \in Nat
    BY LineFacts, StackFacts DEF Inv, TypeOK
  <1>1. ASSUME Line.op = "return"
        PROVE  /\ fn # 1 /\ fp + 1 < StackSize
               /\ stack[fp] = FpWord(Caller.fp) /\ stack[fp + 1] = EnvWord(Caller.env)
    <2>1. fn # 1
      BY <1>1, LineFacts DEF OperandsOK, Line, Body
    <2>2. pc > 1
      BY <1>1, PastHead
    <2>3. fp = Caller.sp - 2 /\ SavedAt(fp, Caller)
      BY <2>1, <2>2 DEF Inv, FrameChain
    <2>4. Len(calls) \in 1 .. Len(calls)
      BY <2>1, StackFacts
    <2>. QED
      BY <2>1, <2>3, <2>4, StackFacts, <1>0 DEF Caller, SavedAt
  <1>2. ASSUME Line.op \in PopOps PROVE sp < StackSize
    <2>1. pc > 1
      BY <1>2, PastHead DEF PopOps
    <2>2. sp <= fp /\ code[fn].depth[pc] <= fp - sp
      BY <2>1, <1>0 DEF Inv, DepthKept
    <2>3. code[fn].depth[pc] >= 1
      BY <1>2, LineFacts
    <2>. QED
      BY <2>2, <2>3, <1>0
  <1>3. ASSUME Line.op \in {"prim", "bind", "def", "outer", "get", "set"}
        PROVE  /\ Pointed \in Environments
               /\ Line.op \in {"prim", "bind", "def"} => Pointed = env
               /\ Line.op \in {"outer", "get", "set"} =>
                    r0.t = "env" /\ Pointed = r0.e /\ envs[r0.e].fn = code[fn].owner[pc]
               /\ Line.op # "outer" =>
                    Line.n \in Nat /\ Line.n < Len(envs[Pointed].bindings)
    <2>1. env \in Environments /\ envs[env].fn = fn
      BY <1>3, PastHead
    <2>2. CASE Line.op \in {"prim", "bind", "def"}
      <3>1. Pointed = env
        BY <2>2 DEF Pointed
      <3>2. Line.n \in 0 .. (code[fn].size - 1)
        BY <2>2, LineFacts DEF OperandsOK, Line, Body
      <3>3. Len(envs[env].bindings) = code[fn].size /\ code[fn].size \in Nat
        BY <2>1, <1>0, LineFacts DEF Inv, LexicalScope
      <3>. QED
        BY <2>1, <2>2, <3>1, <3>2, <3>3
    <2>3. CASE Line.op \in {"outer", "get", "set"}
      <3>1. code[fn].owner[pc] # 0 /\ code[fn].owner[pc] \in Functions
        <4>1. OperandsOK(code, fn, pc)
          BY LineFacts
        <4>2. code[fn].owner[pc] # 0
          <5>1. CASE Line.op = "outer"
            BY ONLY <4>1, <5>1 DEF OperandsOK, Line, Body
          <5>2. CASE Line.op \in {"get", "set"}
            BY ONLY <4>1, <5>2 DEF OperandsOK, Line, Body
          <5>. QED
            BY <2>3, <5>1, <5>2
        <4>3. code[fn].owner[pc] \in 0 .. Len(code)
          BY <1>0, LineFacts
        <4>4. Len(code) \in Nat
          BY LineFacts
        <4>. QED
          BY ONLY <4>2, <4>3, <4>4 DEF Functions
      <3>2. r0.t = "env" /\ r0.e \in Environments /\ envs[r0.e].fn = code[fn].owner[pc]
        BY <3>1 DEF Inv, ScanOnPath
      <3>3. Pointed = r0.e
        BY <2>3, <3>2 DEF Pointed
      <3>4. Line.op # "outer" => Line.n \in 0 .. (code[code[fn].owner[pc]].size - 1)
        BY <2>3, LineFacts DEF OperandsOK, Line, Body
      <3>5. /\ Len(envs[r0.e].bindings) = code[code[fn].owner[pc]].size
            /\ code[code[fn].owner[pc]].size \in Nat
        BY <3>1, <3>2, LineFacts DEF Inv, LexicalScope
      <3>. QED
        BY <2>3, <3>2, <3>3, <3>4, <3>5
    <2>. QED
      BY <1>3, <2>2, <2>3
  <1>4. ASSUME Line.op \in {"arg", "bind"} PROVE Line.n \in 0 .. (MaxArgs - 1)
    <2>1. OperandsOK(code, fn, pc)
      BY LineFacts
    <2>2. CASE Line.op = "arg"
      BY ONLY <2>1, <2>2 DEF OperandsOK, Line, Body
    <2>3. CASE Line.op = "bind"
      <3>1. Line.n \in 0 .. (code[fn].size - 1) /\ Line.n < MaxArgs
        BY ONLY <2>1, <2>3 DEF OperandsOK, Line, Body
      <3>2. code[fn].size \in Nat /\ MaxArgs \in Nat
        BY <1>0, LineFacts, MachineAssumption
      <3>. QED
        BY ONLY <3>1, <3>2
    <2>. QED
      BY <1>4, <2>2, <2>3
  <1>. QED
    BY <1>1, <1>2, <1>3, <1>4

(* No line of a program with a layout can go wrong but by filling the      *)
(* stack or by meeting a word of the wrong kind.                           *)
LEMMA FewFaults ==
  ASSUME Inv, status = "run"
  PROVE  Faults \subseteq {"overflow", "word"}
  <1>1. ~Underflows
    <2>1. sp \in Nat /\ fp \in Nat /\ StackSize \in Nat
      BY StackFacts DEF Inv, TypeOK
    <2>. QED
      BY <2>1, LineSafe DEF Underflows
  <1>2. ~BadFrame
    BY LineSafe DEF BadFrame, FpWord, EnvWord
  <1>3. ~NoEnvironment
    BY LineSafe DEF NoEnvironment, Environments
  <1>4. ~BadBinding
    <2>1. SUFFICES ASSUME Line.op \in {"prim", "bind", "def", "get", "set"}
                   PROVE  ~(Line.n >= Len(envs[Pointed].bindings))
      BY DEF BadBinding
    <2>2. Pointed \in Environments /\ Line.n \in Nat /\ Line.n < Len(envs[Pointed].bindings)
      BY <2>1, LineSafe
    <2>3. Len(envs[Pointed].bindings) \in Nat
      <3>1. envs[Pointed] \in EnvironmentRecord
        BY <2>2 DEF Inv, TypeOK, Environments
      <3>. QED
        BY <3>1 DEF EnvironmentRecord
    <2>. QED
      BY <2>2, <2>3
  <1>5. ~BadArgument
    BY LineSafe, MachineAssumption DEF BadArgument
  <1>. QED
    BY <1>1, <1>2, <1>3, <1>4, <1>5 DEF Faults

(* A line that runs finds room on the stack and words of the right kind.   *)
LEMMA NoFault ==
  ASSUME Inv, status = "run", Faults = {}
  PROVE  /\ Line.op \in PushOps => sp >= 1
         /\ Line.op = "enter" => sp >= 2
         /\ Line.op = "call" => IsProcedure(Top) /\ (Top.t = "prim" => Readable(Top.p, args))
         /\ Line.op \in {"if", "exit"} => IsObject(Top)
  <1>1. sp \in Nat /\ StackSize \in Nat
    BY StackFacts DEF Inv, TypeOK
  <1>2. ~Overflows /\ ~BadWord
    BY DEF Faults
  <1>3. Line.op \in {"call", "if", "exit"} => sp < StackSize
    BY LineSafe DEF PopOps
  <1>. QED
    BY <1>1, <1>2, <1>3 DEF Overflows, BadWord, Top

-----------------------------------------------------------------------------
(* What a step does to the environments.                                   *)

(* The environments es2 continue es: every environment of es is there and  *)
(* still belongs to its function.                                          *)
Continues(es, es2) ==
  /\ Len(es) \in Nat /\ Len(es2) \in Nat /\ Len(es) <= Len(es2)
  /\ \A e \in 1 .. Len(es) : es2[e].fn = es[e].fn

(* A closure stays closed while environments are only added or filled.     *)
LEMMA ClosedKept ==
  ASSUME NEW c, NEW es, NEW es2, NEW w, Continues(es, es2), ClosedIn(c, es, w)
  PROVE  ClosedIn(c, es2, w)
  BY DEF Continues, ClosedIn

(* A store changes one binding of one environment and nothing else.        *)
LEMMA StoreEffect ==
  ASSUME NEW es \in Seq(EnvironmentRecord), NEW e \in 1 .. Len(es), NEW n \in Nat,
         n < Len(es[e].bindings), NEW w \in Word
  PROVE  LET es2 == Stored(es, e, n, w) IN
         /\ es2 \in Seq(EnvironmentRecord)
         /\ Len(es2) = Len(es)
         /\ \A d \in 1 .. Len(es) :
              /\ es2[d].fn = es[d].fn
              /\ es2[d].enclosing = es[d].enclosing
              /\ Len(es2[d].bindings) = Len(es[d].bindings)
              /\ \A i \in 1 .. Len(es[d].bindings) :
                   es2[d].bindings[i] = IF d = e /\ i = n + 1 THEN w
                                        ELSE es[d].bindings[i]
  <1> DEFINE es2 == Stored(es, e, n, w)
             b  == es[e].bindings
             b2 == [b EXCEPT ![n + 1] = w]
             r2 == [es[e] EXCEPT !.bindings = b2]
  <1>0. es[e] \in EnvironmentRecord
    OBVIOUS
  <1>1. b \in Seq(Word) /\ Len(b) \in Nat
    BY <1>0 DEF EnvironmentRecord
  <1>2. n + 1 \in 1 .. Len(b)
    BY <1>1
  <1>3. /\ b2 \in Seq(Word) /\ Len(b2) = Len(b)
        /\ \A i \in 1 .. Len(b) : b2[i] = IF i = n + 1 THEN w ELSE b[i]
    BY <1>1, <1>2
  <1>4. /\ r2 \in EnvironmentRecord
        /\ r2.fn = es[e].fn /\ r2.enclosing = es[e].enclosing /\ r2.bindings = b2
    BY <1>0, <1>3 DEF EnvironmentRecord
  <1>5. es2 = [es EXCEPT ![e] = r2]
    BY DEF Stored
  <1>6. /\ es2 \in Seq(EnvironmentRecord) /\ Len(es2) = Len(es)
        /\ \A d \in 1 .. Len(es) : es2[d] = IF d = e THEN r2 ELSE es[d]
    BY <1>4, <1>5
  <1>. QED
    BY ZenonT(30), <1>3, <1>4, <1>6

(* What Inv says of the environments, and what is left of it when a step   *)
(* keeps them, stores a closed word in one, or allocates one more.         *)
ScopesKept ==
  /\ envs' \in Seq(EnvironmentRecord)
  /\ Continues(envs, envs')
  /\ LexicalScope'
  /\ \A e \in 1 .. Len(envs') :
       \A i \in 1 .. Len(envs'[e].bindings) :
         ClosedIn(code', envs', envs'[e].bindings[i])

(* What a binding holds is a word, and closed if it is a closure.          *)
LEMMA ClosedBinding ==
  ASSUME Inv, NEW e \in Environments, NEW i \in 1 .. Len(envs[e].bindings)
  PROVE  envs[e].bindings[i] \in Word /\ ClosedIn(code, envs, envs[e].bindings[i])
  <1>1. envs[e] \in EnvironmentRecord
    BY DEF Inv, TypeOK, Environments
  <1>2. envs[e].bindings[i] \in Word
    BY <1>1 DEF EnvironmentRecord
  <1>. QED
    BY <1>2 DEF Inv, ClosuresKeepScope, Closed

(* A line that leaves the environments alone keeps the scopes.             *)
LEMMA ScopesUnchanged ==
  ASSUME Inv, envs' = envs, code' = code
  PROVE  ScopesKept
  <1>1. envs \in Seq(EnvironmentRecord) /\ Len(envs) \in Nat
    BY DEF Inv, TypeOK
  <1>2. LexicalScope'
    BY DEF Inv, LexicalScope, Environments, Functions
  <1>. QED
    BY <1>1, <1>2, ClosedBinding DEF ScopesKept, Continues, Environments

(* A store of a closed word into a binding keeps the scopes.               *)
LEMMA ScopesStored ==
  ASSUME Inv, code' = code, NEW e \in Environments, NEW n \in Nat, NEW w \in Word,
         n < Len(envs[e].bindings), ClosedIn(code, envs, w), Store(e, n, w)
  PROVE  ScopesKept
  <1>1. /\ envs' \in Seq(EnvironmentRecord)
        /\ Len(envs') = Len(envs)
        /\ \A d \in 1 .. Len(envs) :
             /\ envs'[d].fn = envs[d].fn
             /\ envs'[d].enclosing = envs[d].enclosing
             /\ Len(envs'[d].bindings) = Len(envs[d].bindings)
             /\ \A i \in 1 .. Len(envs[d].bindings) :
                  envs'[d].bindings[i] = IF d = e /\ i = n + 1 THEN w
                                         ELSE envs[d].bindings[i]
    <2>1. /\ envs \in Seq(EnvironmentRecord) /\ e \in 1 .. Len(envs)
          /\ envs' = Stored(envs, e, n, w)
      BY DEF Store, Inv, TypeOK, Environments
    <2>2. n < Len(envs[e].bindings) /\ n \in Nat /\ w \in Word
      OBVIOUS
    <2>. QED
      BY <2>1, <2>2, StoreEffect
  <1>2. Continues(envs, envs')
    BY <1>1 DEF Continues, Inv, TypeOK
  <1>3. LexicalScope'
    <2>1. SUFFICES ASSUME NEW d \in 1 .. Len(envs)
                   PROVE  /\ envs'[d].fn \in Functions
                          /\ Len(envs'[d].bindings) = code[envs'[d].fn].size
                          /\ IF envs'[d].fn = 1
                             THEN envs'[d].enclosing = 0
                             ELSE /\ envs'[d].enclosing \in 1 .. (d - 1)
                                  /\ envs'[envs'[d].enclosing].fn = code[envs'[d].fn].parent
      BY <1>1 DEF LexicalScope, Environments, Functions
    <2>2. 1 .. (d - 1) \subseteq 1 .. Len(envs)
      BY DEF Inv, TypeOK
    <2>3. /\ envs[d].fn \in Functions
          /\ Len(envs[d].bindings) = code[envs[d].fn].size
          /\ IF envs[d].fn = 1
             THEN envs[d].enclosing = 0
             ELSE /\ envs[d].enclosing \in 1 .. (d - 1)
                  /\ envs[envs[d].enclosing].fn = code[envs[d].fn].parent
      BY DEF Inv, LexicalScope, Environments
    <2>. QED
      BY <1>1, <2>2, <2>3
  <1>4. ASSUME NEW d \in 1 .. Len(envs'), NEW i \in 1 .. Len(envs'[d].bindings)
        PROVE  ClosedIn(code', envs', envs'[d].bindings[i])
    <2>1. ClosedIn(code, envs, envs'[d].bindings[i])
      BY <1>1, <1>4, ClosedBinding DEF Environments
    <2>. QED
      BY <2>1, <1>2, ClosedKept
  <1>. QED
    BY <1>1, <1>2, <1>3, <1>4 DEF ScopesKept

(* genEnvironment adds an environment inside the one benv points to.       *)
LEMMA ScopesExtended ==
  ASSUME Inv, code' = code, NewEnvironment, pc = 1
  PROVE  /\ ScopesKept
         /\ env' \in 1 .. Len(envs') /\ envs'[env'].fn = fn /\ env' \in Nat
  <1> DEFINE r == [fn |-> fn, enclosing |-> benv,
                   bindings |-> [i \in 1 .. code[fn].size |-> Unset]]
  <1>1. /\ envs \in Seq(EnvironmentRecord) /\ Len(envs) \in Nat
        /\ fn \in Functions /\ fn \in Nat /\ benv \in Nat /\ code[fn].size \in Nat
    BY LineFacts DEF Inv, TypeOK, Functions
  <1>2. Unset \in Word
    BY DEF Word
  <1>3. /\ r.bindings \in Seq(Word) /\ Len(r.bindings) = code[fn].size
        /\ \A i \in 1 .. code[fn].size : r.bindings[i] = Unset
    BY <1>1, <1>2
  <1>4. r \in EnvironmentRecord
    BY <1>1, <1>3 DEF EnvironmentRecord
  <1>5. envs' = Append(envs, r) /\ env' = Len(envs) + 1
    BY DEF NewEnvironment, Enclosing
  <1>6. /\ envs' \in Seq(EnvironmentRecord) /\ Len(envs') = Len(envs) + 1
        /\ \A e \in 1 .. Len(envs) : envs'[e] = envs[e]
        /\ envs'[Len(envs) + 1] = r
    BY <1>1, <1>4, <1>5
  <1>7. Continues(envs, envs')
    BY <1>1, <1>6 DEF Continues
  <1>8. IF fn = 1 THEN benv = 0
        ELSE benv \in 1 .. Len(envs) /\ envs[benv].fn = code[fn].parent
    BY DEF Inv, OwnEnvironment, Environments
  <1>9. LexicalScope'
    <2>1. SUFFICES ASSUME NEW e \in 1 .. Len(envs')
                   PROVE  /\ envs'[e].fn \in Functions
                          /\ Len(envs'[e].bindings) = code[envs'[e].fn].size
                          /\ IF envs'[e].fn = 1
                             THEN envs'[e].enclosing = 0
                             ELSE /\ envs'[e].enclosing \in 1 .. (e - 1)
                                  /\ envs'[envs'[e].enclosing].fn = code[envs'[e].fn].parent
      BY DEF LexicalScope, Environments, Functions
    <2>2. CASE e = Len(envs) + 1
      BY <2>2, <1>1, <1>3, <1>6, <1>8
    <2>3. CASE e # Len(envs) + 1
      <3>1. e \in 1 .. Len(envs) /\ envs'[e] = envs[e]
        BY <2>3, <1>1, <1>6
      <3>2. \A d \in 1 .. (e - 1) : envs'[d] = envs[d]
        BY <3>1, <1>1, <1>6
      <3>. QED
        BY <3>1, <3>2 DEF Inv, LexicalScope, Environments
    <2>. QED
      BY <2>2, <2>3
  <1>10. ASSUME NEW e \in 1 .. Len(envs'), NEW i \in 1 .. Len(envs'[e].bindings)
         PROVE  ClosedIn(code', envs', envs'[e].bindings[i])
    <2>1. CASE e = Len(envs) + 1
      <3>1. envs'[e].bindings[i] = Unset
        BY <2>1, <1>3, <1>6
      <3>. QED
        BY <3>1 DEF ClosedIn, Unset
    <2>2. CASE e # Len(envs) + 1
      <3>1. e \in Environments /\ envs'[e] = envs[e]
        BY <2>2, <1>1, <1>6 DEF Environments
      <3>2. ClosedIn(code, envs, envs'[e].bindings[i])
        BY <3>1, ClosedBinding
      <3>. QED
        BY <3>2, <1>7, ClosedKept
    <2>. QED
      BY <2>1, <2>2
  <1>. QED
    <2>1. env' \in 1 .. Len(envs') /\ env' \in Nat /\ envs'[env'] = r
      BY <1>1, <1>5, <1>6
    <2>2. ScopesKept
      BY <1>6, <1>7, <1>9, <1>10 DEF ScopesKept
    <2>. QED
      BY <2>1, <2>2

-----------------------------------------------------------------------------
(* What a step within a function does to the frames.                       *)

(* The current frame lies below the operands of every active call, so what *)
(* is written below fp leaves the saved registers alone.                   *)
LEMMA FramesAbove ==
  ASSUME Inv, pc > 1 \/ fn = 1
  PROVE  /\ \A k \in 1 .. Len(calls) : fp < calls[k].sp
         /\ \A k \in 2 .. Len(calls) :
              /\ calls[k].fp \in fp .. (StackSize - 1)
              /\ calls[k].fp + 1 \in fp .. (StackSize - 1)
         /\ fn # 1 => fp \in 0 .. (StackSize - 1) /\ fp + 1 \in 0 .. (StackSize - 1)
  <1>1. fp \in 0 .. StackSize /\ fp \in Nat
    BY StackFacts DEF Inv, TypeOK
  <1>2. \A k \in 1 .. Len(calls) : fp < calls[k].sp
    BY StackFacts DEF Inv, FrameChain
  <1>3. ASSUME NEW k \in 2 .. Len(calls)
        PROVE  /\ calls[k].fp \in fp .. (StackSize - 1)
               /\ calls[k].fp + 1 \in fp .. (StackSize - 1)
    <2>1. k \in 1 .. Len(calls) /\ k - 1 \in 1 .. Len(calls) /\ k # 1
      BY <1>3, StackFacts
    <2>2. calls[k].fp = calls[k - 1].sp - 2
      BY <2>1 DEF Inv, FrameChain
    <2>3. fp < calls[k].sp
      BY <1>2, <2>1
    <2>4. /\ calls[k].fp \in Nat /\ calls[k].sp \in Nat /\ calls[k].sp <= calls[k].fp
          /\ calls[k - 1].sp \in Nat /\ calls[k - 1].fp \in Nat
          /\ calls[k - 1].sp <= calls[k - 1].fp /\ calls[k - 1].fp <= StackSize
          /\ StackSize \in Nat
      BY <2>1, StackFacts
    <2>5. fp <= calls[k].fp
      BY <1>1, <2>3, <2>4
    <2>6. calls[k].fp + 1 <= StackSize - 1
      BY <2>2, <2>4
    <2>. QED
      BY <1>1, <2>4, <2>5, <2>6
  <1>4. ASSUME fn # 1
        PROVE  fp \in 0 .. (StackSize - 1) /\ fp + 1 \in 0 .. (StackSize - 1)
    <2>1. fp = Caller.sp - 2 /\ Len(calls) \in 1 .. Len(calls)
      BY <1>4, StackFacts DEF Inv, FrameChain
    <2>2. /\ Caller.sp \in Nat /\ Caller.fp \in Nat
          /\ Caller.sp <= Caller.fp /\ Caller.fp <= StackSize
      BY <2>1, StackFacts DEF Caller
    <2>. QED
      BY <1>1, <2>1, <2>2, StackFacts
  <1>. QED
    BY <1>2, <1>3, <1>4

(* What a step within a function has to respect.                           *)
LocalStep ==
  /\ code' = code /\ fn' = fn /\ calls' = calls /\ fp' = fp
  /\ pc' \in Successors(Body, pc)
  /\ sp' = sp - Change(Line.op)
  /\ \A i \in fp .. (StackSize - 1) : stack'[i] = stack[i]
  /\ Continues(envs, envs')
  /\ env' \in 1 .. Len(envs') /\ envs'[env'].fn = fn

(* A line that stays in its function keeps frames and promised depths.     *)
LEMMA LocalFrames ==
  ASSUME Inv, status = "run", pc > 1 \/ fn = 1, LocalStep
  PROVE  /\ pc' \in 1 .. Len(code'[fn'].body)
         /\ OwnEnvironment' /\ FrameChain' /\ DepthKept'
  <1>1. StepOK(code, fn, pc, pc')
    BY LineFacts DEF LocalStep
  <1>2. /\ pc' \in 2 .. Len(code[fn].body)
        /\ code[fn].depth[pc'] <= code[fn].depth[pc] + Change(Line.op)
    BY <1>1 DEF StepOK, Line, Body
  <1>3. fn \in Functions /\ Len(code[fn].body) \in Nat
    BY LineFacts DEF Inv, TypeOK
  <1>4. pc' > 1 /\ pc' \in 1 .. Len(code[fn].body)
    BY <1>2, <1>3
  <1>5. OwnEnvironment'
    BY <1>4 DEF OwnEnvironment, LocalStep, Environments
  <1>6. FrameChain'
    <2>1. \A k \in 1 .. Len(calls) :
            /\ calls[k].sp <= calls[k].fp
            /\ calls[k].fn \in Functions
            /\ calls[k].env \in 1 .. Len(envs')
            /\ envs'[calls[k].env].fn = calls[k].fn
            /\ \A j \in 1 .. (k - 1) : calls[k].fp < calls[j].sp
      <3>1. ASSUME NEW k \in 1 .. Len(calls)
            PROVE  calls[k].env \in 1 .. Len(envs) /\ envs[calls[k].env].fn = calls[k].fn
        BY DEF Inv, FrameChain, Environments
      <3>2. ASSUME NEW e \in 1 .. Len(envs)
            PROVE  e \in 1 .. Len(envs') /\ envs'[e].fn = envs[e].fn
        BY DEF LocalStep, Continues
      <3>. QED
        BY <3>1, <3>2 DEF Inv, FrameChain
    <2>2. ASSUME NEW k \in 1 .. Len(calls)
          PROVE  IF k = 1 THEN calls[k].fn = 1 /\ calls[k].fp = StackSize
                 ELSE /\ calls[k].fn # 1
                      /\ calls[k].fp = calls[k - 1].sp - 2
                      /\ stack'[calls[k].fp] = FpWord(calls[k - 1].fp)
                      /\ stack'[calls[k].fp + 1] = EnvWord(calls[k - 1].env)
      <3>1. CASE k = 1
        BY <3>1 DEF Inv, FrameChain
      <3>2. CASE k # 1
        <4>1. k \in 2 .. Len(calls)
          BY <3>2, StackFacts
        <4>. QED
          BY <3>2, <4>1, FramesAbove DEF Inv, FrameChain, SavedAt, LocalStep
      <3>. QED
        BY <3>1, <3>2
    <2>3. fn # 1 => /\ fp = Caller.sp - 2
                    /\ stack'[fp] = FpWord(Caller.fp)
                    /\ stack'[fp + 1] = EnvWord(Caller.env)
                    /\ \A j \in 1 .. Len(calls) : fp < calls[j].sp
      <3>1. SUFFICES ASSUME fn # 1
                     PROVE  /\ fp = Caller.sp - 2
                            /\ stack'[fp] = FpWord(Caller.fp)
                            /\ stack'[fp + 1] = EnvWord(Caller.env)
                            /\ \A j \in 1 .. Len(calls) : fp < calls[j].sp
        OBVIOUS
      <3>2. fp \in fp .. (StackSize - 1) /\ fp + 1 \in fp .. (StackSize - 1)
        BY <3>1, FramesAbove, StackFacts
      <3>. QED
        BY <3>1, <3>2 DEF Inv, FrameChain, SavedAt, LocalStep
    <2>4. (calls = <<>> <=> fn = 1) /\ (fn = 1 => fp = StackSize)
      BY DEF Inv, FrameChain
    <2>. QED
      BY <2>1, <2>2, <2>3, <2>4
      DEF FrameChain, LocalStep, Environments, Functions, SavedAt, Caller
  <1>7. DepthKept'
    <2>1. sp' <= fp /\ code[fn].depth[pc'] <= fp - sp'
      <3>1. sp <= fp /\ code[fn].depth[pc] <= fp - sp
        <4>1. ~(pc = 1 /\ fn # 1)
          BY <1>3 DEF Inv, TypeOK
        <4>. QED
          BY <4>1 DEF Inv, DepthKept
      <3>2. sp \in Nat /\ fp \in Nat /\ Change(Line.op) \in Int
        BY StackFacts DEF Inv, TypeOK, Change
      <3>3. code[fn].depth[pc'] \in Nat /\ code[fn].depth[pc] \in Nat
        BY <1>3, <1>4, LineFacts DEF Inv, TypeOK
      <3>4. sp' = sp - Change(Line.op)
        BY DEF LocalStep
      <3>5. code[fn].depth[pc'] <= fp - sp'
        <4>1. fp - sp' = (fp - sp) + Change(Line.op)
          BY <3>2, <3>4
        <4>2. code[fn].depth[pc] + Change(Line.op) <= (fp - sp) + Change(Line.op)
          BY <3>1, <3>2, <3>3
        <4>3. /\ code[fn].depth[pc] + Change(Line.op) \in Int
              /\ (fp - sp) + Change(Line.op) \in Int
          BY <3>2, <3>3
        <4>. QED
          BY <3>3, <4>1, <4>2, <4>3, <1>2
      <3>6. sp' \in Int
        BY <3>2, <3>4
      <3>. QED
        BY <3>2, <3>3, <3>5, <3>6
    <2>2. \A k \in 1 .. Len(calls) :
            /\ calls[k].pc \in 2 .. Len(code[calls[k].fn].body)
            /\ code[calls[k].fn].depth[calls[k].pc] <= calls[k].fp - calls[k].sp
            /\ code[calls[k].fn].owner[calls[k].pc] = 0
      BY DEF Inv, DepthKept
    <2>. QED
      BY <2>1, <2>2, <1>4 DEF DepthKept, LocalStep
  <1>. QED
    BY <1>4, <1>5, <1>6, <1>7 DEF LocalStep

-----------------------------------------------------------------------------
(* What a step does to the words.                                          *)

GoodIn(c, es, w) == w \in Word /\ ClosedIn(c, es, w)

(* Every register and slot holds a word, closed if it is a closure.        *)
LEMMA WordsAreGood ==
  ASSUME Inv
  PROVE  /\ GoodIn(code, envs, ret) /\ GoodIn(code, envs, r0)
         /\ \A i \in 0 .. (StackSize - 1) : GoodIn(code, envs, stack[i])
         /\ \A i \in 0 .. (MaxArgs - 1) : GoodIn(code, envs, args[i])
  BY DEF Inv, TypeOK, ClosuresKeepScope, Closed, GoodIn

(* A good word stays good while environments are only added or filled.     *)
LEMMA GoodKept ==
  ASSUME NEW c, NEW es, NEW es2, NEW w, Continues(es, es2), GoodIn(c, es, w)
  PROVE  GoodIn(c, es2, w)
  BY ClosedKept DEF GoodIn

(* All words but closures are good by themselves.                          *)
LEMMA ObjectsAreGood ==
  ASSUME NEW c, NEW es
  PROVE  /\ \A n \in LongLong : GoodIn(c, es, IntObj(n))
         /\ \A s \in Texts : GoodIn(c, es, StrObj(s))
         /\ \A p \in Primitives, e \in Nat : GoodIn(c, es, PrimObj(p, e))
         /\ \A e \in Nat : GoodIn(c, es, EnvWord(e))
         /\ \A q \in Nat : GoodIn(c, es, FpWord(q))
         /\ GoodIn(c, es, Null)
  BY DEF GoodIn, ClosedIn, Word, IntObj, StrObj, PrimObj, EnvWord, FpWord, Null

(* Past its head a function has sp at or below fp, within the stack.       *)
LEMMA InFrame ==
  ASSUME Inv, status = "run", pc > 1 \/ fn = 1
  PROVE  sp \in Nat /\ fp \in Nat /\ StackSize \in Nat /\ sp <= fp /\ fp <= StackSize
  <1>1. ~(pc = 1 /\ fn # 1)
    BY LineFacts DEF Inv, TypeOK
  <1>2. StackSize \in Nat \ {0}
    BY StackFacts
  <1>3. sp \in 0 .. StackSize /\ fp \in 0 .. StackSize
    BY DEF Inv, TypeOK
  <1>4. IF pc = 1 /\ fn # 1
        THEN sp = Caller.sp /\ fp = Caller.fp /\ env = Caller.env
        ELSE status # "exit" => sp <= fp /\ code[fn].depth[pc] <= fp - sp
    BY DEF Inv, DepthKept
  <1>5. sp <= fp
    BY <1>1, <1>4
  <1>. QED
    BY <1>2, <1>3, <1>5

(* The stack after a step within a function: what it was, but for words    *)
(* that the step pushed, and these are good.                               *)
StackKept ==
  /\ stack' \in [0 .. (StackSize - 1) -> Word]
  /\ sp' \in 0 .. StackSize
  /\ \A i \in fp .. (StackSize - 1) : stack'[i] = stack[i]
  /\ \A i \in 0 .. (StackSize - 1) : ClosedIn(code', envs', stack'[i])

(* push of a good word keeps the stack good and moves sp by one.           *)
LEMMA AfterPush ==
  ASSUME Inv, status = "run", pc > 1 \/ fn = 1, sp >= 1, NEW w,
         GoodIn(code, envs, w), Push(w), code' = code, Continues(envs, envs')
  PROVE  StackKept /\ sp' = sp - 1
  <1>1. sp \in Nat /\ fp \in Nat /\ StackSize \in Nat /\ sp <= fp /\ fp <= StackSize
    BY InFrame
  <1>2. stack \in [0 .. (StackSize - 1) -> Word] /\ w \in Word
    BY DEF Inv, TypeOK, GoodIn
  <1>3. /\ stack' \in [0 .. (StackSize - 1) -> Word]
        /\ \A i \in 0 .. (StackSize - 1) : stack'[i] = IF i = sp - 1 THEN w ELSE stack[i]
    BY <1>1, <1>2 DEF Push
  <1>4. ASSUME NEW i \in 0 .. (StackSize - 1)
        PROVE  ClosedIn(code', envs', stack'[i])
    <2>1. GoodIn(code, envs, stack'[i])
      BY <1>3, <1>4, WordsAreGood
    <2>. QED
      BY <2>1, GoodKept DEF GoodIn
  <1>5. \A i \in fp .. (StackSize - 1) : i \in 0 .. (StackSize - 1) /\ i # sp - 1
    BY <1>1
  <1>6. sp' = sp - 1 /\ sp' \in 0 .. StackSize
    BY <1>1 DEF Push
  <1>. QED
    BY <1>3, <1>4, <1>5, <1>6 DEF StackKept

(* pop keeps the stack good, moves sp by one, and finds a good word.       *)
LEMMA AfterDrop ==
  ASSUME Inv, sp < StackSize, Drop, code' = code, Continues(envs, envs')
  PROVE  StackKept /\ sp' = sp + 1 /\ GoodIn(code, envs, Top)
  <1>1. sp \in Nat /\ StackSize \in Nat /\ sp \in 0 .. (StackSize - 1)
    BY StackFacts DEF Inv, TypeOK
  <1>2. sp' = sp + 1 /\ sp' \in 0 .. StackSize /\ stack' = stack
    BY <1>1 DEF Drop
  <1>3. \A i \in 0 .. (StackSize - 1) : ClosedIn(code', envs', stack[i])
    BY WordsAreGood, ClosedKept DEF GoodIn
  <1>4. GoodIn(code, envs, Top)
    BY <1>1, WordsAreGood DEF Top
  <1>. QED
    BY <1>2, <1>3, <1>4 DEF StackKept, Inv, TypeOK

(* A line that leaves the stack alone keeps it good.                       *)
LEMMA AfterKeep ==
  ASSUME Inv, KeepStack, code' = code, Continues(envs, envs')
  PROVE  StackKept /\ sp' = sp
  <1>1. \A i \in 0 .. (StackSize - 1) : ClosedIn(code', envs', stack[i])
    BY WordsAreGood, ClosedKept DEF GoodIn
  <1>. QED
    BY <1>1 DEF StackKept, KeepStack, Inv, TypeOK

(* The other words after a step.                                           *)
RegistersKept ==
  /\ GoodIn(code', envs', ret') /\ GoodIn(code', envs', r0')
  /\ args' \in [0 .. (MaxArgs - 1) -> Word]
  /\ \A i \in 0 .. (MaxArgs - 1) : ClosedIn(code', envs', args'[i])
  /\ env' \in Nat /\ benv' \in Nat
  /\ printed' \in Seq(Texts) /\ status' \in Status

(* The invariant, put together from stack, scopes, registers and frames.   *)
LEMMA AssembleInv ==
  ASSUME Inv, code' = code, fn' \in Functions, pc' \in 1 .. Len(code'[fn'].body),
         calls' \in Seq(CallRecord), fp' \in 0 .. StackSize,
         StackKept, ScopesKept, RegistersKept,
         OwnEnvironment', ScanOnPath', FrameChain', DepthKept'
  PROVE  Inv'
  <1>1. TypeOK'
    BY DEF Inv, TypeOK, Functions, StackKept, ScopesKept, RegistersKept, GoodIn
  <1>2. ClosuresKeepScope'
    BY DEF ClosuresKeepScope, Closed, Environments, StackKept, ScopesKept,
           RegistersKept, GoodIn
  <1>3. LexicalScope'
    BY DEF ScopesKept
  <1>. QED
    BY <1>1, <1>2, <1>3 DEF Inv

(* The invariant after a line that stays in its function.                  *)
LEMMA LocalInv ==
  ASSUME Inv, status = "run", pc > 1 \/ fn = 1, LocalStep, StackKept, ScopesKept,
         RegistersKept, ScanOnPath'
  PROVE  Inv'
  <1>1. /\ pc' \in 1 .. Len(code'[fn'].body)
        /\ OwnEnvironment' /\ FrameChain' /\ DepthKept'
    BY LocalFrames
  <1>2. /\ code' = code /\ fn' \in Functions /\ calls' \in Seq(CallRecord)
        /\ fp' \in 0 .. StackSize
    BY DEF LocalStep, Inv, TypeOK
  <1>. QED
    BY <1>1, <1>2, AssembleInv

-----------------------------------------------------------------------------
(* The actions, one by one.                                                *)

(* Control goes to the next line unless the line says otherwise.           *)
LEMMA NextLine ==
  ASSUME Line.op \notin {"if", "close", "return", "exit", "else"}
  PROVE  pc + 1 \in Successors(Body, pc)
  BY DEF Successors, Line

(* A line that stays in its function and its environment and leaves r0     *)
(* unknown.                                                                *)
LEMMA OrdinaryStep ==
  ASSUME Inv, status = "run", pc > 1, Line.op \notin {"scan", "outer"},
         UNCHANGED <<code, fn, calls, fp, env>>, pc' \in Successors(Body, pc),
         sp' = sp - Change(Line.op), StackKept, ScopesKept, RegistersKept
  PROVE  Inv'
  <1>1. LocalStep
    <2>1. env \in 1 .. Len(envs) /\ envs[env].fn = fn
      BY DEF Inv, OwnEnvironment, Environments
    <2>2. Continues(envs, envs')
      BY DEF ScopesKept
    <2>3. env \in 1 .. Len(envs') /\ envs'[env].fn = fn
      BY <2>1, <2>2 DEF Continues
    <2>. QED
      BY <2>2, <2>3 DEF LocalStep, StackKept
  <1>2. ScanOnPath'
    <2>1. StepOK(code, fn, pc, pc')
      BY LineFacts
    <2>2. code[fn].owner[pc'] = 0
      BY <2>1 DEF StepOK, OwnerAfter, Line, Body
    <2>. QED
      BY <2>2 DEF ScanOnPath
  <1>. QED
    BY <1>1, <1>2, LocalInv

(* The parts of RegistersKept that a step leaves alone.                    *)
LEMMA RegistersUnchanged ==
  ASSUME Inv, code' = code, ScopesKept
  PROVE  /\ ret' = ret => GoodIn(code', envs', ret')
         /\ r0' = r0 => GoodIn(code', envs', r0')
         /\ args' = args =>
              /\ args' \in [0 .. (MaxArgs - 1) -> Word]
              /\ \A i \in 0 .. (MaxArgs - 1) : ClosedIn(code', envs', args'[i])
         /\ env' = env => env' \in Nat
         /\ benv' = benv => benv' \in Nat
         /\ printed' = printed => printed' \in Seq(Texts)
         /\ status' = status => status' \in Status
         /\ \A w : GoodIn(code, envs, w) => GoodIn(code', envs', w)
  <1>1. \A w : GoodIn(code, envs, w) => GoodIn(code', envs', w)
    BY GoodKept DEF ScopesKept
  <1>2. /\ args \in [0 .. (MaxArgs - 1) -> Word] /\ env \in Nat /\ benv \in Nat
        /\ printed \in Seq(Texts) /\ status \in Status
    BY DEF Inv, TypeOK
  <1>3. \A i \in 0 .. (MaxArgs - 1) : ClosedIn(code', envs', args[i])
    BY <1>1, WordsAreGood DEF GoodIn
  <1>. QED
    BY <1>1, <1>2, <1>3, WordsAreGood

(* genInteger, genString and genProcedure push a good word.                *)
LEMMA PushLiteralStep == ASSUME Inv, PushLiteral PROVE Inv'
  <1>1. /\ status = "run" /\ Faults = {} /\ Line.op \in {"int", "str", "proc"}
        /\ code' = code /\ envs' = envs
    BY DEF PushLiteral, At, Advance, Goto
  <1>2. pc > 1 /\ env \in Environments /\ envs[env].fn = fn
    BY <1>1, PastHead
  <1>3. sp >= 1
    BY <1>1, NoFault DEF PushOps
  <1>4. ScopesKept
    BY <1>1, ScopesUnchanged
  <1>5. GoodIn(code, envs, Literal)
    <2>1. CASE Line.op = "int"
      <3>1. Line.n \in LongLong
        BY <2>1, LineFacts DEF OperandsOK, Line, Body
      <3>. QED
        BY <2>1, <3>1, ObjectsAreGood DEF Literal
    <2>2. CASE Line.op = "str"
      <3>1. Line.s \in Texts
        BY <2>2, LineFacts DEF OperandsOK, Line, Body
      <3>. QED
        BY <2>2, <3>1, ObjectsAreGood DEF Literal
    <2>3. CASE Line.op = "proc"
      <3>1. Line.f \in 2 .. Len(code) /\ code[Line.f].parent = fn
        BY <2>3, LineFacts DEF OperandsOK, Line, Body
      <3>2. Line.f \in Nat /\ env \in Nat
        BY <3>1, LineFacts DEF Inv, TypeOK
      <3>3. Literal = ProcObj(Line.f, env)
        BY <2>3 DEF Literal, Base
      <3>. QED
        BY <1>2, <3>1, <3>2, <3>3 DEF GoodIn, ClosedIn, ProcObj, Word, Environments
    <2>. QED
      BY <1>1, <2>1, <2>2, <2>3
  <1>6. StackKept /\ sp' = sp - 1
    BY <1>1, <1>2, <1>3, <1>4, <1>5, AfterPush DEF PushLiteral, ScopesKept
  <1>7. RegistersKept
    BY <1>1, <1>4, <1>5, RegistersUnchanged DEF RegistersKept, PushLiteral, Advance, Goto
  <1>8. pc' \in Successors(Body, pc)
    BY <1>1, NextLine DEF PushLiteral, Advance, Goto
  <1>9. Change(Line.op) = 1
    BY <1>1 DEF Change, PushOps, PopOps
  <1>. QED
    BY <1>1, <1>2, <1>4, <1>6, <1>7, <1>8, <1>9, OrdinaryStep
    DEF PushLiteral, Advance, Goto

(* genBindPrimitiveProcedures fills a binding of main.                     *)
LEMMA BindPrimitiveStep == ASSUME Inv, BindPrimitive PROVE Inv'
  <1>1. /\ status = "run" /\ Line.op = "prim" /\ code' = code
        /\ pc' = pc + 1 /\ KeepStack
    BY DEF BindPrimitive, At, Advance, Goto
  <1>2. pc > 1 /\ env \in Environments /\ env \in Nat
    BY <1>1, PastHead DEF Inv, TypeOK
  <1>3. Line.n \in Nat /\ Line.n < Len(envs[env].bindings)
    BY <1>1, LineSafe
  <1>4. GoodIn(code, envs, PrimObj(Line.p, env))
    <2>1. Line.p \in Primitives
      BY <1>1, LineFacts DEF OperandsOK, Line, Body
    <2>. QED
      BY <2>1, <1>2, ObjectsAreGood
  <1>5. ScopesKept
    BY <1>1, <1>2, <1>3, <1>4, ScopesStored DEF BindPrimitive, GoodIn
  <1>6. StackKept /\ sp' = sp
    BY <1>1, <1>5, AfterKeep DEF ScopesKept
  <1>7. RegistersKept
    BY <1>1, <1>4, <1>5, RegistersUnchanged DEF RegistersKept, BindPrimitive, Advance, Goto
  <1>8. pc' \in Successors(Body, pc)
    BY <1>1, NextLine
  <1>9. Change(Line.op) = 0 /\ sp \in Nat
    BY <1>1 DEF Change, PushOps, PopOps, Inv, TypeOK
  <1>. QED
    BY <1>1, <1>2, <1>5, <1>6, <1>7, <1>8, <1>9, OrdinaryStep
    DEF BindPrimitive, Advance, Goto

(* genBindParameters moves an argument into a binding.                     *)
LEMMA BindParameterStep == ASSUME Inv, BindParameter PROVE Inv'
  <1>1. /\ status = "run" /\ Line.op = "bind" /\ code' = code
        /\ pc' = pc + 1 /\ KeepStack
    BY DEF BindParameter, At, Advance, Goto
  <1>2. pc > 1 /\ env \in Environments
    BY <1>1, PastHead
  <1>3. /\ Line.n \in Nat /\ Line.n < Len(envs[env].bindings)
        /\ Line.n \in 0 .. (MaxArgs - 1)
    BY <1>1, LineSafe
  <1>4. GoodIn(code, envs, args[Line.n])
    BY <1>3, WordsAreGood
  <1>5. ScopesKept
    BY <1>1, <1>2, <1>3, <1>4, ScopesStored DEF BindParameter, GoodIn
  <1>6. StackKept /\ sp' = sp
    BY <1>1, <1>5, AfterKeep DEF ScopesKept
  <1>7. RegistersKept
    BY <1>1, <1>5, RegistersUnchanged DEF RegistersKept, BindParameter, Advance, Goto
  <1>8. pc' \in Successors(Body, pc)
    BY <1>1, NextLine
  <1>9. Change(Line.op) = 0 /\ sp \in Nat
    BY <1>1 DEF Change, PushOps, PopOps, Inv, TypeOK
  <1>. QED
    BY <1>1, <1>2, <1>5, <1>6, <1>7, <1>8, <1>9, OrdinaryStep
    DEF BindParameter, Advance, Goto

(* genGetVariableValue pushes what a binding in scope holds.               *)
LEMMA GetVariableStep == ASSUME Inv, GetVariable PROVE Inv'
  <1>1. /\ status = "run" /\ Faults = {} /\ Line.op = "get" /\ code' = code
        /\ envs' = envs /\ pc' = pc + 1
    BY DEF GetVariable, At, Advance, Goto
  <1>2. pc > 1
    BY <1>1, PastHead
  <1>3. /\ r0.e \in Environments
        /\ Line.n \in Nat /\ Line.n < Len(envs[r0.e].bindings)
    BY <1>1, LineSafe
  <1>4. GoodIn(code, envs, envs[r0.e].bindings[Line.n + 1])
    <2>1. Len(envs[r0.e].bindings) \in Nat
      <3>1. envs[r0.e] \in EnvironmentRecord
        BY <1>3 DEF Inv, TypeOK, Environments
      <3>. QED
        BY <3>1 DEF EnvironmentRecord
    <2>2. Line.n + 1 \in 1 .. Len(envs[r0.e].bindings)
      BY <1>3, <2>1
    <2>. QED
      BY <1>3, <2>2, ClosedBinding DEF GoodIn
  <1>5. sp >= 1
    BY <1>1, NoFault DEF PushOps
  <1>6. ScopesKept
    BY <1>1, ScopesUnchanged
  <1>7. StackKept /\ sp' = sp - 1
    BY <1>1, <1>2, <1>4, <1>5, <1>6, AfterPush DEF GetVariable, ScopesKept
  <1>8. RegistersKept
    BY <1>1, <1>6, RegistersUnchanged DEF RegistersKept, GetVariable, Advance, Goto
  <1>9. pc' \in Successors(Body, pc)
    BY <1>1, NextLine
  <1>10. Change(Line.op) = 1
    BY <1>1 DEF Change, PushOps, PopOps
  <1>. QED
    BY <1>1, <1>2, <1>6, <1>7, <1>8, <1>9, <1>10, OrdinaryStep
    DEF GetVariable, Advance, Goto

(* A line that pops one word and stores it.                                *)
LEMMA StoreStep ==
  ASSUME Inv, At("set") \/ At("def"), Store(Pointed, Line.n, Top), Drop, Advance,
         UNCHANGED <<args, ret, r0, env, printed, status>>
  PROVE  Inv'
  <1>1. /\ status = "run" /\ Line.op \in {"set", "def"} /\ code' = code /\ pc' = pc + 1
    BY DEF At, Advance, Goto
  <1>2. pc > 1
    BY <1>1, PastHead
  <1>3. /\ sp < StackSize /\ Pointed \in Environments
        /\ Line.n \in Nat /\ Line.n < Len(envs[Pointed].bindings)
    BY <1>1, LineSafe DEF PopOps
  <1>4. GoodIn(code, envs, Top)
    <2>1. sp \in 0 .. (StackSize - 1)
      BY <1>3, StackFacts DEF Inv, TypeOK
    <2>. QED
      BY <2>1, WordsAreGood DEF Top
  <1>5. ScopesKept
    BY <1>1, <1>3, <1>4, ScopesStored DEF GoodIn
  <1>6. StackKept /\ sp' = sp + 1
    BY <1>1, <1>3, <1>5, AfterDrop DEF ScopesKept
  <1>7. RegistersKept
    BY <1>1, <1>5, RegistersUnchanged DEF RegistersKept, Advance, Goto
  <1>8. pc' \in Successors(Body, pc)
    BY <1>1, NextLine
  <1>9. Change(Line.op) = -1 /\ sp \in Nat
    BY <1>1 DEF Change, PushOps, PopOps, Inv, TypeOK
  <1>. QED
    BY <1>1, <1>2, <1>5, <1>6, <1>7, <1>8, <1>9, OrdinaryStep DEF Advance, Goto

(* genSetVariableValue pops into a binding in scope.                       *)
LEMMA SetVariableStep == ASSUME Inv, SetVariable PROVE Inv'
  <1>1. Pointed = r0.e
    BY LineSafe DEF SetVariable, At
  <1>. QED
    BY <1>1, StoreStep DEF SetVariable

(* genDefinition pops into a binding of the own environment.               *)
LEMMA DefineVariableStep == ASSUME Inv, DefineVariable PROVE Inv'
  <1>1. Pointed = env
    BY LineSafe DEF DefineVariable, At
  <1>. QED
    BY <1>1, StoreStep DEF DefineVariable

(* genIf pops its predicate and goes on in one of the branches.            *)
LEMMA BranchStep == ASSUME Inv, Branch PROVE Inv'
  <1>1. /\ status = "run" /\ Line.op = "if" /\ code' = code /\ envs' = envs
        /\ Drop /\ r0' = Top
    BY DEF Branch, At, Goto
  <1>2. pc > 1
    BY <1>1, PastHead
  <1>3. sp < StackSize
    BY <1>1, LineSafe DEF PopOps
  <1>4. ScopesKept
    BY <1>1, ScopesUnchanged
  <1>5. StackKept /\ sp' = sp + 1 /\ GoodIn(code, envs, Top)
    BY <1>1, <1>3, <1>4, AfterDrop DEF ScopesKept
  <1>6. RegistersKept
    BY <1>1, <1>4, <1>5, RegistersUnchanged DEF RegistersKept, Branch, Goto
  <1>7. pc' \in {pc + 1, WhenZero(Body, pc)} /\ UNCHANGED <<fn, calls, code, fp, benv>>
    BY DEF Branch, Goto
  <1>8. pc' \in Successors(Body, pc)
    BY <1>1, <1>7 DEF Successors, Line
  <1>9. Change(Line.op) = -1 /\ sp \in Nat
    BY <1>1 DEF Change, PushOps, PopOps, Inv, TypeOK
  <1>. QED
    BY <1>1, <1>2, <1>4, <1>5, <1>6, <1>7, <1>8, <1>9, OrdinaryStep DEF Branch

(* The end of a branch rejoins the lines after the if.                     *)
LEMMA CloseBlockStep == ASSUME Inv, CloseBlock PROVE Inv'
  <1>1. /\ status = "run" /\ Line.op = "close" /\ code' = code /\ envs' = envs
        /\ KeepStack
    BY DEF CloseBlock, At, Goto
  <1>2. pc > 1
    BY <1>1, PastHead
  <1>3. ScopesKept
    BY <1>1, ScopesUnchanged
  <1>4. StackKept /\ sp' = sp
    BY <1>1, <1>3, AfterKeep DEF ScopesKept
  <1>5. RegistersKept
    BY <1>1, <1>3, RegistersUnchanged DEF RegistersKept, CloseBlock, Goto
  <1>6. pc' \in Successors(Body, pc)
    BY <1>1 DEF Successors, Line, CloseBlock, Rejoin, Goto
  <1>7. Change(Line.op) = 0 /\ sp \in Nat
    BY <1>1 DEF Change, PushOps, PopOps, Inv, TypeOK
  <1>. QED
    BY <1>1, <1>2, <1>3, <1>4, <1>5, <1>6, <1>7, OrdinaryStep DEF CloseBlock, Goto

(* genApplication pops an operand into args.                               *)
LEMMA TakeArgumentStep == ASSUME Inv, TakeArgument PROVE Inv'
  <1>1. /\ status = "run" /\ Line.op = "arg" /\ code' = code /\ envs' = envs
        /\ Drop /\ pc' = pc + 1
    BY DEF TakeArgument, At, Advance, Goto
  <1>2. pc > 1
    BY <1>1, PastHead
  <1>3. sp < StackSize /\ Line.n \in 0 .. (MaxArgs - 1)
    BY <1>1, LineSafe DEF PopOps
  <1>4. ScopesKept
    BY <1>1, ScopesUnchanged
  <1>5. StackKept /\ sp' = sp + 1 /\ GoodIn(code, envs, Top)
    BY <1>1, <1>3, <1>4, AfterDrop DEF ScopesKept
  <1>6. /\ args' \in [0 .. (MaxArgs - 1) -> Word]
        /\ \A i \in 0 .. (MaxArgs - 1) : ClosedIn(code', envs', args'[i])
    <2>1. args' = [args EXCEPT ![Line.n] = Top] /\ args \in [0 .. (MaxArgs - 1) -> Word]
      BY DEF TakeArgument, Inv, TypeOK
    <2>2. Top \in Word
      BY <1>5 DEF GoodIn
    <2>3. \A i \in 0 .. (MaxArgs - 1) : args'[i] = IF i = Line.n THEN Top ELSE args[i]
      BY <2>1
    <2>4. \A i \in 0 .. (MaxArgs - 1) : GoodIn(code, envs, args'[i])
      BY <2>3, <1>5, WordsAreGood
    <2>. QED
      BY <1>1, <2>1, <2>2, <2>4 DEF GoodIn
  <1>7. RegistersKept
    BY <1>1, <1>4, <1>6, RegistersUnchanged DEF RegistersKept, TakeArgument, Advance, Goto
  <1>8. pc' \in Successors(Body, pc)
    BY <1>1, NextLine
  <1>9. Change(Line.op) = -1 /\ sp \in Nat
    BY <1>1 DEF Change, PushOps, PopOps, Inv, TypeOK
  <1>. QED
    BY <1>1, <1>2, <1>4, <1>5, <1>7, <1>8, <1>9, OrdinaryStep
    DEF TakeArgument, Advance, Goto

(* genApplication pushes ret after the call.                               *)
LEMMA PushResultStep == ASSUME Inv, PushResult PROVE Inv'
  <1>1. /\ status = "run" /\ Faults = {} /\ Line.op = "pushret" /\ code' = code
        /\ envs' = envs /\ pc' = pc + 1
    BY DEF PushResult, At, Advance, Goto
  <1>2. pc > 1
    BY <1>1, PastHead
  <1>3. sp >= 1
    BY <1>1, NoFault DEF PushOps
  <1>4. ScopesKept
    BY <1>1, ScopesUnchanged
  <1>5. StackKept /\ sp' = sp - 1
    BY <1>1, <1>2, <1>3, <1>4, WordsAreGood, AfterPush DEF PushResult, ScopesKept
  <1>6. RegistersKept
    BY <1>1, <1>4, RegistersUnchanged DEF RegistersKept, PushResult, Advance, Goto
  <1>7. pc' \in Successors(Body, pc)
    BY <1>1, NextLine
  <1>8. Change(Line.op) = 1
    BY <1>1 DEF Change, PushOps, PopOps
  <1>. QED
    BY <1>1, <1>2, <1>4, <1>5, <1>6, <1>7, <1>8, OrdinaryStep
    DEF PushResult, Advance, Goto

(* A primitive that leaves a good word in ret and adds texts to what is    *)
(* printed.                                                                *)
LEMMA PrimitiveStep ==
  ASSUME Inv, NEW ps, CallPrimitive(ps), GoodIn(code, envs, ret'),
         printed' \in Seq(Texts), status' \in Status
  PROVE  Inv'
  <1>1. /\ status = "run" /\ Line.op = "call" /\ code' = code /\ envs' = envs
        /\ Drop /\ pc' = pc + 1 /\ Faults = {} /\ Top.t = "prim"
    BY DEF CallPrimitive, At
  <1>2. pc > 1
    BY <1>1, PastHead
  <1>3. sp < StackSize
    BY <1>1, LineSafe DEF PopOps
  <1>4. ScopesKept
    BY <1>1, ScopesUnchanged
  <1>5. StackKept /\ sp' = sp + 1 /\ GoodIn(code, envs, Top)
    BY <1>1, <1>3, <1>4, AfterDrop DEF ScopesKept
  <1>6. Top.base \in Nat
    BY <1>1, <1>5 DEF GoodIn, Word, Null, Unset
  <1>7. GoodIn(code, envs, args[0])
    BY WordsAreGood, MachineAssumption
  <1>8. RegistersKept
    BY <1>1, <1>4, <1>6, <1>7, RegistersUnchanged DEF RegistersKept, CallPrimitive
  <1>9. pc' \in Successors(Body, pc)
    BY <1>1, NextLine
  <1>10. Change(Line.op) = -1 /\ sp \in Nat
    BY <1>1 DEF Change, PushOps, PopOps, Inv, TypeOK
  <1>. QED
    BY <1>1, <1>2, <1>4, <1>5, <1>8, <1>9, <1>10, OrdinaryStep DEF CallPrimitive

(* Whatever a word reads as when taken for an Integer is a long long.      *)
LEMMA ContentsInRange ==
  ASSUME NEW w \in Word, NEW a \in Contents(w)
  PROVE  a \in LongLong
  <1>1. CASE w.t = "int"
    <2>1. w.n \in LongLong
      BY <1>1 DEF Word, Null, Unset
    <2>. QED
      BY <1>1, <2>1 DEF Contents
  <1>2. CASE w.t # "int"
    BY <1>2, MachineAssumption DEF Contents, LongLong
  <1>. QED
    BY <1>1, <1>2

(* call() of a primitive returns at once and leaves the frames alone.      *)
LEMMA CallPrimitiveSteps ==
  ASSUME Inv,
         \/ CallIntBinary \/ CallIntUnary \/ CallEqualString
         \/ CallInt2string \/ CallPrint
  PROVE  Inv'
  <1>1. /\ args[0] \in Word /\ args[1] \in Word
        /\ ret \in Word /\ GoodIn(code, envs, ret)
        /\ printed \in Seq(Texts) /\ status \in Status
    BY WordsAreGood, MachineAssumption DEF Inv, TypeOK
  <1>2. \A b \in BOOLEAN : GoodIn(code, envs, IntObj(Flag(b)))
    <2>1. \A b \in BOOLEAN : Flag(b) \in LongLong
      BY MachineAssumption DEF Flag, LongLong, IntMin
    <2>. QED
      BY <2>1, ObjectsAreGood
  <1>3. CASE CallIntBinary
    <2>1. CallPrimitive(IntBinary) /\ printed' = printed /\ Top.p \in IntBinary
      BY <1>3 DEF CallIntBinary, CallPrimitive
    <2>2. PICK a \in Contents(args[0]), b \in Contents(args[1]) :
            IF DivTraps(Top.p, a, b)
            THEN status' = "arithmetic" /\ ret' = ret
            ELSE status' = status /\ ret' = IntObj(Apply(Top.p, a, b))
      BY <1>3 DEF CallIntBinary
    <2>3. a \in LongLong /\ b \in LongLong
      BY <1>1, ContentsInRange
    <2>4. CASE DivTraps(Top.p, a, b)
      BY <1>1, <2>1, <2>2, <2>4, PrimitiveStep DEF Status
    <2>5. CASE ~DivTraps(Top.p, a, b)
      <3>1. Apply(Top.p, a, b) \in LongLong
        BY <2>1, <2>3, <2>5, ApplyInRange
      <3>2. GoodIn(code, envs, ret')
        BY <2>2, <2>5, <3>1, ObjectsAreGood
      <3>. QED
        BY <1>1, <2>1, <2>2, <2>5, <3>2, PrimitiveStep
    <2>. QED
      BY <2>4, <2>5
  <1>4. CASE CallIntUnary
    <2>1. PICK a \in Contents(args[0]) : ret' = IntObj(Flag(a = 0))
      BY <1>4 DEF CallIntUnary
    <2>2. GoodIn(code, envs, ret')
      BY <2>1, <1>2
    <2>. QED
      BY <1>1, <1>4, <2>2, PrimitiveStep DEF CallIntUnary
  <1>5. CASE CallEqualString
    <2>1. GoodIn(code, envs, ret')
      BY <1>2, <1>5 DEF CallEqualString
    <2>. QED
      BY <1>1, <1>5, <2>1, PrimitiveStep DEF CallEqualString
  <1>6. CASE CallInt2string
    <2>1. PICK a \in Contents(args[0]) : ret' = StrObj(Decimal(a))
      BY <1>6 DEF CallInt2string
    <2>2. Decimal(a) \in Texts
      BY <1>1, ContentsInRange, MachineAssumption DEF LongLong
    <2>3. GoodIn(code, envs, ret')
      BY <2>1, <2>2, ObjectsAreGood
    <2>. QED
      BY <1>1, <1>6, <2>3, PrimitiveStep DEF CallInt2string
  <1>7. CASE CallPrint
    <2>1. /\ CallPrimitive({"pPrint"}) /\ ret' = ret /\ status' = status
          /\ printed' = Append(printed, args[0].s)
      BY <1>7 DEF CallPrint
    <2>2. status = "run" /\ Faults = {} /\ Line.op = "call" /\ Top.t = "prim" /\ Top.p = "pPrint"
      BY <2>1 DEF CallPrimitive, At
    <2>3. Readable("pPrint", args)
      BY <2>2, NoFault
    <2>4. args[0].t = "str"
      BY <2>3 DEF Readable, IntBinary, IntUnary
    <2>5. args[0].s \in Texts
      BY <1>1, <2>4 DEF Word, Null, Unset
    <2>6. printed' \in Seq(Texts)
      BY <1>1, <2>1, <2>5
    <2>. QED
      BY <1>1, <2>1, <2>6, PrimitiveStep
  <1>. QED
    BY <1>3, <1>4, <1>5, <1>6, <1>7

(* The walk from environment to environment.                               *)
LEMMA ScanStep == ASSUME Inv, ScanFromHere \/ ScanOutwards PROVE Inv'
  <1>1. /\ status = "run" /\ Line.op \in {"scan", "outer"} /\ code' = code /\ envs' = envs
        /\ KeepStack /\ pc' = pc + 1 /\ UNCHANGED <<fn, calls, fp, benv, args, ret, env, printed, status>>
    BY DEF ScanFromHere, ScanOutwards, At, Advance, Goto
  <1>2. pc > 1 /\ env \in Environments /\ envs[env].fn = fn
    BY <1>1, PastHead
  <1>3. ScopesKept
    BY <1>1, ScopesUnchanged
  <1>4. StackKept /\ sp' = sp
    BY <1>1, <1>3, AfterKeep DEF ScopesKept
  <1>5. pc' \in Successors(Body, pc)
    BY <1>1, NextLine
  <1>6. Change(Line.op) = 0 /\ sp \in Nat
    BY <1>1 DEF Change, PushOps, PopOps, Inv, TypeOK
  <1>7. LocalStep
    BY <1>1, <1>2, <1>3, <1>4, <1>5, <1>6 DEF LocalStep, StackKept, ScopesKept, Environments
  <1>8. /\ r0'.t = "env" /\ r0'.e \in Nat /\ GoodIn(code, envs, r0')
        /\ code[fn].owner[pc'] # 0 =>
             r0'.e \in Environments /\ envs[r0'.e].fn = code[fn].owner[pc']
    <2>1. code[fn].owner[pc'] \in {0, OwnerAfter(code, fn, pc)}
      BY <1>5, LineFacts DEF StepOK
    <2>2. CASE ScanFromHere
      <3>1. r0' = EnvWord(env) /\ env \in Nat /\ Line.op = "scan"
        BY <2>2 DEF ScanFromHere, At, Inv, TypeOK
      <3>2. OwnerAfter(code, fn, pc) = fn
        BY <3>1 DEF OwnerAfter, Line, Body
      <3>. QED
        BY <2>1, <3>1, <3>2, <1>2, ObjectsAreGood DEF EnvWord
    <2>3. CASE ScanOutwards
      <3>1. r0' = EnvWord(envs[r0.e].enclosing) /\ Line.op = "outer"
        BY <2>3 DEF ScanOutwards, Outer, At
      <3>2. OwnerAfter(code, fn, pc) = code[code[fn].owner[pc]].parent
        BY <3>1 DEF OwnerAfter, Line, Body
      <3>3. r0.e \in Environments /\ envs[r0.e].fn = code[fn].owner[pc]
        BY <1>1, <3>1, LineSafe
      <3>4. code[fn].owner[pc] > 1
        BY <3>1, LineFacts DEF OperandsOK, Line, Body
      <3>5. /\ envs[r0.e].enclosing \in 1 .. (r0.e - 1)
            /\ envs[envs[r0.e].enclosing].fn = code[code[fn].owner[pc]].parent
        BY <3>3, <3>4 DEF Inv, LexicalScope
      <3>6. envs[r0.e].enclosing \in Environments /\ envs[r0.e].enclosing \in Nat
        <4>1. Len(envs) \in Nat
          BY DEF Inv, TypeOK
        <4>. QED
          BY <4>1, <3>3, <3>5 DEF Environments
      <3>. QED
        BY <2>1, <3>1, <3>2, <3>5, <3>6, ObjectsAreGood DEF EnvWord
    <2>. QED
      BY <2>2, <2>3
  <1>9. RegistersKept
    BY <1>1, <1>3, <1>8, RegistersUnchanged DEF RegistersKept
  <1>10. ScanOnPath'
    BY <1>1, <1>8 DEF ScanOnPath, Environments
  <1>. QED
    BY <1>1, <1>2, <1>3, <1>4, <1>7, <1>9, <1>10, LocalInv

-----------------------------------------------------------------------------
(* The steps from one function to another.                                 *)

(* A function starts with nothing on the stack and nothing known of r0.    *)
LEMMA HeadFacts ==
  ASSUME Inv, NEW f \in Functions
  PROVE  /\ code[f].depth[1] = 0 /\ code[f].owner[1] = 0
         /\ 1 \in 1 .. Len(code[f].body)
  <1>1. WellFormed(code)
    BY LayoutAssumption DEF Inv, TypeOK
  <1>. QED
    BY <1>1 DEF WellFormed, Functions

(* main's first line.                                                      *)
LEMMA EnvironmentStep == ASSUME Inv, Environment PROVE Inv'
  <1>1. /\ status = "run" /\ Line.op = "env" /\ code' = code /\ NewEnvironment
        /\ KeepStack /\ pc' = pc + 1
        /\ UNCHANGED <<fn, calls, fp, benv, args, ret, r0, printed, status>>
    BY DEF Environment, At, Advance, Goto
  <1>2. fn = 1 /\ pc = 1
    BY <1>1, LineFacts DEF OperandsOK, Line, Body
  <1>3. /\ ScopesKept
        /\ env' \in 1 .. Len(envs') /\ envs'[env'].fn = fn /\ env' \in Nat
    BY <1>1, <1>2, ScopesExtended
  <1>4. StackKept /\ sp' = sp
    BY <1>1, <1>3, AfterKeep DEF ScopesKept
  <1>5. RegistersKept
    BY <1>1, <1>3, RegistersUnchanged DEF RegistersKept
  <1>6. pc' \in Successors(Body, pc)
    BY <1>1, NextLine
  <1>7. Change(Line.op) = 0 /\ sp \in Nat
    BY <1>1 DEF Change, PushOps, PopOps, Inv, TypeOK
  <1>8. LocalStep
    BY <1>1, <1>3, <1>4, <1>6, <1>7 DEF LocalStep, StackKept, ScopesKept
  <1>9. ScanOnPath'
    <2>1. code[fn].owner[pc'] = 0
      BY <1>1, <1>6, LineFacts DEF StepOK, OwnerAfter, Line, Body
    <2>. QED
      BY <1>1, <2>1 DEF ScanOnPath
  <1>. QED
    BY <1>1, <1>2, <1>3, <1>4, <1>5, <1>8, <1>9, LocalInv

(* The head of a Lambda saves its caller's registers right below the       *)
(* caller's operands, where no other frame has its own.                    *)
LEMMA EnterStep == ASSUME Inv, Enter PROVE Inv'
  <1>1. /\ status = "run" /\ Faults = {} /\ Line.op = "enter" /\ code' = code
        /\ NewEnvironment /\ pc' = pc + 1 /\ sp' = sp - 2 /\ fp' = sp - 2
        /\ stack' = [stack EXCEPT ![sp - 1] = EnvWord(env), ![sp - 2] = FpWord(fp)]
        /\ UNCHANGED <<fn, calls, args, ret, r0, benv, printed, status>>
    BY DEF Enter, At, SavedFp
  <1>2. fn # 1 /\ pc = 1 /\ fn \in Functions
    BY <1>1, LineFacts DEF OperandsOK, Line, Body, Inv, TypeOK
  <1>3. /\ ScopesKept
        /\ env' \in 1 .. Len(envs') /\ envs'[env'].fn = fn /\ env' \in Nat
    BY <1>1, <1>2, ScopesExtended
  <1>4. /\ Len(calls) \in 1 .. Len(calls)
        /\ sp = Caller.sp /\ fp = Caller.fp /\ env = Caller.env
    BY <1>2, StackFacts DEF Inv, DepthKept
  <1>5. /\ sp \in Nat /\ sp >= 2 /\ fp \in Nat /\ StackSize \in Nat /\ env \in Nat
        /\ sp <= fp /\ fp <= StackSize
    BY <1>1, <1>4, NoFault, StackFacts DEF Caller, Inv, TypeOK
  <1>6. \A k \in 1 .. Len(calls) : sp - 2 < calls[k].sp /\ sp <= calls[k].fp
    <2>1. SUFFICES ASSUME NEW k \in 1 .. Len(calls)
                   PROVE  sp - 2 < calls[k].sp /\ sp <= calls[k].fp
      OBVIOUS
    <2>2. calls[k].sp \in Nat /\ calls[k].fp \in Nat /\ calls[k].sp <= calls[k].fp
      BY StackFacts
    <2>3. CASE k = Len(calls)
      BY <2>2, <2>3, <1>4, <1>5 DEF Caller
    <2>4. CASE k # Len(calls)
      <3>1. k \in 1 .. (Len(calls) - 1)
        BY <2>4, StackFacts
      <3>2. fp < calls[k].sp
        BY <1>4, <3>1 DEF Inv, FrameChain, Caller
      <3>. QED
        BY <2>2, <3>2, <1>5
    <2>. QED
      BY <2>3, <2>4
  <1>7. /\ stack' \in [0 .. (StackSize - 1) -> Word]
        /\ \A i \in 0 .. (StackSize - 1) :
             stack'[i] = IF i = sp - 2 THEN FpWord(fp)
                         ELSE IF i = sp - 1 THEN EnvWord(env) ELSE stack[i]
    <2>1. FpWord(fp) \in Word /\ EnvWord(env) \in Word
      BY <1>5 DEF Word, FpWord, EnvWord
    <2>2. stack \in [0 .. (StackSize - 1) -> Word]
      BY DEF Inv, TypeOK
    <2>. QED
      BY <1>1, <1>5, <2>1, <2>2
  <1>8. StackKept
    <2>1. sp' \in 0 .. StackSize
      BY <1>1, <1>5
    <2>2. \A i \in fp .. (StackSize - 1) : stack'[i] = stack[i]
      BY <1>5, <1>7
    <2>3. ASSUME NEW i \in 0 .. (StackSize - 1)
          PROVE  ClosedIn(code', envs', stack'[i])
      <3>1. GoodIn(code, envs, stack'[i])
        BY <1>5, <1>7, WordsAreGood, ObjectsAreGood
      <3>. QED
        BY <1>1, <1>3, <3>1, GoodKept DEF GoodIn, ScopesKept
    <2>. QED
      BY <1>7, <2>1, <2>2, <2>3 DEF StackKept
  <1>9. RegistersKept
    BY <1>1, <1>3, RegistersUnchanged DEF RegistersKept
  <1>10. StepOK(code, fn, pc, pc') /\ pc' = 2
    <2>1. pc + 1 \in Successors(Body, pc)
      BY <1>1, NextLine
    <2>. QED
      BY <1>1, <1>2, <2>1, LineFacts
  <1>11. /\ pc' \in 1 .. Len(code[fn].body)
         /\ code[fn].depth[pc'] <= 0 /\ code[fn].owner[pc'] = 0
    <2>1. code[fn].depth[1] = 0
      BY <1>2, HeadFacts
    <2>2. Change("enter") = 0
      BY DEF Change, PushOps, PopOps
    <2>3. Len(code[fn].body) \in Nat /\ pc' \in 2 .. Len(code[fn].body)
      BY <1>2, <1>10, LineFacts DEF StepOK
    <2>4. code[fn].body[pc].op = "enter"
      BY <1>1 DEF Line, Body
    <2>5. code[fn].depth[pc'] <= 0 + 0
      BY <1>2, <1>10, <2>1, <2>2, <2>4 DEF StepOK
    <2>. QED
      BY <1>10, <2>3, <2>4, <2>5 DEF StepOK, OwnerAfter
  <1>12. OwnEnvironment'
    BY <1>1, <1>3, <1>10 DEF OwnEnvironment, Environments
  <1>13. ScanOnPath'
    BY <1>1, <1>11 DEF ScanOnPath
  <1>14. FrameChain'
    <2>1. \A k \in 1 .. Len(calls) :
            /\ calls[k].env \in 1 .. Len(envs')
            /\ envs'[calls[k].env].fn = calls[k].fn
      <3>1. \A k \in 1 .. Len(calls) :
              calls[k].env \in 1 .. Len(envs) /\ envs[calls[k].env].fn = calls[k].fn
        BY DEF Inv, FrameChain, Environments
      <3>2. \A e \in 1 .. Len(envs) : e \in 1 .. Len(envs') /\ envs'[e].fn = envs[e].fn
        BY <1>3 DEF ScopesKept, Continues
      <3>. QED
        BY <3>1, <3>2
    <2>2. ASSUME NEW k \in 1 .. Len(calls), k # 1
          PROVE  /\ stack'[calls[k].fp] = FpWord(calls[k - 1].fp)
                 /\ stack'[calls[k].fp + 1] = EnvWord(calls[k - 1].env)
      <3>1. k - 1 \in 1 .. Len(calls)
        BY <2>2, StackFacts
      <3>2. calls[k].fp = calls[k - 1].sp - 2 /\ SavedAt(calls[k].fp, calls[k - 1])
        BY <2>2 DEF Inv, FrameChain
      <3>3. /\ calls[k].fp \in Nat /\ calls[k - 1].sp \in Nat /\ calls[k - 1].fp \in Nat
            /\ calls[k - 1].sp <= calls[k - 1].fp /\ calls[k - 1].fp <= StackSize
        BY <3>1, StackFacts
      <3>4. calls[k].fp >= sp
        BY <1>6
      <3>5. calls[k].fp + 2 <= StackSize
        BY <1>5, <3>2, <3>3
      <3>6. calls[k].fp \in 0 .. (StackSize - 1) /\ calls[k].fp + 1 \in 0 .. (StackSize - 1)
        BY <1>5, <3>3, <3>5
      <3>. QED
        BY SMTT(30), <1>5, <1>7, <3>2, <3>3, <3>4, <3>6 DEF SavedAt
    <2>3. /\ fp' = Caller.sp - 2
          /\ stack'[fp'] = FpWord(Caller.fp)
          /\ stack'[fp' + 1] = EnvWord(Caller.env)
      <3>1. sp - 2 \in 0 .. (StackSize - 1) /\ sp - 1 \in 0 .. (StackSize - 1)
        BY <1>5
      <3>2. (sp - 2) + 1 = sp - 1 /\ sp - 2 # sp - 1
        BY <1>5
      <3>. QED
        BY <1>1, <1>4, <1>7, <3>1, <3>2
    <2>4. \A j \in 1 .. Len(calls) : fp' < calls[j].sp
      BY <1>1, <1>6
    <2>5. ASSUME NEW k \in 1 .. Len(calls)
          PROVE  IF k = 1 THEN calls[k].fn = 1 /\ calls[k].fp = StackSize
                 ELSE /\ calls[k].fn # 1
                      /\ calls[k].fp = calls[k - 1].sp - 2
                      /\ stack'[calls[k].fp] = FpWord(calls[k - 1].fp)
                      /\ stack'[calls[k].fp + 1] = EnvWord(calls[k - 1].env)
      BY <2>2 DEF Inv, FrameChain
    <2>6. \A k \in 1 .. Len(calls) :
            /\ calls[k].sp <= calls[k].fp
            /\ calls[k].fn \in Functions
            /\ \A j \in 1 .. (k - 1) : calls[k].fp < calls[j].sp
      BY DEF Inv, FrameChain
    <2>7. calls # <<>>
      BY <1>2 DEF Inv, FrameChain
    <2>. QED
      BY ZenonT(30), <1>1, <1>2, <2>1, <2>3, <2>4, <2>5, <2>6, <2>7
      DEF FrameChain, Environments, Functions, SavedAt, Caller
  <1>15. DepthKept'
    <2>1. sp' = fp' /\ fp' \in Int /\ code[fn].depth[pc'] <= fp' - sp'
      BY <1>1, <1>5, <1>11
    <2>2. sp' <= fp'
      BY <2>1
    <2>3. pc' # 1
      BY <1>10
    <2>. QED
      BY <1>1, <2>1, <2>2, <2>3 DEF Inv, DepthKept
  <1>16. fp' \in 0 .. StackSize
    BY <1>1, <1>5
  <1>. QED
    BY <1>1, <1>2, <1>3, <1>8, <1>9, <1>11, <1>12, <1>13, <1>14, <1>15, <1>16, AssembleInv
    DEF Inv, TypeOK, Functions

(* A call of a Lambda: the caller's registers become history, and the      *)
(* callee starts in the environment that its closure carries.              *)
LEMMA CallLambdaStep == ASSUME Inv, CallLambda PROVE Inv'
  <1> DEFINE K == [fn |-> fn, pc |-> pc + 1, fp |-> fp, env |-> env, sp |-> sp + 1]
  <1>1. /\ status = "run" /\ Faults = {} /\ Line.op = "call" /\ Top.t = "proc"
        /\ code' = code /\ envs' = envs /\ Drop
        /\ benv' = Top.base /\ fn' = Top.f /\ pc' = 1 /\ calls' = Append(calls, K)
        /\ UNCHANGED <<fp, args, ret, r0, env, printed, status>>
    BY DEF CallLambda, At
  <1>2. /\ pc > 1 /\ env \in Environments /\ envs[env].fn = fn
        /\ fn \in Functions /\ fn \in Nat /\ pc \in Nat /\ env \in Nat
        /\ Len(code[fn].body) \in Nat /\ code[fn].depth[pc] \in Nat
    BY SMTT(30), <1>1, PastHead, LineFacts DEF Inv, TypeOK, Functions
  <1>3. sp < StackSize
    BY <1>1, LineSafe DEF PopOps
  <1>4. ScopesKept
    BY <1>1, ScopesUnchanged
  <1>5. StackKept /\ sp' = sp + 1 /\ GoodIn(code, envs, Top) /\ stack' = stack
    BY <1>1, <1>3, <1>4, AfterDrop DEF ScopesKept, Drop
  <1>6. /\ Top.f \in 2 .. Len(code) /\ Top.f \in Functions /\ Top.f # 1
        /\ Top.base \in Environments /\ Top.base \in Nat
        /\ envs[Top.base].fn = code[Top.f].parent
    <2>1. Top.f \in Nat /\ Top.base \in Nat
      BY <1>1, <1>5 DEF GoodIn, Word, Null, Unset
    <2>2. Len(code) \in Nat
      BY LineFacts
    <2>. QED
      BY <1>1, <1>5, <2>1, <2>2 DEF GoodIn, ClosedIn, Environments, Functions
  <1>7. RegistersKept
    BY <1>1, <1>4, <1>6, RegistersUnchanged DEF RegistersKept
  <1>8. StepOK(code, fn, pc, pc + 1) /\ Line.op \in PopOps
    <2>1. pc + 1 \in Successors(Body, pc)
      BY <1>1, NextLine
    <2>. QED
      BY <1>1, <2>1, LineFacts DEF PopOps
  <1>9. /\ sp + 1 <= fp
        /\ pc + 1 \in 2 .. Len(code[fn].body)
        /\ code[fn].depth[pc + 1] <= fp - (sp + 1)
        /\ code[fn].owner[pc + 1] = 0
    <2>1. code[fn].body[pc].op = "call"
      BY <1>1 DEF Line, Body
    <2>2. Change(code[fn].body[pc].op) = -1
      BY <2>1 DEF Change, PushOps, PopOps
    <2>3. /\ pc + 1 \in 2 .. Len(code[fn].body)
          /\ code[fn].depth[pc + 1] <= code[fn].depth[pc] + -1
          /\ code[fn].owner[pc + 1] = 0
      <3>1. OwnerAfter(code, fn, pc) = 0
        BY <2>1 DEF OwnerAfter
      <3>2. /\ pc + 1 \in 2 .. Len(code[fn].body)
            /\ code[fn].depth[pc + 1] <= code[fn].depth[pc] + Change(code[fn].body[pc].op)
            /\ code[fn].owner[pc + 1] \in {0, OwnerAfter(code, fn, pc)}
        BY <1>8 DEF StepOK
      <3>. QED
        BY <1>2, <2>2, <3>1, <3>2
    <2>4. sp <= fp /\ code[fn].depth[pc] <= fp - sp
      BY <1>1, <1>2 DEF Inv, DepthKept
    <2>5. code[fn].depth[pc] >= 1
      BY <1>8, LineFacts
    <2>6. code[fn].depth[pc + 1] \in Nat
      <3>1. pc + 1 \in 1 .. Len(code[fn].body)
        BY <1>2, <2>3
      <3>. QED
        BY <1>2, <3>1, LineFacts
    <2>7. sp \in Nat /\ fp \in Nat
      BY StackFacts DEF Inv, TypeOK
    <2>8. sp + 1 <= fp
      BY <1>2, <2>4, <2>5, <2>7
    <2>9. code[fn].depth[pc + 1] <= fp - (sp + 1)
      BY SMTT(30), <1>2, <2>3, <2>4, <2>6, <2>7
    <2>. QED
      BY <2>3, <2>8, <2>9
  <1>10. /\ K \in CallRecord /\ calls \in Seq(CallRecord)
    BY <1>2, StackFacts DEF CallRecord, Inv, TypeOK
  <1> HIDE DEF K
  <1>11. /\ calls' \in Seq(CallRecord) /\ Len(calls') = Len(calls) + 1
         /\ calls'[Len(calls) + 1] = K
         /\ \A k \in 1 .. Len(calls) : calls'[k] = calls[k]
         /\ Len(calls) \in Nat
    BY <1>1, <1>10
  <1>12. /\ K.fn = fn /\ K.pc = pc + 1 /\ K.fp = fp /\ K.env = env /\ K.sp = sp + 1
    BY DEF K
  <1>13. OwnEnvironment'
    BY <1>1, <1>6 DEF OwnEnvironment, Environments
  <1>14. ScanOnPath'
    BY <1>1, <1>6, HeadFacts DEF ScanOnPath
  <1>15. FrameChain'
    <2>1. ASSUME NEW k \in 1 .. (Len(calls) + 1)
          PROVE  /\ calls'[k].sp <= calls'[k].fp
                 /\ calls'[k].fn \in Functions /\ calls'[k].env \in Environments
                 /\ envs[calls'[k].env].fn = calls'[k].fn
                 /\ IF k = 1
                    THEN calls'[k].fn = 1 /\ calls'[k].fp = StackSize
                    ELSE /\ calls'[k].fn # 1
                         /\ calls'[k].fp = calls'[k - 1].sp - 2
                         /\ SavedAt(calls'[k].fp, calls'[k - 1])
                 /\ \A j \in 1 .. (k - 1) : calls'[k].fp < calls'[j].sp
      <3>1. CASE k \in 1 .. Len(calls)
        <4>1. \A j \in 1 .. (k - 1) : j \in 1 .. Len(calls) /\ calls'[j] = calls[j]
          BY <3>1, <1>11
        <4>2. k # 1 => calls'[k - 1] = calls[k - 1]
          BY <3>1, <4>1, <1>11
        <4>. QED
          BY <3>1, <4>1, <4>2, <1>11 DEF Inv, FrameChain
      <3>2. CASE k = Len(calls) + 1
        <4>1. calls'[k] = K /\ \A j \in 1 .. (k - 1) : calls'[j] = calls[j]
          BY <3>2, <1>11
        <4>2. \A j \in 1 .. Len(calls) : fp < calls[j].sp
          BY <1>2, FramesAbove
        <4>3. CASE fn = 1
          <5>1. k = 1 /\ fp = StackSize
            BY <3>2, <4>3, StackFacts DEF Inv, FrameChain
          <5>. QED
            BY <3>2, <4>1, <4>2, <4>3, <5>1, <1>2, <1>9, <1>12
        <4>4. CASE fn # 1
          <5>1. /\ k # 1 /\ k - 1 = Len(calls) /\ calls'[k - 1] = Caller
            BY <3>2, <4>1, <4>4, <1>11, StackFacts DEF Caller
          <5>2. fp = Caller.sp - 2 /\ SavedAt(fp, Caller)
            BY <4>4, <1>2 DEF Inv, FrameChain
          <5>. QED
            BY <3>2, <4>1, <4>2, <4>4, <5>1, <5>2, <1>2, <1>9, <1>12
        <4>. QED
          BY <4>3, <4>4
      <3>. QED
        BY <3>1, <3>2, <1>11
    <2>2. calls' # <<>> /\ fn' # 1 /\ ~(pc' > 1)
      BY <1>1, <1>6, <1>11
    <2>. QED
      BY SMTT(30), <1>1, <1>5, <1>11, <2>1, <2>2
      DEF FrameChain, Environments, Functions, SavedAt, Caller
  <1>16. DepthKept'
    <2>1. ASSUME NEW k \in 1 .. (Len(calls) + 1)
          PROVE  /\ calls'[k].pc \in 2 .. Len(code[calls'[k].fn].body)
                 /\ code[calls'[k].fn].depth[calls'[k].pc] <= calls'[k].fp - calls'[k].sp
                 /\ code[calls'[k].fn].owner[calls'[k].pc] = 0
      <3>1. CASE k \in 1 .. Len(calls)
        BY <3>1, <1>11 DEF Inv, DepthKept
      <3>2. CASE k = Len(calls) + 1
        BY <3>2, <1>9, <1>11, <1>12
      <3>. QED
        BY <3>1, <3>2, <1>11
    <2>2. Caller' = K
      BY <1>11 DEF Caller
    <2>. QED
      BY <1>1, <1>5, <1>6, <1>11, <1>12, <2>1, <2>2 DEF DepthKept
  <1>17. /\ fn' \in Functions /\ pc' \in 1 .. Len(code'[fn'].body)
         /\ fp' \in 0 .. StackSize
    BY <1>1, <1>6, HeadFacts DEF Inv, TypeOK
  <1>. QED
    BY <1>1, <1>4, <1>5, <1>7, <1>11, <1>13, <1>14, <1>15, <1>16, <1>17, AssembleInv

(* What ldmfd finds: the registers of the caller.                          *)
LEMMA Restored ==
  ASSUME Inv, Return
  PROVE  /\ code' = code /\ envs' = envs /\ stack' = stack
         /\ Len(calls) \in 1 .. Len(calls) /\ Caller \in CallRecord
         /\ sp < StackSize /\ ret' = Top
         /\ fp' = Caller.fp /\ env' = Caller.env /\ sp' = Caller.sp
         /\ fn' = Caller.fn /\ pc' = Caller.pc
         /\ calls' = SubSeq(calls, 1, Len(calls) - 1)
  <1>1. status = "run" /\ Line.op = "return" /\ calls # <<>>
    BY DEF Return, At
  <1>2. /\ fn # 1 /\ sp < StackSize
        /\ stack[fp] = FpWord(Caller.fp) /\ stack[fp + 1] = EnvWord(Caller.env)
    BY <1>1, LineSafe DEF PopOps
  <1>3. pc > 1
    BY <1>1, PastHead
  <1>4. /\ Len(calls) \in 1 .. Len(calls) /\ Caller \in CallRecord
        /\ Caller.sp \in Nat /\ fp = Caller.sp - 2
    BY <1>2, <1>3, StackFacts DEF Inv, TypeOK, FrameChain, Caller
  <1>5. fp + 2 = Caller.sp
    BY <1>4
  <1>. QED
    BY <1>2, <1>4, <1>5 DEF Return, SavedEnv, FpWord, EnvWord, Caller

(* ldmfd and the return of a Lambda bring the caller back.                 *)
LEMMA ReturnStep == ASSUME Inv, Return PROVE Inv'
  <1> DEFINE n == Len(calls)
  <1>1. /\ code' = code /\ envs' = envs /\ stack' = stack
        /\ n \in 1 .. n /\ n \in Nat /\ Caller = calls[n]
        /\ sp < StackSize /\ ret' = Top
        /\ fp' = Caller.fp /\ env' = Caller.env /\ sp' = Caller.sp
        /\ fn' = Caller.fn /\ pc' = Caller.pc
        /\ calls' = SubSeq(calls, 1, n - 1)
        /\ calls \in Seq(CallRecord)
    BY Restored, StackFacts DEF Caller, Inv, TypeOK
  <1>2. /\ calls' \in Seq(CallRecord) /\ Len(calls') = n - 1
        /\ \A k \in 1 .. (n - 1) : calls'[k] = calls[k] /\ k \in 1 .. n
    <2> HIDE DEF n
    <2>1. n - 1 \in Int /\ 1 \in Int /\ \A i \in 1 .. (n - 1) : calls[i] \in CallRecord
      BY <1>1 DEF n
    <2>2. /\ calls' \in Seq(CallRecord)
          /\ Len(calls') = IF 1 <= n - 1 THEN (n - 1) - 1 + 1 ELSE 0
          /\ \A i \in 1 .. ((n - 1) - 1 + 1) : calls'[i] = calls[1 + i - 1]
      BY <1>1, <2>1, SubSeqProperties
    <2>3. /\ (n - 1) - 1 + 1 = n - 1 /\ (~(1 <= n - 1) => n - 1 = 0)
          /\ \A k \in 1 .. (n - 1) : 1 + k - 1 = k /\ k \in 1 .. n
      BY <1>1
    <2>. QED
      BY <2>2, <2>3
  <1>3. ScopesKept
    BY <1>1, ScopesUnchanged
  <1>4. /\ Caller.fp \in Nat /\ Caller.sp \in Nat /\ Caller.sp <= Caller.fp
        /\ Caller.fp <= StackSize /\ StackSize \in Nat
    BY <1>1, StackFacts
  <1>5. StackKept
    <2>1. sp' \in 0 .. StackSize /\ fp' \in 0 .. StackSize
      BY <1>1, <1>4
    <2>2. \A i \in 0 .. (StackSize - 1) : ClosedIn(code', envs', stack'[i])
      BY <1>1, WordsAreGood DEF GoodIn
    <2>. QED
      BY <1>1, <2>1, <2>2 DEF StackKept, Inv, TypeOK
  <1>6. /\ Caller.env \in Environments /\ Caller.env \in Nat
        /\ envs[Caller.env].fn = Caller.fn /\ Caller.fn \in Functions
    <2>1. Caller.env \in Environments /\ envs[Caller.env].fn = Caller.fn /\ Caller.fn \in Functions
      BY <1>1 DEF Inv, FrameChain
    <2>. QED
      BY <1>1, <2>1, Restored DEF CallRecord
  <1>7. RegistersKept
    <2>1. GoodIn(code, envs, Top)
      <3>1. sp \in 0 .. (StackSize - 1)
        BY <1>1, <1>4 DEF Inv, TypeOK
      <3>. QED
        BY <3>1, WordsAreGood DEF Top
    <2>. QED
      BY <1>1, <1>3, <1>6, <2>1, RegistersUnchanged DEF RegistersKept, Return
  <1>8. /\ pc' \in 2 .. Len(code[Caller.fn].body)
        /\ code[Caller.fn].depth[pc'] <= fp' - sp'
        /\ code[Caller.fn].owner[pc'] = 0
    BY <1>1 DEF Inv, DepthKept
  <1>9. Len(code[Caller.fn].body) \in Nat
    BY <1>6, LineFacts
  <1>10. pc' > 1 /\ pc' # 1 /\ pc' \in 1 .. Len(code'[fn'].body)
    BY <1>1, <1>8, <1>9
  <1>11. OwnEnvironment'
    BY <1>1, <1>6, <1>10 DEF OwnEnvironment, Environments
  <1>12. ScanOnPath'
    BY <1>1, <1>8 DEF ScanOnPath
  <1>13. FrameChain'
    <2>1. ASSUME NEW k \in 1 .. (n - 1)
          PROVE  /\ calls'[k].sp <= calls'[k].fp
                 /\ calls'[k].fn \in Functions /\ calls'[k].env \in Environments
                 /\ envs[calls'[k].env].fn = calls'[k].fn
                 /\ IF k = 1
                    THEN calls'[k].fn = 1 /\ calls'[k].fp = StackSize
                    ELSE /\ calls'[k].fn # 1
                         /\ calls'[k].fp = calls'[k - 1].sp - 2
                         /\ SavedAt(calls'[k].fp, calls'[k - 1])
                 /\ \A j \in 1 .. (k - 1) : calls'[k].fp < calls'[j].sp
      <3>1. /\ k \in 1 .. n /\ calls'[k] = calls[k]
            /\ \A j \in 1 .. (k - 1) : calls'[j] = calls[j]
            /\ k # 1 => calls'[k - 1] = calls[k - 1]
        BY <1>1, <1>2
      <3>. QED
        BY <3>1 DEF Inv, FrameChain
    <2>2. CASE n = 1
      <3>1. calls' = <<>> /\ fn' = 1 /\ fp' = StackSize
        BY <1>1, <1>2, <2>2 DEF Inv, FrameChain
      <3>2. Len(calls') = 0 /\ \A k \in 1 .. Len(calls') : FALSE
        BY <1>2, <2>2
      <3> HIDE DEF n
      <3>. QED
        BY ONLY <3>1, <3>2 DEF FrameChain, SavedAt, Caller, Environments, Functions
    <2>3. CASE n # 1
      <3>1. n - 1 \in 1 .. (n - 1) /\ calls' # <<>>
        <4>1. n - 1 # 0 /\ n - 1 \in Nat
          BY <1>1, <2>3
        <4>. QED
          BY <1>2, <4>1
      <3>2. /\ Caller.fn # 1 /\ Caller.fp = calls[n - 1].sp - 2
            /\ SavedAt(Caller.fp, calls[n - 1])
            /\ \A j \in 1 .. (n - 1) : Caller.fp < calls[j].sp
        BY <1>1, <2>3 DEF Inv, FrameChain
      <3>3. Caller' = calls[n - 1]
        BY <1>2, <3>1 DEF Caller
      <3>4. /\ fn' # 1 /\ fp' = Caller'.sp - 2 /\ SavedAt(fp', Caller')
            /\ \A j \in 1 .. (n - 1) : fp' < calls'[j].sp
        BY <1>1, <1>2, <3>2, <3>3
      <3> HIDE DEF n
      <3>. QED
        BY ZenonT(30), <1>1, <1>2, <2>1, <3>1, <3>4 DEF FrameChain, Environments, Functions, SavedAt
    <2>. QED
      BY <2>2, <2>3
  <1>14. DepthKept'
    <2>1. ASSUME NEW k \in 1 .. (n - 1)
          PROVE  /\ calls'[k].pc \in 2 .. Len(code[calls'[k].fn].body)
                 /\ code[calls'[k].fn].depth[calls'[k].pc] <= calls'[k].fp - calls'[k].sp
                 /\ code[calls'[k].fn].owner[calls'[k].pc] = 0
      BY <1>2 DEF Inv, DepthKept
    <2>2. sp' <= fp' /\ code'[fn'].depth[pc'] <= fp' - sp'
      BY <1>1, <1>4, <1>8
    <2>3. ~(pc' = 1 /\ fn' # 1) /\ code' = code /\ Len(calls') = n - 1
      BY <1>1, <1>2, <1>10
    <2> HIDE DEF n
    <2>. QED
      BY <2>1, <2>2, <2>3 DEF DepthKept
  <1>15. fn' \in Functions /\ fp' \in 0 .. StackSize
    BY <1>1, <1>4, <1>6
  <1>. QED
    BY <1>1, <1>2, <1>3, <1>5, <1>7, <1>10, <1>11, <1>12, <1>13, <1>14, <1>15, AssembleInv

(* main pops its result and ends the process.                              *)
LEMMA ExitStep == ASSUME Inv, Exit PROVE Inv'
  <1>1. /\ status = "run" /\ Line.op = "exit" /\ status' = "exit" /\ ret' = Top /\ Drop
        /\ UNCHANGED <<code, fn, pc, calls, fp, args, r0, env, benv, envs, printed>>
    BY DEF Exit, At
  <1>2. fn = 1 /\ calls = <<>> /\ pc > 1
    BY <1>1, PastHead, LineFacts DEF OperandsOK, Line, Body, Inv, FrameChain
  <1>3. sp < StackSize
    BY <1>1, LineSafe DEF PopOps
  <1>4. ScopesKept
    BY <1>1, ScopesUnchanged
  <1>5. StackKept /\ GoodIn(code, envs, Top)
    BY <1>1, <1>3, <1>4, AfterDrop DEF ScopesKept
  <1>6. RegistersKept
    BY <1>1, <1>4, <1>5, RegistersUnchanged DEF RegistersKept, Status
  <1>7. OwnEnvironment' /\ ScanOnPath'
    BY <1>1 DEF Inv, OwnEnvironment, ScanOnPath, Environments
  <1>8. FrameChain'
    <2>1. Len(calls) = 0 /\ fp = StackSize
      BY <1>2, StackFacts DEF Inv, FrameChain
    <2>. QED
      BY <1>1, <1>2, <2>1 DEF FrameChain
  <1>9. DepthKept'
    <2>1. Len(calls) = 0
      BY <1>2, StackFacts
    <2>. QED
      BY <1>1, <1>2, <2>1 DEF DepthKept
  <1>. QED
    BY <1>1, <1>4, <1>5, <1>6, <1>7, <1>8, <1>9, AssembleInv DEF Inv, TypeOK, Functions

(* A line that is undefined changes nothing but the status.                *)
LEMMA StatusStep ==
  ASSUME Inv, status = "run", status' \in Status, status' # "exit",
         UNCHANGED <<code, fn, pc, calls, stack, sp, fp, args, ret, r0, env, benv,
                     envs, printed>>
  PROVE  Inv'
  <1>1. TypeOK' /\ LexicalScope' /\ ClosuresKeepScope'
    BY DEF Inv, TypeOK, LexicalScope, ClosuresKeepScope, Closed, Environments, Functions
  <1>2. OwnEnvironment' /\ ScanOnPath' /\ DepthKept'
    BY DEF Inv, OwnEnvironment, ScanOnPath, DepthKept, Environments, Caller
  <1>3. FrameChain'
    BY DEF Inv, FrameChain, SavedAt, Caller, Environments, Functions
  <1>. QED
    BY <1>1, <1>2, <1>3 DEF Inv

(* A step that changes nothing keeps the invariant.                        *)
LEMMA StutterStep == ASSUME Inv, UNCHANGED vars PROVE Inv'
  <1>1. TypeOK' /\ LexicalScope' /\ ClosuresKeepScope'
    BY DEF Inv, TypeOK, LexicalScope, ClosuresKeepScope, Closed, Environments, Functions, vars
  <1>2. OwnEnvironment' /\ ScanOnPath' /\ DepthKept'
    BY DEF Inv, OwnEnvironment, ScanOnPath, DepthKept, Environments, Caller, vars
  <1>3. FrameChain'
    BY DEF Inv, FrameChain, SavedAt, Caller, Environments, Functions, vars
  <1>. QED
    BY <1>1, <1>2, <1>3 DEF Inv

-----------------------------------------------------------------------------
(* The invariant.                                                          *)

(* initMachine establishes the invariant.                                  *)
LEMMA InvInit == Init => Inv
  <1> SUFFICES ASSUME Init PROVE Inv
    OBVIOUS
  <1>1. WellFormed(code)
    BY LayoutAssumption DEF Init, Boot
  <1>2. /\ StackSize \in Nat \ {0} /\ MaxArgs \in Nat \ {0, 1}
        /\ fn = 1 /\ pc = 1 /\ calls = <<>> /\ Len(calls) = 0 /\ sp = StackSize /\ fp = StackSize
        /\ env = 0 /\ benv = 0 /\ envs = <<>> /\ Len(envs) = 0
        /\ ret = Null /\ r0 = Null /\ status = "run"
    BY MachineAssumption DEF Init, Boot
  <1>3. /\ Len(code) \in Nat \ {0} /\ Len(code[1].body) \in Nat \ {0}
        /\ code[1].depth[1] = 0 /\ code[1].owner[1] = 0 /\ 1 \in Functions
    BY <1>1 DEF WellFormed, Functions
  <1>4. Null \in Word
    BY DEF Word
  <1>5. TypeOK
    <2>1. /\ stack \in [0 .. (StackSize - 1) -> Word]
          /\ args \in [0 .. (MaxArgs - 1) -> Word]
      BY <1>4 DEF Init, Boot
    <2>2. /\ calls \in Seq(CallRecord) /\ envs \in Seq(EnvironmentRecord)
          /\ printed \in Seq(Texts)
      BY DEF Init, Boot
    <2>. QED
      BY <1>2, <1>3, <1>4, <2>1, <2>2 DEF TypeOK, Init, Boot, Status
  <1>6. LexicalScope
    BY <1>2 DEF LexicalScope, Environments
  <1>7. ClosuresKeepScope
    <2>1. Closed(Null)
      BY DEF Closed, ClosedIn, Null
    <2>. QED
      BY <1>2, <2>1 DEF Init, Boot, ClosuresKeepScope, Environments
  <1>8. OwnEnvironment /\ ScanOnPath
    BY <1>2, <1>3 DEF OwnEnvironment, ScanOnPath
  <1>9. FrameChain
    BY <1>2 DEF FrameChain
  <1>10. DepthKept
    BY <1>2, <1>3 DEF DepthKept
  <1>. QED
    BY <1>5, <1>6, <1>7, <1>8, <1>9, <1>10 DEF Inv

(* Every line keeps the invariant.                                         *)
LEMMA InvNext == Inv /\ [Next]_vars => Inv'
  <1> SUFFICES ASSUME Inv, [Next]_vars PROVE Inv'
    OBVIOUS
  <1>1. CASE Environment
    BY <1>1, EnvironmentStep
  <1>2. CASE Enter
    BY <1>2, EnterStep
  <1>3. CASE BindPrimitive
    BY <1>3, BindPrimitiveStep
  <1>4. CASE BindParameter
    BY <1>4, BindParameterStep
  <1>5. CASE PushLiteral
    BY <1>5, PushLiteralStep
  <1>6. CASE ScanFromHere \/ ScanOutwards
    BY <1>6, ScanStep
  <1>7. CASE GetVariable
    BY <1>7, GetVariableStep
  <1>8. CASE SetVariable
    BY <1>8, SetVariableStep
  <1>9. CASE DefineVariable
    BY <1>9, DefineVariableStep
  <1>10. CASE Branch
    BY <1>10, BranchStep
  <1>11. CASE CloseBlock
    BY <1>11, CloseBlockStep
  <1>12. CASE TakeArgument
    BY <1>12, TakeArgumentStep
  <1>13. CASE CallLambda
    BY <1>13, CallLambdaStep
  <1>14. CASE \/ CallIntBinary \/ CallIntUnary \/ CallEqualString
              \/ CallInt2string \/ CallPrint
    BY <1>14, CallPrimitiveSteps
  <1>15. CASE PushResult
    BY <1>15, PushResultStep
  <1>16. CASE Return
    BY <1>16, ReturnStep
  <1>17. CASE Exit
    BY <1>17, ExitStep
  <1>18. CASE Undefined
    <2>1. status = "run" /\ status' \in {"overflow", "word"}
      BY <1>18, FewFaults DEF Undefined
    <2>2. status' \in Status /\ status' # "exit"
      BY <2>1 DEF Status
    <2>. QED
      BY <1>18, <2>1, <2>2, StatusStep DEF Undefined
  <1>19. CASE Halted \/ UNCHANGED vars
    BY <1>19, StutterStep DEF Halted
  <1>. QED
    BY <1>1, <1>2, <1>3, <1>4, <1>5, <1>6, <1>7, <1>8, <1>9, <1>10, <1>11, <1>12,
       <1>13, <1>14, <1>15, <1>16, <1>17, <1>18, <1>19 DEF Next, Step

(* The inductive invariant: types, lexical scope, the chain of frames and  *)
(* the depth of the operands hold together, and only together, for every   *)
(* program with a layout.                                                  *)
THEOREM Invariance == Spec => []Inv
  BY InvInit, InvNext, PTL DEF Spec

(* Every register, stack slot, argument and binding holds a word of the    *)
(* machine, and sp and fp never leave the stack (push, pop, stmfd, ldmfd). *)
THEOREM TypeCorrect == Spec => []TypeOK
  <1>1. Inv => TypeOK
    BY DEF Inv
  <1>. QED
    BY Invariance, <1>1, PTL

(* The environments nest at run time the way the functions nested when     *)
(* they were compiled, so that genScanVariable's walk ends where it should.*)
THEOREM ScopeIsLexical == Spec => []LexicalScope
  <1>1. Inv => LexicalScope
    BY DEF Inv
  <1>. QED
    BY Invariance, <1>1, PTL

(* Every closure carries an environment of the function that built it,     *)
(* however it travels through the stack, args, bindings and ret.           *)
THEOREM ClosuresAreScoped == Spec => []ClosuresKeepScope
  <1>1. Inv => ClosuresKeepScope
    BY DEF Inv
  <1>. QED
    BY Invariance, <1>1, PTL

(* The frames of the active calls are chained through the stack, each with *)
(* its caller's registers where stmfd put them.                            *)
THEOREM FramesAreChained == Spec => []FrameChain
  <1>1. Inv => FrameChain
    BY DEF Inv
  <1>. QED
    BY Invariance, <1>1, PTL

(* Past its head a function runs in an environment of its own, and before  *)
(* it benv is one of its parent: the pointer that genEnvironment stores.   *)
THEOREM EnvironmentsAreOwn == Spec => []OwnEnvironment
  <1>1. Inv => OwnEnvironment
    BY DEF Inv
  <1>. QED
    BY Invariance, <1>1, PTL

(* Wherever a line follows r0, the walk of genScanVariable has come to an  *)
(* environment of the function that the layout says.                       *)
THEOREM ScansStayOnPath == Spec => []ScanOnPath
  <1>1. Inv => ScanOnPath
    BY DEF Inv
  <1>. QED
    BY Invariance, <1>1, PTL

(* A function finds the operands it pops in its own frame, and so will     *)
(* each caller once its call returns.                                      *)
THEOREM OperandsAreThere == Spec => []DepthKept
  <1>1. Inv => DepthKept
    BY DEF Inv
  <1>. QED
    BY Invariance, <1>1, PTL

(* No step of a program with a layout gets there.                          *)
LEMMA NoFrameFaultNext ==
  ASSUME Inv, NoFrameFault, [Next]_vars
  PROVE  NoFrameFault'
  <1>1. CASE status' \in {status, "exit", "arithmetic"}
    BY <1>1 DEF NoFrameFault
  <1>2. CASE Undefined
    <2>1. status' \in {"overflow", "word"}
      BY <1>2, FewFaults DEF Undefined
    <2>. QED
      BY <2>1 DEF NoFrameFault
  <1>3. CASE Step /\ ~Undefined
    <2>1. CASE CallIntBinary
      BY <2>1, <1>1 DEF CallIntBinary
    <2>2. CASE Exit
      BY <2>2, <1>1 DEF Exit
    <2>3. CASE ~CallIntBinary /\ ~Exit
      <3>1. status' = status
        BY <1>3, <2>3
        DEF Step, Environment, Enter, BindPrimitive, BindParameter, PushLiteral,
            ScanFromHere, ScanOutwards, GetVariable, SetVariable, DefineVariable,
            Branch, CloseBlock, TakeArgument, CallLambda, CallIntUnary,
            CallEqualString, CallInt2string, CallPrint, PushResult, Return
      <3>. QED
        BY <3>1, <1>1
    <2>. QED
      BY <2>1, <2>2, <2>3
  <1>4. CASE Halted \/ UNCHANGED vars
    BY <1>4, <1>1 DEF Halted, vars
  <1>. QED
    BY <1>2, <1>3, <1>4 DEF Next

(* pop never runs past the bottom of the stack, ldmfd never takes another  *)
(* word for a saved register, and no line follows a NULL environment or    *)
(* indexes past a binding or argument array.                               *)
THEOREM NoFaultOfFrames == Spec => []NoFrameFault
  <1>1. Init => NoFrameFault
    BY DEF Init, Boot, NoFrameFault
  <1>. QED
    BY Invariance, NoFrameFaultNext, <1>1, PTL DEF Spec

-----------------------------------------------------------------------------
(* The action properties.                                                  *)

(* A return gives back what stmfd saved.                                   *)
LEMMA ShorterCalls ==
  ASSUME Inv, [Next]_vars, Len(calls') < Len(calls)
  PROVE  fp' = Caller.fp /\ env' = Caller.env /\ sp' = Caller.sp
  <1>1. CASE Return
    BY <1>1, Restored
  <1>2. CASE CallLambda
    <2>1. \E K : calls' = Append(calls, K)
      BY <1>2 DEF CallLambda
    <2>2. calls \in Seq(CallRecord) /\ Len(calls) \in Nat
      BY StackFacts DEF Inv, TypeOK
    <2>3. Len(calls') = Len(calls) + 1
      BY <2>1, <2>2
    <2>. QED
      BY <2>2, <2>3
  <1>3. CASE ~Return /\ ~CallLambda
    <2>1. calls' = calls
      BY <1>3
      DEF Next, Step, Environment, Enter, BindPrimitive, BindParameter, PushLiteral,
          ScanFromHere, ScanOutwards, GetVariable, SetVariable, DefineVariable,
          Branch, CloseBlock, TakeArgument, CallPrimitive, CallIntBinary,
          CallIntUnary, CallEqualString, CallInt2string, CallPrint, PushResult,
          Exit, Undefined, Halted, Advance, Goto, vars
    <2>2. Len(calls) \in Nat
      BY StackFacts
    <2>. QED
      BY <2>1, <2>2
  <1>. QED
    BY <1>1, <1>2, <1>3

(* Only a return takes a call off the C stack, and it gives back what      *)
(* stmfd saved: the caller's fp and env, and sp as it was at the call.     *)
THEOREM ReturnRestores == Spec => ReturnRestoresCaller
  <1>1. Inv /\ [Next]_vars =>
          [Len(calls') < Len(calls) =>
             fp' = Caller.fp /\ env' = Caller.env /\ sp' = Caller.sp]_vars
    BY ShorterCalls
  <1>. QED
    BY Invariance, <1>1, PTL DEF Spec, ReturnRestoresCaller

(* A step writes to the stack below fp only: a push goes below the current *)
(* frame's operands and stmfd right below the caller's.                    *)
LEMMA DeeperStack ==
  ASSUME Inv, [Next]_vars
  PROVE  \A i \in fp .. (StackSize - 1) : stack'[i] = stack[i]
  <1>1. stack \in [0 .. (StackSize - 1) -> Word]
    BY DEF Inv, TypeOK
  <1>2. ASSUME NEW w, Push(w), status = "run", Faults = {}, Line.op \in PushOps
        PROVE  \A i \in fp .. (StackSize - 1) : stack'[i] = stack[i]
    <2>1. pc > 1 /\ sp >= 1
      BY <1>2, PastHead, NoFault DEF PushOps
    <2>2. sp \in Nat /\ fp \in Nat /\ StackSize \in Nat /\ sp <= fp
      BY <1>2, <2>1, InFrame
    <2>. QED
      BY <1>1, <1>2, <2>1, <2>2 DEF Push
  <1>3. CASE PushLiteral
    BY <1>2, <1>3 DEF PushLiteral, At, PushOps
  <1>4. CASE GetVariable
    BY <1>2, <1>4 DEF GetVariable, At, PushOps
  <1>5. CASE PushResult
    BY <1>2, <1>5 DEF PushResult, At, PushOps
  <1>6. CASE Enter
    <2>1. /\ fn # 1 /\ pc = 1 /\ sp >= 2
          /\ stack' = [stack EXCEPT ![sp - 1] = EnvWord(env), ![sp - 2] = FpWord(fp)]
      BY <1>6, NoFault, LineFacts DEF Enter, At, SavedFp, OperandsOK, Line, Body
    <2>2. sp = Caller.sp /\ fp = Caller.fp /\ Len(calls) \in 1 .. Len(calls)
      BY <2>1, StackFacts DEF Inv, DepthKept
    <2>3. sp \in Nat /\ fp \in Nat /\ StackSize \in Nat /\ sp <= fp
      BY <2>2, StackFacts DEF Caller
    <2>. QED
      BY <1>1, <2>1, <2>3
  <1>7. CASE ~PushLiteral /\ ~GetVariable /\ ~PushResult /\ ~Enter
    <2>1. stack' = stack
      BY <1>7
      DEF Next, Step, Environment, BindPrimitive, BindParameter, ScanFromHere,
          ScanOutwards, SetVariable, DefineVariable, Branch, CloseBlock,
          TakeArgument, CallLambda, CallPrimitive, CallIntBinary, CallIntUnary,
          CallEqualString, CallInt2string, CallPrint, Return, Exit, Undefined,
          Halted, KeepStack, Drop, vars
    <2>. QED
      BY <2>1
  <1>. QED
    BY <1>3, <1>4, <1>5, <1>6, <1>7

(* No step of a function touches what its callers have on the stack.       *)
THEOREM CallersAreUntouched == Spec => CallersUntouched
  <1>1. Inv /\ [Next]_vars =>
          [\A i \in fp .. (StackSize - 1) : stack'[i] = stack[i]]_vars
    BY DeeperStack
  <1>. QED
    BY Invariance, <1>1, PTL DEF Spec, CallersUntouched

-----------------------------------------------------------------------------
(* What the primitive procedures compute.                                  *)

(* A step at a call of a primitive is that call, or stops for a word that  *)
(* the primitive cannot read.                                              *)
LEMMA PrimitiveCalled ==
  ASSUME Inv, Next, NEW p \in Primitives, Calls(p)
  PROVE  /\ args[0] \in Word /\ args[1] \in Word
         /\ IF Readable(p, args)
            THEN /\ p \in IntBinary =>
                      \E a \in Contents(args[0]), b \in Contents(args[1]) :
                        IF DivTraps(p, a, b)
                        THEN status' = "arithmetic"
                        ELSE status' = "run" /\ ret' = IntObj(Apply(p, a, b))
                 /\ p \in IntUnary =>
                      \E a \in Contents(args[0]) :
                        status' = "run" /\ ret' = IntObj(Flag(a = 0))
                 /\ p = "pEqualString" =>
                      status' = "run" /\ ret' = IntObj(Flag(args[0].s = args[1].s))
                 /\ p = "pInt2string" =>
                      \E a \in Contents(args[0]) :
                        status' = "run" /\ ret' = StrObj(Decimal(a))
            ELSE status' = "word"
  <1>1. args[0] \in Word /\ args[1] \in Word
    BY MachineAssumption DEF Inv, TypeOK
  <1>2. /\ status = "run" /\ Line.op = "call" /\ sp < StackSize
        /\ Top.t = "prim" /\ Top.p = p
    BY DEF Calls
  <1>3. BadWord <=> ~Readable(p, args)
    BY <1>2, Zenon DEF BadWord, IsProcedure, Top
  <1>4. Faults \subseteq {"word"} /\ (Faults = {} <=> ~BadWord)
    <2>1. Faults \subseteq {"overflow", "word"}
      BY <1>2, FewFaults
    <2>2. ~Overflows
      BY <1>2 DEF Overflows, PushOps
    <2>3. "overflow" \notin Faults
      BY <2>2 DEF Faults
    <2>4. "word" \in Faults <=> BadWord
      BY DEF Faults
    <2>. QED
      BY <2>1, <2>3, <2>4
  <1>5. \/ CallIntBinary \/ CallIntUnary \/ CallEqualString
        \/ CallInt2string \/ CallPrint \/ Undefined
    BY <1>2
    DEF Next, Step, Halted, At, Environment, Enter, BindPrimitive, BindParameter,
        PushLiteral, ScanFromHere, ScanOutwards, GetVariable, SetVariable,
        DefineVariable, Branch, CloseBlock, TakeArgument, CallLambda, PushResult,
        Return, Exit
  <1>6. CASE Readable(p, args)
    <2>1. Faults = {} /\ ~Undefined
      BY <1>3, <1>4, <1>6 DEF Undefined
    <2>2. p \in IntBinary => CallIntBinary
      BY <1>2, <1>5, <2>1
      DEF CallIntUnary, CallEqualString, CallInt2string, CallPrint, CallPrimitive,
          IntBinary, IntUnary
    <2>3. p \in IntUnary => CallIntUnary
      BY <1>2, <1>5, <2>1
      DEF CallIntBinary, CallEqualString, CallInt2string, CallPrint, CallPrimitive,
          IntBinary, IntUnary
    <2>4. p = "pEqualString" => CallEqualString
      BY <1>2, <1>5, <2>1
      DEF CallIntBinary, CallIntUnary, CallInt2string, CallPrint, CallPrimitive,
          IntBinary, IntUnary
    <2>5. p = "pInt2string" => CallInt2string
      BY <1>2, <1>5, <2>1
      DEF CallIntBinary, CallIntUnary, CallEqualString, CallPrint, CallPrimitive,
          IntBinary, IntUnary
    <2>6. p \in IntBinary =>
            \E a \in Contents(args[0]), b \in Contents(args[1]) :
              IF DivTraps(p, a, b)
              THEN status' = "arithmetic"
              ELSE status' = "run" /\ ret' = IntObj(Apply(p, a, b))
      BY <1>2, <2>2 DEF CallIntBinary
    <2>7. p \in IntUnary =>
            \E a \in Contents(args[0]) : status' = "run" /\ ret' = IntObj(Flag(a = 0))
      BY <1>2, <2>3 DEF CallIntUnary
    <2>8. p = "pEqualString" =>
            status' = "run" /\ ret' = IntObj(Flag(args[0].s = args[1].s))
      BY <1>2, <2>4 DEF CallEqualString
    <2>9. p = "pInt2string" =>
            \E a \in Contents(args[0]) : status' = "run" /\ ret' = StrObj(Decimal(a))
      BY <1>2, <2>5 DEF CallInt2string
    <2>. QED
      BY <1>1, <1>6, <2>6, <2>7, <2>8, <2>9
  <1>7. CASE ~Readable(p, args)
    <2>1. Faults # {}
      BY <1>3, <1>4, <1>7
    <2>2. Undefined
      BY <1>5, <2>1
      DEF At, CallIntBinary, CallIntUnary, CallEqualString, CallInt2string, CallPrint,
          CallPrimitive
    <2>. QED
      BY <1>1, <1>4, <1>7, <2>2 DEF Undefined
  <1>. QED
    BY <1>6, <1>7

(* What opAdd to opAnd compute is what characterises it.                   *)
LEMMA ApplyIsExact ==
  ASSUME NEW p \in IntBinary, NEW a \in LongLong, NEW b \in LongLong,
         IF DivTraps(p, a, b)
         THEN status' = "arithmetic"
         ELSE status' = "run" /\ ret' = IntObj(Apply(p, a, b))
  PROVE  ExactOfTwo(p, a, b)
  <1>1. a \in Int /\ b \in Int /\ IntMax \in Nat \ {0}
    BY MachineAssumption DEF LongLong, IntMin
  <1> DEFINE traps == b = 0 \/ <<a, b>> = <<IntMin, -1>>
  <1>2. CASE p \in {"pDiv", "pRemainder"} /\ traps
    <2>1. DivTraps(p, a, b)
      BY <1>2 DEF DivTraps
    <2>. QED
      BY <1>2, <2>1 DEF ExactOfTwo
  <1>3. CASE p \in {"pDiv", "pRemainder"} /\ ~traps
    <2>1. b # 0 /\ ~(a = IntMin /\ b = -1) /\ ~DivTraps(p, a, b)
      BY <1>3 DEF DivTraps
    <2>2. PICK q, r : q = Quotient(a, b) /\ r = Remainder(a, b)
      OBVIOUS
    <2>3. q \in LongLong /\ r \in LongLong /\ Divides(a, b, q, r)
      BY <2>1, <2>2, QuotientInRange
    <2>4. Gives(IF p = "pDiv" THEN q ELSE r)
      BY <1>3, <2>1, <2>2 DEF Gives, Apply
    <2>. QED
      BY <1>3, <2>3, <2>4 DEF ExactOfTwo
  <1>4. CASE p \in {"pAdd", "pSub", "pMul"}
    <2>1. ~DivTraps(p, a, b)
      BY <1>4 DEF DivTraps
    <2>2. ASSUME NEW n \in Int, ret' = IntObj(Wrap(n))  PROVE GivesNear(n)
      BY <2>1, <2>2, WrapInRange, WrapIsNear DEF GivesNear, IntObj
    <2>3. a + b \in Int /\ a - b \in Int /\ a * b \in Int
      BY <1>1
    <2>4. /\ p = "pAdd" => GivesNear(a + b)
          /\ p = "pSub" => GivesNear(a - b)
          /\ p = "pMul" => GivesNear(a * b)
      BY <2>1, <2>2, <2>3 DEF Apply
    <2>. QED
      BY <1>4, <2>4 DEF ExactOfTwo
  <1>5. CASE p \notin {"pDiv", "pRemainder", "pAdd", "pSub", "pMul"}
    <2>1. ~DivTraps(p, a, b) /\ Gives(Apply(p, a, b))
      BY <1>5 DEF DivTraps, Gives
    <2>2. /\ p = "pEqual"        => Apply(p, a, b) = Flag(a = b)
          /\ p = "pGreater"      => Apply(p, a, b) = Flag(~(a <= b))
          /\ p = "pGreaterEqual" => Apply(p, a, b) = Flag(~(a < b))
          /\ p = "pLess"         => Apply(p, a, b) = Flag(b > a)
          /\ p = "pLessEqual"    => Apply(p, a, b) = Flag(b >= a)
          /\ p = "pOr"           => Apply(p, a, b) = Flag({a, b} # {0})
          /\ p = "pAnd"          => Apply(p, a, b) = Flag(0 \notin {a, b})
      <3>1. /\ (a > b) = (~(a <= b)) /\ (a >= b) = (~(a < b))
            /\ (a < b) = (b > a) /\ (a <= b) = (b >= a)
            /\ (a # 0 \/ b # 0) = ({a, b} # {0})
            /\ (a # 0 /\ b # 0) = (0 \notin {a, b})
        BY <1>1
      <3>. QED
        BY <3>1 DEF Apply, Flag
    <2>3. /\ p = "pEqual"        => Tells(a = b)
          /\ p = "pGreater"      => Tells(~(a <= b))
          /\ p = "pGreaterEqual" => Tells(~(a < b))
          /\ p = "pLess"         => Tells(b > a)
          /\ p = "pLessEqual"    => Tells(b >= a)
          /\ p = "pOr"           => Tells({a, b} # {0})
          /\ p = "pAnd"          => Tells(0 \notin {a, b})
      BY <2>1, <2>2 DEF Tells, Flag
    <2>. QED
      BY <1>5, <2>3 DEF ExactOfTwo
  <1>. QED
    BY <1>2, <1>3, <1>4, <1>5

(* The primitives compute what the integers promise, in every program.     *)
THEOREM PrimitivesAreExact == Spec => PrimitivesExact
  <1> DEFINE A == \A p \in Primitives :
                    Calls(p) /\ args[0].t = "int" =>
                      /\ ExactOfOne(p, args[0].n)
                      /\ args[1].t = "int" => ExactOfTwo(p, args[0].n, args[1].n)
  <1>1. Inv /\ [Next]_vars => [A]_vars
    <2> SUFFICES ASSUME Inv, Next, NEW p \in Primitives, Calls(p), args[0].t = "int"
                 PROVE  /\ ExactOfOne(p, args[0].n)
                        /\ args[1].t = "int" => ExactOfTwo(p, args[0].n, args[1].n)
      OBVIOUS
    <2>1. PICK a, v, w : a = args[0].n /\ v = args[0] /\ w = args[1]
      OBVIOUS
    <2>2. v \in Word /\ w \in Word /\ v.t = "int" /\ v.n = a
      BY <2>1, PrimitiveCalled
    <2>3. /\ a \in LongLong /\ Contents(v) = {a} /\ IsObject(v)
          /\ w.t = "int" => w.n \in LongLong /\ Contents(w) = {w.n} /\ IsObject(w)
      BY <2>2, ContentsInRange DEF Contents, IsObject
    <2>4. ExactOfOne(p, a)
      <3>1. CASE p \in IntUnary
        <4>1. Readable(p, args)
          BY <2>1, <2>3, <3>1 DEF Readable, IntBinary, IntUnary
        <4>2. status' = "run" /\ ret' = IntObj(Flag(a = 0))
          BY <2>1, <2>3, <3>1, <4>1, PrimitiveCalled
        <4>3. Tells(a = 0)
          BY <4>2 DEF Tells, Gives, Flag
        <4>. QED
          BY <3>1, <4>3 DEF ExactOfOne, IntUnary
      <3>2. CASE p = "pInt2string"
        <4>1. Readable(p, args)
          BY <2>1, <2>3, <3>2 DEF Readable, IntBinary, IntUnary
        <4>2. status' = "run" /\ ret' = StrObj(Decimal(a))
          BY <2>1, <2>3, <3>2, <4>1, PrimitiveCalled
        <4>. QED
          BY <3>2, <4>2 DEF ExactOfOne, IntUnary
      <3>3. CASE p \in {"pPrint", "pEqualString"}
        <4>1. ~Readable(p, args)
          BY <2>1, <2>2, <3>3 DEF Readable, IntBinary, IntUnary
        <4>2. status' = "word"
          BY <4>1, PrimitiveCalled
        <4>. QED
          BY <3>3, <4>2 DEF ExactOfOne, IntUnary
      <3>4. CASE p \in IntBinary
        BY <3>4 DEF ExactOfOne, IntBinary, IntUnary
      <3>. QED
        BY <3>1, <3>2, <3>3, <3>4 DEF Primitives
    <2>5. ASSUME w.t = "int"  PROVE ExactOfTwo(p, a, w.n)
      <3>1. CASE p \in IntBinary
        <4>1. Readable(p, args)
          <5>1. IsObject(args[0]) /\ IsObject(args[1])
            BY <2>1, <2>3, <2>5
          <5>. QED
            BY <3>1, <5>1 DEF Readable, IntBinary, IntUnary
        <4>2. IF DivTraps(p, a, w.n)
              THEN status' = "arithmetic"
              ELSE status' = "run" /\ ret' = IntObj(Apply(p, a, w.n))
          BY <2>1, <2>3, <2>5, <3>1, <4>1, PrimitiveCalled
        <4>. QED
          BY <2>3, <2>5, <3>1, <4>2, ApplyIsExact
      <3>2. CASE p \notin IntBinary
        BY <3>2 DEF ExactOfTwo, IntBinary
      <3>. QED
        BY <3>1, <3>2
    <2>. QED
      BY <2>1, <2>4, <2>5
  <1>. QED
    BY Invariance, <1>1, PTL DEF Spec, PrimitivesExact

(* Nothing carries its type at run time, but the address that an object    *)
(* starts with is never 0: only the number 0 is false, in every program.   *)
THEOREM OnlyZeroIsFalse == Spec => ObjectsAreTrue
  <1> DEFINE A == \A p \in Primitives :
                    Calls(p) /\ IsObject(args[0]) =>
                      /\ p \in IntUnary => Tells(~Truthy(args[0]))
                      /\ IsObject(args[1]) =>
                           /\ p = "pOr"  => Tells(Truthy(args[0]) \/ Truthy(args[1]))
                           /\ p = "pAnd" => Tells(Truthy(args[0]) /\ Truthy(args[1]))
                           /\ p = "pEqualString" =>
                                IF args[0].t = "str" /\ args[1].t = "str"
                                THEN Tells(args[0].s = args[1].s)
                                ELSE status' = "word"
  <1>1. Inv /\ [Next]_vars => [A]_vars
    <2> SUFFICES ASSUME Inv, Next, NEW p \in Primitives, Calls(p), IsObject(args[0])
                 PROVE  /\ p \in IntUnary => Tells(~Truthy(args[0]))
                        /\ IsObject(args[1]) =>
                             /\ p = "pOr"  => Tells(Truthy(args[0]) \/ Truthy(args[1]))
                             /\ p = "pAnd" => Tells(Truthy(args[0]) /\ Truthy(args[1]))
                             /\ p = "pEqualString" =>
                                  IF args[0].t = "str" /\ args[1].t = "str"
                                  THEN Tells(args[0].s = args[1].s)
                                  ELSE status' = "word"
      OBVIOUS
    <2>1. PICK v, w : v = args[0] /\ w = args[1]
      OBVIOUS
    <2>2. v \in Word /\ w \in Word /\ IsObject(v)
      BY <2>1, PrimitiveCalled
    <2>3. ASSUME NEW u \in Word, IsObject(u)
          PROVE  \A a \in Contents(u) : (a = 0) = (~Truthy(u))
      <3>1. CASE u.t = "int"
        <4>1. u \in [t : {"int"}, n : LongLong]
          BY <2>3, <3>1 DEF Word, Null, Unset
        <4>2. u = IntObj(u.n)
          BY <4>1 DEF IntObj
        <4>3. Contents(u) = {u.n}
          BY <3>1 DEF Contents
        <4>4. u = IntObj(0) <=> u.n = 0
          BY <4>2 DEF IntObj
        <4>. QED
          BY <4>3, <4>4 DEF Truthy
      <3>2. CASE u.t # "int"
        <4>1. u # IntObj(0)
          BY <3>2 DEF IntObj
        <4>2. Contents(u) = Addresses /\ 0 \notin Addresses
          BY <3>2, MachineAssumption DEF Contents
        <4>. QED
          BY <4>1, <4>2 DEF Truthy
      <3>. QED
        BY <3>1, <3>2
    <2>4. ASSUME NEW c \in BOOLEAN, status' = "run", ret' = IntObj(Flag(c))  PROVE Tells(c)
      BY <2>4 DEF Tells, Gives, Flag
    <2>5. ASSUME p \in IntUnary  PROVE Tells(~Truthy(v))
      <3>1. Readable(p, args)
        BY <2>1, <2>2, <2>5 DEF Readable, IntBinary, IntUnary
      <3>2. PICK a \in Contents(v) : status' = "run" /\ ret' = IntObj(Flag(a = 0))
        BY <2>1, <2>5, <3>1, PrimitiveCalled
      <3>3. (a = 0) = (~Truthy(v)) /\ (a = 0) \in BOOLEAN
        BY <2>2, <2>3
      <3>4. Tells(a = 0)
        BY <2>4, <3>2, <3>3
      <3>. QED
        BY <3>3, <3>4
    <2>6. ASSUME p \in {"pOr", "pAnd"}, IsObject(w)
          PROVE  /\ p = "pOr"  => Tells(Truthy(v) \/ Truthy(w))
                 /\ p = "pAnd" => Tells(Truthy(v) /\ Truthy(w))
      <3>1. p \in IntBinary
        BY <2>6 DEF IntBinary
      <3>2. Readable(p, args)
        BY <2>1, <2>2, <2>6, <3>1 DEF Readable
      <3>3. PICK a \in Contents(v), b \in Contents(w) :
              IF DivTraps(p, a, b)
              THEN status' = "arithmetic"
              ELSE status' = "run" /\ ret' = IntObj(Apply(p, a, b))
        BY <2>1, <3>1, <3>2, PrimitiveCalled
      <3>4. ~DivTraps(p, a, b)
        BY <2>6 DEF DivTraps
      <3>5. (a = 0) = (~Truthy(v)) /\ (b = 0) = (~Truthy(w))
        BY <2>2, <2>3, <2>6
      <3>6. /\ p = "pOr"  => Apply(p, a, b) = Flag(Truthy(v) \/ Truthy(w))
            /\ p = "pAnd" => Apply(p, a, b) = Flag(Truthy(v) /\ Truthy(w))
        BY <3>5 DEF Apply, Flag
      <3>7. (Truthy(v) \/ Truthy(w)) \in BOOLEAN /\ (Truthy(v) /\ Truthy(w)) \in BOOLEAN
        BY DEF Truthy
      <3>. QED
        BY <2>4, <3>3, <3>4, <3>6, <3>7
    <2>7. ASSUME p = "pEqualString"
          PROVE  IF v.t = "str" /\ w.t = "str" THEN Tells(v.s = w.s) ELSE status' = "word"
      <3>1. Readable(p, args) <=> v.t = "str" /\ w.t = "str"
        BY <2>1, <2>7 DEF Readable, IntBinary, IntUnary
      <3>2. Readable(p, args) => status' = "run" /\ ret' = IntObj(Flag(v.s = w.s))
        BY <2>1, <2>7, PrimitiveCalled
      <3>3. ~Readable(p, args) => status' = "word"
        BY PrimitiveCalled
      <3>. QED
        BY <2>4, <3>1, <3>2, <3>3
    <2>. QED
      BY <2>1, <2>5, <2>6, <2>7
  <1>. QED
    BY Invariance, <1>1, PTL DEF Spec, ObjectsAreTrue

-----------------------------------------------------------------------------
(* Cutting operands out of the stack.                                      *)

(* A cut is a sequence of as many words as lie between its ends.           *)
LEMMA CutIsSequence ==
  ASSUME NEW s, NEW lo \in Nat, NEW hi \in Nat, lo <= hi,
         \A j \in lo .. (hi - 1) : s[j] \in Word
  PROVE  /\ Cut(s, lo, hi) \in Seq(Word)
         /\ Len(Cut(s, lo, hi)) = hi - lo
         /\ \A i \in 1 .. (hi - lo) : Cut(s, lo, hi)[i] = s[hi - i]
  <1>0. \A i \in 1 .. (hi - lo) : hi - i \in lo .. (hi - 1)
    OBVIOUS
  <1>1. hi - lo \in Nat /\ \A i \in 1 .. (hi - lo) : s[hi - i] \in Word
    BY <1>0
  <1>2. Cut(s, lo, hi) \in [1 .. (hi - lo) -> Word]
    BY <1>1 DEF Cut
  <1>3. Cut(s, lo, hi) \in Seq(Word)
    BY <1>1, <1>2, SeqDef
  <1>4. Len(Cut(s, lo, hi)) = hi - lo
    BY <1>1, <1>2, <1>3, LenProperties
  <1>. QED
    BY <1>3, <1>4 DEF Cut

(* Only the words between its ends matter for a cut.                       *)
LEMMA CutSame ==
  ASSUME NEW s, NEW t, NEW lo \in Nat, NEW hi \in Nat,
         \A i \in lo .. (hi - 1) : s[i] = t[i]
  PROVE  Cut(s, lo, hi) = Cut(t, lo, hi)
  <1>1. \A i \in 1 .. (hi - lo) : hi - i \in lo .. (hi - 1)
    OBVIOUS
  <1>2. \A i \in 1 .. (hi - lo) : s[hi - i] = t[hi - i]
    BY <1>1
  <1>. QED
    BY <1>2 DEF Cut

(* push adds a word to the operands.                                       *)
LEMMA CutPush ==
  ASSUME NEW s, NEW w \in Word, NEW lo \in Nat, NEW hi \in Nat, lo >= 1, lo <= hi,
         hi <= StackSize, StackSize \in Nat, s \in [0 .. (StackSize - 1) -> Word]
  PROVE  Cut([s EXCEPT ![lo - 1] = w], lo - 1, hi) = Append(Cut(s, lo, hi), w)
  <1> DEFINE t == [s EXCEPT ![lo - 1] = w]
             below == lo - 1
             c == Cut(s, lo, hi)
             a == Cut(t, below, hi)
             b == Append(c, w)
  <1>1. /\ below \in Nat /\ below <= hi
        /\ \A j \in below .. (hi - 1) : t[j] \in Word
        /\ \A j \in lo .. (hi - 1) : s[j] \in Word
    OBVIOUS
  <1>2. t[lo - 1] = w /\ \A i \in lo .. (StackSize - 1) : t[i] = s[i]
    OBVIOUS
  <1>3. below = lo - 1
    OBVIOUS
  <1> HIDE DEF t, below
  <1>4. a \in Seq(Word) /\ Len(a) = hi - below /\ \A i \in 1 .. (hi - below) : a[i] = t[hi - i]
    BY <1>1, CutIsSequence
  <1>5. c \in Seq(Word) /\ Len(c) = hi - lo /\ \A i \in 1 .. (hi - lo) : c[i] = s[hi - i]
    BY <1>1, CutIsSequence
  <1> HIDE DEF a, c
  <1>6. /\ b \in Seq(Word) /\ Len(b) = Len(c) + 1
        /\ \A i \in 1 .. Len(c) : b[i] = c[i]
        /\ b[Len(c) + 1] = w
    <2>1. c \in Seq(Word)
      BY <1>5
    <2>. QED
      BY ONLY <2>1, w \in Word, AppendProperties
  <1> HIDE DEF b
  <1>7. Len(a) = Len(b)
    BY <1>3, <1>4, <1>5, <1>6
  <1>8. ASSUME NEW i \in 1 .. Len(a) PROVE a[i] = b[i]
    <2>1. CASE i = Len(c) + 1
      <3>1. hi - i = lo - 1 /\ i \in 1 .. (hi - below)
        BY <2>1, <1>3, <1>4, <1>5
      <3>. QED
        BY <2>1, <3>1, <1>2, <1>4, <1>6
    <2>2. CASE i # Len(c) + 1
      <3>1. i \in 1 .. (hi - below) /\ i \in 1 .. (hi - lo) /\ hi - i \in lo .. (StackSize - 1)
        BY <2>2, <1>3, <1>4, <1>5
      <3>. QED
        BY <3>1, <1>2, <1>4, <1>5, <1>6
    <2>. QED
      BY <2>1, <2>2
  <1>9. a = b
    BY <1>4, <1>6, <1>7, <1>8, SeqEqual
  <1>. QED
    BY <1>9 DEF a, b, c, t, below

(* pop: the word at the lower end is the last operand.                     *)
LEMMA CutDrop ==
  ASSUME NEW N \in Nat, NEW s \in [0 .. (N - 1) -> Word],
         NEW lo \in Nat, NEW hi \in Nat, lo < hi, hi <= N
  PROVE  LET c == Cut(s, lo, hi) IN
         /\ Len(c) = hi - lo
         /\ c[Len(c)] = s[lo]
         /\ SubSeq(c, 1, Len(c) - 1) = Cut(s, lo + 1, hi)
  <1> DEFINE above == lo + 1
             c == Cut(s, lo, hi)
             a == SubSeq(c, 1, Len(c) - 1)
             b == Cut(s, above, hi)
  <1>0. lo <= hi /\ \A j \in lo .. (hi - 1) : s[j] \in Word
    OBVIOUS
  <1>1. /\ above \in Nat /\ above <= hi /\ above = lo + 1
        /\ \A j \in above .. (hi - 1) : s[j] \in Word
    OBVIOUS
  <1> HIDE DEF above
  <1>2. c \in Seq(Word) /\ Len(c) = hi - lo /\ \A i \in 1 .. (hi - lo) : c[i] = s[hi - i]
    BY ONLY lo \in Nat, hi \in Nat, <1>0, CutIsSequence
  <1>3. b \in Seq(Word) /\ Len(b) = hi - above /\ \A i \in 1 .. (hi - above) : b[i] = s[hi - i]
    BY ONLY hi \in Nat, <1>1, CutIsSequence
  <1> HIDE DEF c, b
  <1>4. a \in Seq(Word) /\ Len(a) = Len(c) - 1 /\ \A i \in 1 .. (Len(c) - 1) : a[i] = c[i]
    <2> DEFINE n == Len(c) - 1
    <2>1. n \in Nat /\ \A i \in 1 .. n : c[i] \in Word
      <3>1. n \in Nat /\ \A i \in 1 .. n : i \in 1 .. Len(c)
        BY <1>2
      <3>. QED
        BY <1>2, <3>1, LenProperties
    <2> HIDE DEF n
    <2>2. /\ SubSeq(c, 1, n) \in Seq(Word)
          /\ Len(SubSeq(c, 1, n)) = IF 1 <= n THEN n - 1 + 1 ELSE 0
          /\ \A i \in 1 .. n - 1 + 1 : SubSeq(c, 1, n)[i] = c[1 + i - 1]
      BY <2>1, SubSeqProperties
    <2>3. Len(SubSeq(c, 1, n)) = n /\ \A i \in 1 .. n : SubSeq(c, 1, n)[i] = c[i]
      BY <2>1, <2>2
    <2>. QED
      BY <2>2, <2>3 DEF n
  <1> HIDE DEF a
  <1>5. Len(a) = Len(b) /\ \A i \in 1 .. Len(a) : a[i] = b[i]
    <2>1. Len(a) = Len(b)
      BY <1>1, <1>2, <1>3, <1>4
    <2>2. \A i \in 1 .. Len(a) : i \in 1 .. (Len(c) - 1) /\ i \in 1 .. (hi - lo) /\ i \in 1 .. (hi - above)
      BY <1>1, <1>2, <1>4
    <2>. QED
      BY <2>1, <2>2, <1>2, <1>3, <1>4
  <1>6. a = b
    BY <1>3, <1>4, <1>5, SeqEqual
  <1>7. c[Len(c)] = s[lo] /\ Len(c) = hi - lo
    BY <1>0, <1>2
  <1>. QED
    BY <1>1, <1>6, <1>7 DEF a, b, c

-----------------------------------------------------------------------------
(* The activations that the frames stand for.                              *)

(* Exchanging the last element of a sequence.                              *)
LEMMA LastReplaced ==
  ASSUME NEW S, NEW q \in Seq(S), NEW a \in S, NEW b \in S
  PROVE  [Append(q, a) EXCEPT ![Len(Append(q, a))] = b] = Append(q, b)
  <1> DEFINE u == Append(q, a)
             v == Append(q, b)
             w == [u EXCEPT ![Len(u)] = b]
  <1>1. /\ u \in Seq(S) /\ Len(u) = Len(q) + 1
        /\ \A i \in 1 .. Len(q) : u[i] = q[i]
    BY AppendProperties
  <1>2. /\ v \in Seq(S) /\ Len(v) = Len(q) + 1
        /\ \A i \in 1 .. Len(q) : v[i] = q[i]
        /\ v[Len(q) + 1] = b
    BY AppendProperties
  <1>3. Len(q) \in Nat
    BY LenProperties
  <1> HIDE DEF u, v
  <1>4. u \in [1 .. (Len(q) + 1) -> S] /\ v \in [1 .. (Len(q) + 1) -> S]
    BY <1>1, <1>2, LenProperties
  <1>5. w \in [1 .. (Len(q) + 1) -> S]
    BY <1>1, <1>4
  <1>6. ASSUME NEW i \in 1 .. (Len(q) + 1) PROVE w[i] = v[i]
    <2>1. CASE i = Len(q) + 1
      BY <2>1, <1>1, <1>2, <1>4
    <2>2. CASE i # Len(q) + 1
      BY <2>2, <1>1, <1>2, <1>3, <1>4
    <2>. QED
      BY <2>1, <2>2
  <1>7. w = v
    BY <1>4, <1>5, <1>6
  <1>. QED
    BY <1>7 DEF u, v, w

(* The activations are built from the same words and the same text.        *)
LEMMA SameWords ==
  /\ Abstract!Null = Null
  /\ \A n : Abstract!IntObj(n) = IntObj(n)
  /\ \A t : Abstract!StrObj(t) = StrObj(t)
  /\ \A f, e : Abstract!ProcObj(f, e) = ProcObj(f, e)
  /\ \A p, e : Abstract!PrimObj(p, e) = PrimObj(p, e)
  /\ \A e : Abstract!EnvWord(e) = EnvWord(e)
  /\ \A w : Abstract!IsObject(w) = IsObject(w)
  /\ \A w : Abstract!IsProcedure(w) = IsProcedure(w)
  /\ \A w : Abstract!Contents(w) = Contents(w)
  /\ \A f, i, e, o : Abstract!Activation(f, i, e, o) = Active(f, i, e, o)
  BY DEF Abstract!Null, Null, Abstract!IntObj, IntObj, Abstract!StrObj, StrObj,
         Abstract!ProcObj, ProcObj, Abstract!PrimObj, PrimObj, Abstract!EnvWord, EnvWord,
         Abstract!IsObject, IsObject, Abstract!IsProcedure, IsProcedure,
         Abstract!Contents, Contents, Abstract!Activation, Active

(* ... and compute the same, and go on at the same lines.                  *)
LEMMA SameCode ==
  /\ Abstract!IntBinary = IntBinary /\ Abstract!IntUnary = IntUnary
  /\ Abstract!PushOps = PushOps
  /\ \A p, as : Abstract!Readable(p, as) = Readable(p, as)
  /\ \A b : Abstract!Flag(b) = Flag(b)
  /\ \A p, a, b : Abstract!Apply(p, a, b) = Apply(p, a, b)
  /\ \A p, a, b : Abstract!DivTraps(p, a, b) = DivTraps(p, a, b)
  /\ \A b, i : Abstract!WhenZero(b, i) = WhenZero(b, i)
  /\ \A b, i : Abstract!AfterBlock(b, i) = AfterBlock(b, i)
  <1>1. Abstract!IntBinary = IntBinary /\ Abstract!IntUnary = IntUnary /\ Abstract!PushOps = PushOps
    BY DEF Abstract!IntBinary, IntBinary, Abstract!IntUnary, IntUnary, Abstract!PushOps, PushOps
  <1>2. \A p, as : Abstract!Readable(p, as) = Readable(p, as)
    BY <1>1 DEF Abstract!Readable, Readable, Abstract!IsObject, IsObject
  <1>3. \A b : Abstract!Flag(b) = Flag(b)
    BY DEF Abstract!Flag, Flag
  <1>4. \A p, a, b : Abstract!DivTraps(p, a, b) = DivTraps(p, a, b)
    BY DEF Abstract!DivTraps, DivTraps, Abstract!IntMin, IntMin
  <1>5. \A p, a, b : Abstract!Apply(p, a, b) = Apply(p, a, b)
    BY DEF Abstract!Apply, Apply, Abstract!Wrap, Wrap, Abstract!IntMin, IntMin,
           Abstract!Quotient, Quotient, Abstract!Remainder, Remainder, Abstract!Abs, Abs,
           Abstract!Flag, Flag
  <1>6. /\ \A b, i : Abstract!WhenZero(b, i) = WhenZero(b, i)
        /\ \A b, i : Abstract!AfterBlock(b, i) = AfterBlock(b, i)
    <2>1. \A b, i : Abstract!Match(b, i) = Match(b, i)
      <3>1. \A S : Abstract!Cardinality(S) = Cardinality(S)
        BY DEF Abstract!Cardinality, Cardinality
      <3>2. \A b, i, j : Abstract!Opens(b, i, j) = Opens(b, i, j)
        BY <3>1 DEF Abstract!Opens, Opens
      <3>. QED
        BY <3>2 DEF Abstract!Match, Match
    <2>2. \A b, i : Abstract!IsElse(b, i) = IsElse(b, i)
      BY DEF Abstract!IsElse, IsElse
    <2>. QED
      BY <2>1, <2>2 DEF Abstract!WhenZero, WhenZero, Abstract!AfterBlock, AfterBlock
  <1>. QED
    BY <1>1, <1>2, <1>3, <1>4, <1>5, <1>6

Earlier == [k \in 1 .. Len(calls) |-> Waiting(k)]

(* The waiting calls are all the activations but the last.                 *)
LEMMA EarlierIsSequence ==
  ASSUME Len(calls) \in Nat, NEW S, \A k \in 1 .. Len(calls) : Waiting(k) \in S
  PROVE  Earlier \in Seq(S) /\ Len(Earlier) = Len(calls)
  <1>1. Earlier \in [1 .. Len(calls) -> S]
    BY DEF Earlier
  <1>2. Earlier \in Seq(S)
    BY <1>1, SeqDef
  <1>. QED
    BY <1>1, <1>2, LenProperties

(* The running activation is the last one; its line is the machine's.      *)
LEMMA NowFacts ==
  ASSUME Inv
  PROVE  /\ Len(Activated) = Len(calls) + 1
         /\ Abstract!Now = Running
         /\ Abstract!Now.fn = fn /\ Abstract!Now.pc = pc
         /\ Abstract!Body = Body /\ Abstract!Line = Line
  <1> DEFINE S == {Waiting(k) : k \in 1 .. Len(calls)} \cup {Running}
  <1>1. Len(calls) \in Nat
    BY StackFacts
  <1>2. Earlier \in Seq(S) /\ Len(Earlier) = Len(calls) /\ Running \in S
    BY <1>1, EarlierIsSequence
  <1> HIDE DEF S
  <1>3. Len(Append(Earlier, Running)) = Len(calls) + 1
        /\ Append(Earlier, Running)[Len(calls) + 1] = Running
    BY <1>2, AppendProperties
  <1>4. Len(Activated) = Len(calls) + 1 /\ Activated[Len(calls) + 1] = Running
    BY <1>3 DEF Activated, Earlier
  <1>5. Abstract!Now = Running
    BY <1>4 DEF Abstract!Now
  <1>6. Running.fn = fn /\ Running.pc = pc
    BY DEF Running, Active
  <1>. QED
    BY <1>4, <1>5, <1>6 DEF Abstract!Body, Abstract!Line, Body, Line

(* Past its head, a function's operands are what lies between sp and fp.   *)
LEMMA InsideFacts ==
  ASSUME Inv, status = "run", pc > 1
  PROVE  /\ Abstract!Now = Active(fn, pc, env, Cut(stack, sp, fp))
         /\ Abstract!Now.env = env
         /\ Abstract!Now.operands = Cut(stack, sp, fp)
         /\ Line.op \in PopOps =>
              /\ sp < fp
              /\ Abstract!Top = Top
              /\ Abstract!Dropped = Cut(stack, sp + 1, fp)
  <1>1. Abstract!Now = Active(fn, pc, env, Cut(stack, sp, fp))
    BY NowFacts DEF Running, Entering
  <1>2. Abstract!Now.env = env /\ Abstract!Now.operands = Cut(stack, sp, fp)
    BY <1>1 DEF Active
  <1>3. ASSUME Line.op \in PopOps
        PROVE  /\ sp < fp
               /\ Abstract!Top = Top
               /\ Abstract!Dropped = Cut(stack, sp + 1, fp)
    <2>1. /\ sp \in Nat /\ fp \in Nat /\ StackSize \in Nat /\ sp <= fp /\ fp <= StackSize
          /\ stack \in [0 .. (StackSize - 1) -> Word]
      BY InFrame DEF Inv, TypeOK
    <2>2. fn \in Functions /\ pc \in 1 .. Len(code[fn].body)
      BY DEF Inv, TypeOK
    <2>3. code[fn].depth[pc] <= fp - sp /\ code[fn].depth[pc] >= 1 /\ code[fn].depth[pc] \in Nat
      BY <1>3, <2>2, LineFacts DEF Inv, DepthKept
    <2>4. sp < fp
      BY <2>1, <2>3
    <2> DEFINE c == Cut(stack, sp, fp)
    <2>5. c[Len(c)] = stack[sp] /\ SubSeq(c, 1, Len(c) - 1) = Cut(stack, sp + 1, fp)
      BY <2>1, <2>4, CutDrop
    <2>. QED
      BY <1>2, <2>4, <2>5 DEF Abstract!Top, Abstract!Dropped, Top
  <1>. QED
    BY <1>1, <1>2, <1>3

(* A step that keeps the C stack and writes below the last caller's        *)
(* operands leaves every waiting activation as it is.                      *)
LEMMA WaitingKept ==
  ASSUME Inv, calls' = calls,
         Len(calls) # 0 => \A i \in Caller.sp .. (StackSize - 1) : stack'[i] = stack[i],
         NEW k \in 1 .. Len(calls)
  PROVE  Waiting(k)' = Waiting(k)
  <1> DEFINE n == Len(calls)
  <1>1. /\ n \in 1 .. n /\ n \in Nat /\ StackSize \in Nat
        /\ calls[k].sp \in Nat /\ calls[k].fp \in Nat /\ calls[k].fp <= StackSize
        /\ calls[n].sp \in Nat /\ calls[n].fp \in Nat /\ calls[n].sp <= calls[n].fp
    BY StackFacts
  <1>2. calls[n].sp <= calls[k].sp
    <2>1. CASE k = n
      BY <2>1, <1>1
    <2>2. CASE k # n
      <3>1. k \in 1 .. (n - 1)
        BY <2>2, <1>1
      <3>2. calls[n].fp < calls[k].sp
        BY <1>1, <3>1 DEF Inv, FrameChain
      <3>. QED
        BY <1>1, <3>2
    <2>. QED
      BY <2>1, <2>2
  <1>3. \A i \in calls[k].sp .. (calls[k].fp - 1) : stack'[i] = stack[i]
    <2>1. \A i \in calls[k].sp .. (calls[k].fp - 1) : i \in calls[n].sp .. (StackSize - 1)
      <3> DEFINE a == calls[k].sp  b == calls[k].fp  c == calls[n].sp
      <3>1. a \in Nat /\ b \in Nat /\ c \in Nat /\ b <= StackSize /\ StackSize \in Nat /\ c <= a
        BY <1>1, <1>2
      <3> HIDE DEF a, b, c
      <3>2. \A i \in a .. (b - 1) : i \in c .. (StackSize - 1)
        BY ONLY <3>1
      <3>. QED  BY <3>2 DEF a, b, c
    <2>2. \A i \in calls[n].sp .. (StackSize - 1) : stack'[i] = stack[i]
      BY <1>1 DEF Caller
    <2>. QED
      BY ONLY <2>1, <2>2, Zenon
  <1>4. Cut(stack', calls[k].sp, calls[k].fp) = Cut(stack, calls[k].sp, calls[k].fp)
    BY ZenonT(30), <1>1, <1>3, CutSame
  <1>. QED
    BY <1>4 DEF Waiting

(* Then only the running activation changes.                               *)
LEMMA OnlyRunningChanges ==
  ASSUME Inv, calls' = calls, \A k \in 1 .. Len(calls) : Waiting(k)' = Waiting(k),
         NEW a, Running' = a
  PROVE  Abstract!Becomes(a)
  <1> DEFINE S == {Waiting(k) : k \in 1 .. Len(calls)} \cup {Running, a}
  <1>1. Earlier \in Seq(S) /\ Running \in S /\ a \in S
    BY StackFacts, EarlierIsSequence
  <1>2. Earlier' = Earlier
    BY DEF Earlier
  <1>3. Activated = Append(Earlier, Running) /\ Activated' = Append(Earlier, a)
    BY <1>2 DEF Activated, Earlier
  <1> HIDE DEF S
  <1>4. [Append(Earlier, Running) EXCEPT ![Len(Append(Earlier, Running))] = a]
          = Append(Earlier, a)
    BY <1>1, LastReplaced
  <1>. QED
    BY <1>3, <1>4 DEF Abstract!Becomes

(* A line past a function's head changes the running activation only: its  *)
(* line, and its operands as far as the stack below fp says so.            *)
LEMMA Proceeds ==
  ASSUME Inv, status = "run", pc > 1, pc' > 1, UNCHANGED <<fn, calls, fp, env>>,
         \A i \in fp .. (StackSize - 1) : stack'[i] = stack[i]
  PROVE  Abstract!Proceed(Cut(stack', sp', fp), pc')
  <1>1. fn # 1 => fp < Caller.sp
    <2>1. SUFFICES ASSUME fn # 1 PROVE fp < Caller.sp
      OBVIOUS
    <2>2. Len(calls) \in 1 .. Len(calls)
      BY <2>1, StackFacts
    <2>. QED
      BY <2>1, <2>2 DEF Inv, FrameChain, Caller
  <1>2. Len(calls) # 0 => \A i \in Caller.sp .. (StackSize - 1) : stack'[i] = stack[i]
    <2>1. SUFFICES ASSUME Len(calls) # 0
                   PROVE  \A i \in Caller.sp .. (StackSize - 1) : stack'[i] = stack[i]
      OBVIOUS
    <2>2. Len(calls) \in 1 .. Len(calls) /\ fn # 1
      BY <2>1, StackFacts
    <2>3. Caller.sp \in Nat /\ fp \in Nat /\ StackSize \in Nat /\ fp < Caller.sp
      BY <1>1, <2>2, StackFacts, InFrame DEF Caller
    <2>. QED
      BY <2>3
  <1>3. \A k \in 1 .. Len(calls) : Waiting(k)' = Waiting(k)
    BY <1>2, WaitingKept
  <1>4. Running' = Active(fn, pc', env, Cut(stack', sp', fp))
    BY DEF Running, Entering
  <1>5. Abstract!Becomes(Active(fn, pc', env, Cut(stack', sp', fp)))
    BY <1>3, <1>4, OnlyRunningChanges
  <1>6. Abstract!Now.fn = fn /\ Abstract!Now.env = env
    BY InsideFacts, NowFacts
  <1>. QED
    BY <1>5, <1>6, SameWords DEF Abstract!Proceed

(* Lines that leave the operands alone.                                    *)
LEMMA Passes ==
  ASSUME Inv, status = "run", pc > 1, pc' > 1, UNCHANGED <<fn, calls, fp, env>>,
         KeepStack
  PROVE  /\ Abstract!Proceed(Abstract!Now.operands, pc')
         /\ pc' = pc + 1 => Abstract!Pass
  <1>1. Abstract!Proceed(Cut(stack, sp, fp), pc')
    BY Proceeds DEF KeepStack
  <1>. QED
    BY <1>1, InsideFacts, NowFacts DEF Abstract!Pass, Abstract!Onward

(* Lines that pop their operand.                                           *)
LEMMA Drops ==
  ASSUME Inv, status = "run", pc > 1, pc' > 1, UNCHANGED <<fn, calls, fp, env>>,
         Drop, Line.op \in PopOps
  PROVE  /\ Abstract!Top = Top
         /\ Abstract!Proceed(Abstract!Dropped, pc')
         /\ pc' = pc + 1 => Abstract!Drop
  <1>1. Abstract!Proceed(Cut(stack, sp + 1, fp), pc')
    BY Proceeds DEF Drop
  <1>2. Abstract!Top = Top /\ Abstract!Dropped = Cut(stack, sp + 1, fp)
    BY InsideFacts
  <1>. QED
    BY <1>1, <1>2, NowFacts DEF Abstract!Drop, Abstract!Onward

(* Lines that push.                                                        *)
LEMMA Pushes ==
  ASSUME Inv, status = "run", Faults = {}, pc > 1, pc' = pc + 1,
         UNCHANGED <<fn, calls, fp, env>>,
         NEW w \in Word, Push(w), Line.op \in PushOps
  PROVE  Abstract!Push(w)
  <1>1. /\ sp \in Nat /\ fp \in Nat /\ StackSize \in Nat /\ sp <= fp /\ fp <= StackSize
        /\ sp >= 1 /\ stack \in [0 .. (StackSize - 1) -> Word] /\ pc \in Nat
    BY InFrame, NoFault, LineFacts DEF Inv, TypeOK
  <1>2. /\ stack' = [stack EXCEPT ![sp - 1] = w] /\ sp' = sp - 1
        /\ \A i \in fp .. (StackSize - 1) : stack'[i] = stack[i]
    BY <1>1 DEF Push
  <1>3. Abstract!Proceed(Cut(stack', sp', fp), pc')
    BY <1>1, <1>2, Proceeds
  <1>4. Cut(stack', sp', fp) = Append(Cut(stack, sp, fp), w)
    BY <1>1, <1>2, CutPush
  <1>. QED
    BY <1>3, <1>4, InsideFacts, NowFacts DEF Abstract!Push, Abstract!Onward

-----------------------------------------------------------------------------
(* The actions, one by one.                                                *)

(* stmfd and genEnvironment begin an activation: a Lambda's has been there *)
(* since its call.                                                         *)
LEMMA BeginRefined == ASSUME Inv, Environment \/ Enter PROVE Abstract!Begin
  <1>1. /\ status = "run" /\ Line.op \in {"env", "enter"} /\ Faults = {}
        /\ NewEnvironment /\ pc' = pc + 1
        /\ UNCHANGED <<code, fn, calls, args, ret, r0, benv, printed, status>>
    BY DEF Environment, Enter, At, Advance, Goto
  <1>2. fn \in Functions /\ pc \in 1 .. Len(code[fn].body) /\ Len(code[fn].body) \in Nat
    BY LineFacts DEF Inv, TypeOK
  <1>3. pc = 1 /\ (Line.op = "env" <=> fn = 1)
    BY <1>1, <1>2, LineFacts DEF OperandsOK, Line, Body
  <1>4. benv = Abstract!Now.env
    <2>1. CASE fn = 1
      BY <2>1, <1>3, NowFacts DEF Inv, OwnEnvironment, Running, Entering, Active
    <2>2. CASE fn # 1
      BY <2>2, <1>3, NowFacts DEF Running, Entering, Active
    <2>. QED
      BY <2>1, <2>2
  <1>5. pc' = 2 /\ env' = Len(envs) + 1 /\ Len(calls) \in Nat
    BY <1>1, <1>3, StackFacts DEF NewEnvironment
  <1>6. /\ Running' = Active(fn, 2, Len(envs) + 1, Abstract!Now.operands)
        /\ Len(calls) # 0 => \A i \in Caller.sp .. (StackSize - 1) : stack'[i] = stack[i]
    <2>1. CASE fn = 1
      <3>1. Environment /\ Len(calls) = 0
        BY <2>1, <1>1, <1>3, StackFacts DEF Enter, At
      <3>2. stack' = stack /\ sp' = sp /\ fp' = fp
        BY <3>1 DEF Environment, KeepStack, Advance, Goto
      <3>3. Running' = Active(fn, 2, Len(envs) + 1, Cut(stack, sp, fp))
        BY <2>1, <1>1, <1>5, <3>2 DEF Running, Entering
      <3>4. Abstract!Now = Active(fn, 1, env, Cut(stack, sp, fp))
        BY <2>1, <1>3, NowFacts DEF Running, Entering
      <3>. QED
        BY <3>1, <3>3, <3>4 DEF Active
    <2>2. CASE fn # 1
      <3>1. Enter /\ sp >= 2
        BY <2>2, <1>1, <1>3, NoFault DEF Environment, At
      <3>2. sp = Caller.sp /\ Len(calls) \in 1 .. Len(calls)
        BY <2>2, <1>3, StackFacts DEF Inv, DepthKept
      <3>3. sp \in Nat /\ StackSize \in Nat /\ stack \in [0 .. (StackSize - 1) -> Word]
        BY StackFacts DEF Inv, TypeOK
      <3>4. sp' = sp - 2 /\ fp' = sp - 2 /\ \A i \in sp .. (StackSize - 1) : stack'[i] = stack[i]
        BY <3>1, <3>3 DEF Enter
      <3>5. Cut(stack', sp', fp') = <<>>
        <4>1. fp' - sp' = 0
          BY <3>3, <3>4
        <4>. QED
          BY <4>1 DEF Cut
      <3>6. Running' = Active(fn, 2, Len(envs) + 1, <<>>)
        BY <2>2, <1>1, <1>5, <3>5 DEF Running, Entering
      <3>7. Abstract!Now = Active(fn, 1, benv, <<>>)
        BY <2>2, <1>3, NowFacts DEF Running, Entering
      <3>. QED
        BY <3>2, <3>4, <3>6, <3>7 DEF Active
    <2>. QED
      BY <2>1, <2>2
  <1>7. Abstract!Becomes(Active(fn, 2, Len(envs) + 1, Abstract!Now.operands))
    <2>1. \A k \in 1 .. Len(calls) : Waiting(k)' = Waiting(k)
      BY <1>1, <1>6, WaitingKept
    <2>. QED
      BY <2>1, <1>1, <1>6, OnlyRunningChanges
  <1>8. Abstract!At({"env", "enter"})
    BY <1>1, NowFacts DEF Abstract!At
  <1>9. Abstract!Now.fn = fn
    BY NowFacts
  <1>. QED
    BY <1>1, <1>4, <1>7, <1>8, <1>9, SameWords
    DEF Abstract!Begin, NewEnvironment, Enclosing, Abstract!Unset, Unset

(* A line that is no head is past the head.                                *)
LEMMA LineOf ==
  ASSUME Inv, NEW op, At(op), op \notin {"env", "enter"}
  PROVE  /\ status = "run" /\ Line.op = op /\ Faults = {}
         /\ pc \in Nat /\ pc > 1 /\ pc + 1 > 1
         /\ \A ops : op \in ops => Abstract!At(ops)
  <1>1. status = "run" /\ Line.op = op /\ Faults = {}
    BY DEF At
  <1>2. pc \in Nat /\ pc > 1
    BY <1>1, PastHead, LineFacts DEF Inv, TypeOK
  <1>. QED
    BY <1>1, <1>2, NowFacts DEF Abstract!At

(* A parameter is stored into the callee's environment.                    *)
LEMMA BindRefined ==
  ASSUME Inv, BindPrimitive \/ BindParameter PROVE Abstract!Bind
  <1>1. \E op \in {"prim", "bind"} : At(op)
    BY DEF BindPrimitive, BindParameter
  <1>2. PICK op \in {"prim", "bind"} : At(op)
    BY <1>1
  <1>3. /\ status = "run" /\ Line.op = op /\ Faults = {} /\ pc \in Nat /\ pc > 1 /\ pc + 1 > 1
        /\ Abstract!At({"prim", "bind"})
    BY <1>2, LineOf
  <1>4. KeepStack /\ pc' = pc + 1 /\ UNCHANGED <<code, fn, calls, fp, env, args, ret, printed, status>>
    BY DEF BindPrimitive, BindParameter, Advance, Goto
  <1>5. Abstract!Pass
    BY <1>3, <1>4, Passes
  <1>6. Abstract!Now.env = env /\ Abstract!Line = Line
    BY <1>3, InsideFacts, NowFacts
  <1>7. LET w == IF Line.op = "prim" THEN PrimObj(Line.p, env) ELSE args[Line.n]
        IN  Abstract!Store(env, Line.n, w) /\ r0' = IF Line.op = "prim" THEN w ELSE r0
    <2>1. CASE BindPrimitive
      BY <2>1 DEF BindPrimitive, At, Store, Stored, Abstract!Store
    <2>2. CASE BindParameter
      BY <2>2 DEF BindParameter, At, Store, Stored, Abstract!Store
    <2>. QED
      BY <2>1, <2>2
  <1>. QED
    BY <1>3, <1>4, <1>5, <1>6, <1>7, SameWords DEF Abstract!Bind

(* A literal or a closure is pushed: an operand more in the current frame. *)
LEMMA PushLiteralRefined == ASSUME Inv, PushLiteral PROVE Abstract!PushLiteral
  <1>1. PICK op \in {"int", "str", "proc"} : At(op)
    BY DEF PushLiteral
  <1>2. /\ status = "run" /\ Line.op = op /\ Faults = {} /\ pc \in Nat /\ pc > 1 /\ pc + 1 > 1
        /\ Abstract!At({"int", "str", "proc"})
    BY <1>1, LineOf
  <1>3. /\ r0' = Literal /\ Push(Literal) /\ pc' = pc + 1
        /\ UNCHANGED <<code, fn, calls, fp, env, args, ret, envs, printed, status>>
    BY DEF PushLiteral, Advance, Goto
  <1>4. Literal \in Word
    <2>1. r0' \in Word
      BY PushLiteralStep DEF Inv, TypeOK
    <2>. QED
      BY <1>3, <2>1
  <1>5. Abstract!Literal = Literal
    <2>1. Abstract!Now.env = env /\ Abstract!Line = Line
      BY <1>2, InsideFacts, NowFacts
    <2>. QED
      BY <2>1, SameWords DEF Abstract!Literal, Literal, Base
  <1>6. Abstract!Push(Literal)
    BY <1>2, <1>3, <1>4, Pushes DEF PushOps
  <1>. QED
    BY <1>2, <1>3, <1>5, <1>6 DEF Abstract!PushLiteral

(* r0 moves along the environments; no activation has it.                  *)
LEMMA ScanRefined == ASSUME Inv, ScanFromHere \/ ScanOutwards PROVE Abstract!Scan
  <1>1. PICK op \in {"scan", "outer"} : At(op)
    BY DEF ScanFromHere, ScanOutwards
  <1>2. /\ status = "run" /\ Line.op = op /\ Faults = {} /\ pc \in Nat /\ pc > 1 /\ pc + 1 > 1
        /\ Abstract!At({"scan", "outer"})
    BY <1>1, LineOf
  <1>3. /\ KeepStack /\ pc' = pc + 1
        /\ UNCHANGED <<code, fn, calls, fp, env, args, ret, envs, printed, status>>
    BY DEF ScanFromHere, ScanOutwards, Advance, Goto
  <1>4. Abstract!Pass /\ Abstract!Now.env = env /\ Abstract!Line = Line
    BY <1>2, <1>3, Passes, InsideFacts, NowFacts
  <1>5. r0' = EnvWord(IF Line.op = "scan" THEN env ELSE envs[r0.e].enclosing)
    BY DEF ScanFromHere, ScanOutwards, At, Outer
  <1>. QED
    BY <1>2, <1>3, <1>4, <1>5, SameWords DEF Abstract!Scan

(* A variable's value or ret is pushed.                                    *)
LEMMA FetchRefined == ASSUME Inv, GetVariable \/ PushResult PROVE Abstract!Fetch
  <1> DEFINE w == IF Line.op = "get" THEN envs[r0.e].bindings[Line.n + 1] ELSE ret
  <1>1. PICK op \in {"get", "pushret"} : At(op)
    BY DEF GetVariable, PushResult
  <1>2. /\ status = "run" /\ Line.op = op /\ Faults = {} /\ pc \in Nat /\ pc > 1 /\ pc + 1 > 1
        /\ Abstract!At({"get", "pushret"})
    BY <1>1, LineOf
  <1>3. /\ Push(w) /\ pc' = pc + 1
        /\ UNCHANGED <<code, fn, calls, fp, env, args, ret, r0, envs, printed, status>>
    BY DEF GetVariable, PushResult, Advance, Goto, At
  <1>4. w \in Word
    <2>1. CASE Line.op = "pushret"
      BY <2>1 DEF Inv, TypeOK
    <2>2. CASE Line.op = "get"
      <3>1. /\ Pointed \in Environments /\ Pointed = r0.e
            /\ Line.n \in Nat /\ Line.n < Len(envs[Pointed].bindings)
        BY <1>2, <2>2, LineSafe
      <3>2. envs[r0.e].bindings \in Seq(Word)
        <4>1. envs[r0.e] \in EnvironmentRecord
          BY <3>1 DEF Inv, TypeOK, Environments
        <4>. QED
          BY <4>1 DEF EnvironmentRecord
      <3>3. Line.n + 1 \in 1 .. Len(envs[r0.e].bindings)
        BY <3>1, <3>2
      <3>. QED
        BY <2>2, <3>2, <3>3
    <2>. QED
      BY <1>2, <2>1, <2>2
  <1> HIDE DEF w
  <1>5. Abstract!Push(w)
    BY <1>2, <1>3, <1>4, Pushes DEF PushOps
  <1>6. Abstract!Line = Line
    BY NowFacts
  <1>. QED
    BY <1>2, <1>3, <1>5, <1>6 DEF Abstract!Fetch, w

(* The word on top is popped into a binding.                               *)
LEMMA AssignRefined == ASSUME Inv, SetVariable \/ DefineVariable PROVE Abstract!Assign
  <1>1. PICK op \in {"set", "def"} : At(op)
    BY DEF SetVariable, DefineVariable
  <1>2. /\ status = "run" /\ Line.op = op /\ Faults = {} /\ pc \in Nat /\ pc > 1 /\ pc + 1 > 1
        /\ Abstract!At({"set", "def"})
    BY <1>1, LineOf
  <1>3. /\ Drop /\ pc' = pc + 1
        /\ UNCHANGED <<code, fn, calls, fp, env, args, ret, r0, printed, status>>
    BY DEF SetVariable, DefineVariable, Advance, Goto
  <1>4. Abstract!Top = Top /\ Abstract!Drop
    BY <1>2, <1>3, Drops DEF PopOps
  <1>5. Abstract!Now.env = env /\ Abstract!Line = Line
    BY <1>2, InsideFacts, NowFacts
  <1>6. Abstract!Store(IF Line.op = "set" THEN r0.e ELSE env, Line.n, Top)
    BY DEF SetVariable, DefineVariable, At, Store, Stored, Abstract!Store
  <1>. QED
    BY <1>2, <1>3, <1>4, <1>5, <1>6 DEF Abstract!Assign

(* Where control goes from a line is past the head of its function.        *)
LEMMA PastHeadNext ==
  ASSUME Inv, pc' \in Successors(Body, pc)
  PROVE  pc' > 1
  <1>1. StepOK(code, fn, pc, pc')
    BY LineFacts
  <1>2. fn \in Functions
    BY DEF Inv, TypeOK
  <1>3. Len(code[fn].body) \in Nat
    BY <1>2, LineFacts
  <1>. QED
    BY <1>1, <1>3 DEF StepOK

(* The predicate is popped, and chooses the next line.                     *)
LEMMA BranchRefined == ASSUME Inv, Branch PROVE Abstract!Branch
  <1>1. At("if")
    BY DEF Branch
  <1>2. /\ status = "run" /\ Line.op = "if" /\ Faults = {} /\ pc \in Nat /\ pc > 1
        /\ Abstract!At({"if"})
    BY <1>1, LineOf
  <1>3. PICK content \in Contents(Top) :
               pc' = IF content # 0 THEN pc + 1 ELSE WhenZero(Body, pc)
    BY DEF Branch, Goto
  <1>4. /\ r0' = Top /\ Drop
        /\ UNCHANGED <<code, fn, calls, fp, env, args, ret, envs, printed, status>>
    BY DEF Branch, Goto
  <1>5. pc' > 1
    <2>1. pc' \in Successors(Body, pc)
      BY <1>2, <1>3 DEF Successors, Line
    <2>. QED
      BY <2>1, PastHeadNext
  <1>6. Abstract!Top = Top /\ Abstract!Proceed(Abstract!Dropped, pc')
    BY <1>2, <1>4, <1>5, Drops DEF PopOps
  <1>7. Abstract!Now.pc = pc /\ Abstract!Body = Body
    BY NowFacts
  <1>8. content \in Abstract!Contents(Abstract!Top)
        /\ pc' = IF content # 0 THEN Abstract!Now.pc + 1
                 ELSE Abstract!WhenZero(Abstract!Body, Abstract!Now.pc)
    BY <1>3, <1>6, <1>7, SameWords, SameCode
  <1>. QED
    BY <1>2, <1>4, <1>6, <1>8 DEF Abstract!Branch

(* The end of a block leaves the frame alone.                              *)
LEMMA CloseBlockRefined == ASSUME Inv, CloseBlock PROVE Abstract!CloseBlock
  <1>1. At("close")
    BY DEF CloseBlock
  <1>2. /\ status = "run" /\ Line.op = "close" /\ Faults = {} /\ pc \in Nat /\ pc > 1
        /\ Abstract!At({"close"})
    BY <1>1, LineOf
  <1>3. /\ KeepStack /\ pc' = AfterBlock(Body, pc)
        /\ UNCHANGED <<code, fn, calls, fp, env, args, ret, r0, envs, printed, status>>
    BY DEF CloseBlock, Goto, Rejoin
  <1>4. pc' > 1
    <2>1. pc' \in Successors(Body, pc)
      BY <1>2, <1>3 DEF Successors, Line
    <2>. QED
      BY <2>1, PastHeadNext
  <1>5. Abstract!Proceed(Abstract!Now.operands, pc')
    BY <1>2, <1>3, <1>4, Passes
  <1>6. pc' = Abstract!AfterBlock(Abstract!Body, Abstract!Now.pc)
    BY <1>3, NowFacts, SameCode
  <1>. QED
    BY <1>2, <1>3, <1>5, <1>6 DEF Abstract!CloseBlock

(* An operand is popped into args.                                         *)
LEMMA TakeArgumentRefined == ASSUME Inv, TakeArgument PROVE Abstract!TakeArgument
  <1>1. At("arg")
    BY DEF TakeArgument
  <1>2. /\ status = "run" /\ Line.op = "arg" /\ Faults = {} /\ pc \in Nat /\ pc > 1 /\ pc + 1 > 1
        /\ Abstract!At({"arg"})
    BY <1>1, LineOf
  <1>3. /\ Drop /\ pc' = pc + 1 /\ args' = [args EXCEPT ![Line.n] = Top]
        /\ UNCHANGED <<code, fn, calls, fp, env, ret, r0, envs, printed, status>>
    BY DEF TakeArgument, Advance, Goto
  <1>4. Abstract!Top = Top /\ Abstract!Drop
    BY <1>2, <1>3, Drops DEF PopOps
  <1>5. Abstract!Line = Line
    BY NowFacts
  <1>. QED
    BY <1>2, <1>3, <1>4, <1>5 DEF Abstract!TakeArgument

(* A call adds an activation; its operands are none, for the stack words   *)
(* below the caller's are not its own before stmfd.                        *)
LEMMA CallLambdaRefined == ASSUME Inv, CallLambda PROVE Abstract!CallLambda
  <1>0. PICK n \in Nat : n = Len(calls)
    BY StackFacts
  <1> DEFINE K == [fn |-> fn, pc |-> pc + 1, fp |-> fp, env |-> env, sp |-> sp + 1]
             a == Active(fn, pc + 1, env, Cut(stack, sp + 1, fp))
             b == Active(Top.f, 1, Top.base, <<>>)
             S == {Waiting(k) : k \in 1 .. n} \cup {Running, a, b}
  <1>1. At("call") /\ Top.t = "proc"
    BY DEF CallLambda
  <1>2. /\ status = "run" /\ Line.op = "call" /\ Faults = {} /\ pc \in Nat /\ pc > 1
        /\ Abstract!At({"call"})
    BY <1>1, LineOf
  <1>3. /\ benv' = Top.base /\ calls' = Append(calls, K) /\ fn' = Top.f /\ pc' = 1
        /\ stack' = stack
        /\ UNCHANGED <<code, args, ret, r0, envs, printed, status>>
    BY DEF CallLambda, Drop
  <1>4. Abstract!Top = Top /\ Abstract!Dropped = Cut(stack, sp + 1, fp)
        /\ Abstract!Now.fn = fn /\ Abstract!Now.pc = pc /\ Abstract!Now.env = env
    BY <1>2, InsideFacts, NowFacts DEF PopOps
  <1>5. Top.f # 1
    <2>1. sp \in 0 .. (StackSize - 1)
      BY <1>2, LineSafe, InFrame DEF PopOps
    <2>2. Closed(stack[sp])
      BY <2>1 DEF Inv, ClosuresKeepScope
    <2>. QED
      BY <1>1, <2>2, LineFacts DEF Closed, ClosedIn, Top
  <1>6. Running' = b
    BY <1>3, <1>5 DEF Running, Entering
  <1>7. /\ n \in Nat /\ calls \in Seq(CallRecord) /\ Len(calls') = n + 1
        /\ calls'[n + 1] = K /\ \A k \in 1 .. n : calls'[k] = calls[k]
    BY <1>0, <1>3, StackFacts DEF Inv, TypeOK
  <1>8. Waiting(n + 1)' = a /\ \A k \in 1 .. n : Waiting(k)' = Waiting(k)
    <2>1. Waiting(n + 1)' = a
      BY <1>3, <1>7 DEF Waiting
    <2>2. \A k \in 1 .. n : Waiting(k)' = Waiting(k)
      BY <1>3, <1>7 DEF Waiting
    <2>. QED
      BY <2>1, <2>2
  <1>9. Earlier \in Seq(S) /\ Len(Earlier) = n /\ a \in S /\ b \in S /\ Running \in S
    <2>1. /\ \A k \in 1 .. Len(calls) : Waiting(k) \in S
          /\ a \in S /\ b \in S /\ Running \in S
      BY <1>0
    <2> HIDE DEF S, a, b
    <2>. QED
      BY <1>0, <2>1, EarlierIsSequence
  <1>10. Earlier' = Append(Earlier, a)
    <2>1. Earlier' = [k \in 1 .. (n + 1) |-> IF k = n + 1 THEN a ELSE Waiting(k)]
      BY <1>7, <1>8 DEF Earlier
    <2> HIDE DEF S, a
    <2>2. /\ Append(Earlier, a) \in Seq(S) /\ Len(Append(Earlier, a)) = n + 1
          /\ \A k \in 1 .. n : Append(Earlier, a)[k] = Earlier[k]
          /\ Append(Earlier, a)[n + 1] = a
      BY <1>9, AppendProperties
    <2>3. Append(Earlier, a) \in [1 .. (n + 1) -> S]
      BY <2>2, LenProperties
    <2>4. \A k \in 1 .. (n + 1) :
            Append(Earlier, a)[k] = IF k = n + 1 THEN a ELSE Waiting(k)
      BY <1>0, <2>2 DEF Earlier
    <2>. QED
      BY <2>1, <2>3, <2>4
  <1>11. Activated' = Append(Append(Earlier, a), b)
    <2>1. Activated' = Append(Earlier', Running')
      BY DEF Activated, Earlier
    <2>. QED
      BY <2>1, <1>6, <1>10
  <1>12. [Activated EXCEPT ![Len(Activated)] = a] = Append(Earlier, a)
    <2>1. Activated = Append(Earlier, Running)
      BY DEF Activated, Earlier
    <2> HIDE DEF S, a
    <2>. QED
      BY <2>1, <1>9, LastReplaced
  <1>13. Activated' = Append([Activated EXCEPT ![Len(Activated)] = a], b)
    BY <1>11, <1>12
  <1> HIDE DEF S, K
  <1>. QED
    BY <1>1, <1>2, <1>3, <1>4, <1>13, SameWords DEF Abstract!CallLambda

(* A return takes its activation away and leaves the others alone.         *)
LEMMA ReturnRefined == ASSUME Inv, Return PROVE Abstract!Return
  <1>0. PICK n \in Nat : n = Len(calls)
    BY StackFacts
  <1> DEFINE S == {Waiting(k) : k \in 1 .. n} \cup {Running}
  <1>1. At("return")
    BY DEF Return
  <1>2. /\ status = "run" /\ Line.op = "return" /\ Faults = {} /\ pc \in Nat /\ pc > 1
        /\ Abstract!At({"return"})
    BY <1>1, LineOf
  <1>3. /\ stack' = stack /\ n \in 1 .. n /\ ret' = Top
        /\ fp' = calls[n].fp /\ env' = calls[n].env /\ sp' = calls[n].sp
        /\ fn' = calls[n].fn /\ pc' = calls[n].pc
        /\ calls' = SubSeq(calls, 1, n - 1)
        /\ UNCHANGED <<code, args, r0, envs, printed, status>>
    BY <1>0, Restored DEF Caller, Return
  <1>4. Running' = Waiting(n)
    <2>1. pc' # 1
      <3>1. calls[n].pc \in 2 .. Len(code[calls[n].fn].body) /\ calls[n].fn \in Functions
        BY <1>0, <1>3 DEF Inv, DepthKept, FrameChain
      <3>. QED
        BY <1>3, <3>1, LineFacts
    <2>. QED
      BY <1>3, <2>1 DEF Running, Entering, Waiting
  <1>5. calls \in Seq(CallRecord)
    BY DEF Inv, TypeOK
  <1>6. n - 1 \in Nat /\ Len(calls') = n - 1 /\ \A k \in 1 .. (n - 1) : calls'[k] = calls[k]
    BY <1>0, <1>3, <1>5
  <1>7. \A k \in 1 .. (n - 1) : Waiting(k)' = Waiting(k)
    BY <1>3, <1>6 DEF Waiting
  <1>8. Earlier' = [k \in 1 .. (n - 1) |-> Waiting(k)]
    BY <1>6, <1>7 DEF Earlier
  <1>9. /\ Earlier \in Seq(S) /\ Len(Earlier) = n /\ Running \in S
        /\ \A k \in 1 .. n : Earlier[k] = Waiting(k)
    <2>1. (\A k \in 1 .. Len(calls) : Waiting(k) \in S) /\ Running \in S
      BY <1>0
    <2> HIDE DEF S
    <2>2. Earlier \in Seq(S) /\ Len(Earlier) = n
      BY <1>0, <2>1, EarlierIsSequence
    <2>. QED
      BY <1>0, <2>1, <2>2 DEF Earlier
  <1> HIDE DEF S
  <1>10. Waiting(n) \in S /\ \A k \in 1 .. (n - 1) : Waiting(k) \in S
    BY <1>3, <1>9 DEF S
  <1>11. Earlier' \in Seq(S) /\ Len(Earlier') = n - 1
    <2>1. Earlier' \in [1 .. (n - 1) -> S]
      BY <1>8, <1>10
    <2>2. Earlier' \in Seq(S)
      BY <1>6, <2>1, SeqDef
    <2>. QED
      BY <1>6, <2>1, <2>2, LenProperties
  <1>12. Append(Earlier', Waiting(n)) = Earlier
    <2> DEFINE u == Append(Earlier', Waiting(n))
    <2>1. /\ u \in Seq(S) /\ Len(u) = n
          /\ \A k \in 1 .. (n - 1) : u[k] = Earlier'[k]
          /\ u[n] = Waiting(n)
      BY <1>10, <1>11, <1>3, AppendProperties
    <2> HIDE DEF u
    <2>2. \A k \in 1 .. Len(u) : u[k] = Earlier[k]
      BY <2>1, <1>3, <1>8, <1>9
    <2>3. u = Earlier
      BY <2>1, <2>2, <1>9, SeqEqual
    <2>. QED
      BY <2>3 DEF u
  <1>13. Activated' = Earlier
    <2>1. Activated' = Append(Earlier', Running')
      BY DEF Activated, Earlier
    <2>. QED
      BY <2>1, <1>4, <1>12
  <1>14. Activated = Append(Earlier, Running) /\ Len(Activated) = n + 1
    BY <1>0, NowFacts DEF Activated, Earlier
  <1>15. SubSeq(Append(Earlier, Running), 1, n) = Earlier
    <2> DEFINE q == Append(Earlier, Running)
               u == SubSeq(q, 1, n)
    <2>1. q \in Seq(S) /\ Len(q) = n + 1 /\ \A k \in 1 .. n : q[k] = Earlier[k]
      BY <1>9, AppendProperties
    <2> HIDE DEF q
    <2>2. \A k \in 1 .. n : q[k] \in S
      BY <2>1, <1>9, LenProperties
    <2>3. u \in Seq(S) /\ Len(u) = n /\ \A k \in 1 .. n : u[k] = q[k]
      BY <2>1, <2>2, <1>3, SubSeqProperties
    <2> HIDE DEF u
    <2>4. u = Earlier
      BY <2>1, <2>3, <1>9, SeqEqual
    <2>. QED
      BY <2>4 DEF u, q
  <1>16. Activated' = SubSeq(Activated, 1, Len(Activated) - 1) /\ Len(Activated) > 1
    <2>1. Len(Activated) - 1 = n /\ Len(Activated) > 1
      BY <1>3, <1>14
    <2>. QED
      BY <2>1, <1>13, <1>14, <1>15
  <1>17. Abstract!Top = Top
    BY <1>2, InsideFacts DEF PopOps
  <1>. QED
    BY <1>2, <1>3, <1>16, <1>17 DEF Abstract!Return

(* The program's value is popped, and it ends.                             *)
LEMMA ExitRefined == ASSUME Inv, Exit PROVE Abstract!Exit
  <1>1. At("exit")
    BY DEF Exit
  <1>2. /\ status = "run" /\ Line.op = "exit" /\ Faults = {} /\ pc \in Nat /\ pc > 1
        /\ Abstract!At({"exit"})
    BY <1>1, LineOf
  <1>3. /\ Drop /\ ret' = Top /\ status' = "exit"
        /\ UNCHANGED <<code, fn, pc, calls, fp, env, args, r0, envs, printed>>
    BY DEF Exit
  <1>4. Abstract!Top = Top /\ Abstract!Proceed(Abstract!Dropped, pc)
    BY <1>2, <1>3, Drops DEF PopOps
  <1>5. Abstract!Now.pc = pc
    BY NowFacts
  <1>. QED
    BY <1>2, <1>3, <1>4, <1>5 DEF Abstract!Exit

(* A primitive does to ret what it does there.                             *)
LEMMA CallPrimitiveRefined ==
  ASSUME Inv,
         \/ CallIntBinary \/ CallIntUnary \/ CallEqualString
         \/ CallInt2string \/ CallPrint
  PROVE  Abstract!CallPrimitive
  <1> DEFINE p == Top.p
  <1>1. PICK ps : CallPrimitive(ps)
    BY DEF CallIntBinary, CallIntUnary, CallEqualString, CallInt2string, CallPrint
  <1>2. At("call") /\ Top.t = "prim" /\ p \in ps
    BY <1>1 DEF CallPrimitive
  <1>3. /\ status = "run" /\ Line.op = "call" /\ Faults = {} /\ pc \in Nat /\ pc > 1 /\ pc + 1 > 1
        /\ Abstract!At({"call"})
    BY <1>2, LineOf
  <1>4. /\ r0' = args[0] /\ pc' = pc + 1 /\ Drop
        /\ UNCHANGED <<code, fn, calls, fp, args, env, envs>>
    BY <1>1 DEF CallPrimitive
  <1>5. Abstract!Top = Top /\ Abstract!Drop
    BY <1>3, <1>4, Drops DEF PopOps
  <1>6. /\ \/ Abstract!Returns(p, ret') /\ status' = status
           \/ /\ p \in Abstract!IntBinary
              /\ \E a \in Abstract!Contents(args[0]), b \in Abstract!Contents(args[1]) :
                    Abstract!DivTraps(p, a, b)
              /\ ret' = ret /\ status' = "arithmetic"
        /\ printed' = IF p = "pPrint" THEN Append(printed, args[0].s) ELSE printed
    <2>1. CASE CallIntBinary
      <3>1. p \in IntBinary /\ p # "pPrint" /\ printed' = printed
        BY <2>1 DEF CallIntBinary, CallPrimitive, IntBinary
      <3>2. PICK a \in Contents(args[0]), b \in Contents(args[1]) :
               IF DivTraps(p, a, b)
               THEN status' = "arithmetic" /\ ret' = ret
               ELSE status' = status /\ ret' = IntObj(Apply(p, a, b))
        BY <2>1 DEF CallIntBinary
      <3> HIDE DEF p
      <3>3. CASE DivTraps(p, a, b)
        <4>1. p \in Abstract!IntBinary /\ Abstract!DivTraps(p, a, b)
              /\ a \in Abstract!Contents(args[0]) /\ b \in Abstract!Contents(args[1])
          BY <3>1, <3>3, SameWords, SameCode
        <4>. QED
          BY <3>1, <3>2, <3>3, <4>1
      <3>4. CASE ~DivTraps(p, a, b)
        <4>1. Abstract!Returns(p, ret')
          BY <3>1, <3>2, <3>4, SameWords, SameCode DEF Abstract!Returns
        <4>. QED
          BY <3>1, <3>2, <3>4, <4>1
      <3>. QED
        BY <3>3, <3>4
    <2>2. CASE CallIntUnary
      <3>1. p \in IntUnary /\ p # "pPrint" /\ printed' = printed /\ status' = status
        BY <2>2 DEF CallIntUnary, CallPrimitive, IntUnary
      <3>2. PICK a \in Contents(args[0]) : ret' = IntObj(Flag(a = 0))
        BY <2>2 DEF CallIntUnary
      <3> HIDE DEF p
      <3>3. Abstract!Returns(p, ret')
        BY <3>1, <3>2, SameWords, SameCode DEF Abstract!Returns
      <3>. QED
        BY <3>1, <3>2, <3>3
    <2>3. CASE CallEqualString
      <3>1. p = "pEqualString" /\ printed' = printed /\ status' = status
            /\ ret' = IntObj(Flag(args[0].s = args[1].s))
        BY <2>3 DEF CallEqualString, CallPrimitive
      <3> HIDE DEF p
      <3>2. Abstract!Returns(p, ret')
        BY <3>1, SameWords, SameCode DEF Abstract!Returns
      <3>. QED
        BY <3>1, <3>2
    <2>4. CASE CallInt2string
      <3>1. p = "pInt2string" /\ printed' = printed /\ status' = status
        BY <2>4 DEF CallInt2string, CallPrimitive
      <3>2. PICK a \in Contents(args[0]) : ret' = StrObj(Decimal(a))
        BY <2>4 DEF CallInt2string
      <3> HIDE DEF p
      <3>3. Abstract!Returns(p, ret')
        BY <3>1, <3>2, SameWords, SameCode DEF Abstract!Returns
      <3>. QED
        BY <3>1, <3>2, <3>3
    <2>5. CASE CallPrint
      <3>1. p = "pPrint" /\ printed' = Append(printed, args[0].s) /\ status' = status /\ ret' = ret
        BY <2>5 DEF CallPrint, CallPrimitive
      <3> HIDE DEF p
      <3>2. Abstract!Returns(p, ret')
        BY <3>1 DEF Abstract!Returns
      <3>. QED
        BY <3>1, <3>2
    <2>. QED
      BY <2>1, <2>2, <2>3, <2>4, <2>5
  <1>. QED
    BY <1>2, <1>3, <1>4, <1>5, <1>6 DEF Abstract!CallPrimitive

(* The machine fails for want of room or over a word of the wrong kind.    *)
LEMMA UndefinedRefined == ASSUME Inv, Undefined PROVE Abstract!Fault
  <1>1. /\ status = "run" /\ status' \in Faults /\ status' \in {"overflow", "word"}
        /\ UNCHANGED <<code, fn, pc, calls, stack, sp, fp, args, ret, r0, env, benv, envs, printed>>
    BY FewFaults DEF Undefined
  <1>2. Activated' = Activated
    BY <1>1 DEF Activated, Waiting, Running, Entering
  <1>3. Abstract!Line = Line /\ \A ops : Abstract!At(ops) = (Line.op \in ops)
    BY <1>1, NowFacts DEF Abstract!At
  <1>4. CASE status' = "overflow"
    <2>1. Overflows
      BY <1>1, <1>4 DEF Faults
    <2>2. Abstract!At(Abstract!PushOps \cup {"enter"})
      BY <1>3, <2>1, SameCode DEF Overflows
    <2>. QED
      BY <1>1, <1>2, <1>4, <2>2 DEF Abstract!Fault
  <1>5. CASE status' = "word"
    <2>1. BadWord
      BY <1>1, <1>5 DEF Faults
    <2>2. Line.op \in {"if", "call", "exit"} /\ Line.op \in PopOps
      BY <2>1 DEF BadWord, PopOps
    <2>3. pc > 1
      BY <2>2, PastHead
    <2>4. Abstract!Top = Top
      BY <1>1, <2>2, <2>3, InsideFacts
    <2>5. ~ IF Abstract!Line.op = "call"
            THEN Abstract!IsProcedure(Abstract!Top)
                   /\ (Abstract!Top.t = "prim" => Abstract!Readable(Abstract!Top.p, args))
            ELSE Abstract!IsObject(Abstract!Top)
      BY <1>3, <2>1, <2>4, SameWords, SameCode DEF BadWord, Top
    <2>6. Abstract!At({"if", "call", "exit"})
      BY <1>3, <2>2
    <2>. QED
      BY <1>1, <1>2, <1>5, <2>5, <2>6 DEF Abstract!Fault
  <1>. QED
    BY <1>1, <1>4, <1>5

-----------------------------------------------------------------------------
(* The refinement.                                                         *)

(* initMachine leaves one activation, main's, without operands.            *)
LEMMA InitRefined == Init => Abstract!Init
  <1> SUFFICES ASSUME Init PROVE Abstract!Init
    OBVIOUS
  <1>1. /\ code \in Codes /\ fn = 1 /\ pc = 1 /\ calls = <<>> /\ env = 0
        /\ sp = StackSize /\ fp = StackSize /\ StackSize \in Nat
    BY MachineAssumption DEF Init, Boot
  <1>2. Running = Active(1, 1, 0, <<>>)
    <2>1. fp - sp = 0
      BY <1>1
    <2>2. Cut(stack, sp, fp) = <<>>
      BY <2>1 DEF Cut
    <2>. QED
      BY <1>1, <2>2 DEF Running, Entering
  <1>3. Activated = <<Active(1, 1, 0, <<>>)>>
    <2>1. [k \in 1 .. Len(calls) |-> Waiting(k)] = <<>>
      <3>1. Len(calls) = 0
        BY <1>1
      <3>. QED
        BY <3>1
    <2>2. Append(<<>>, Running) = <<Running>>
      OBVIOUS
    <2>3. Activated = Append(<<>>, Running)
      BY <2>1 DEF Activated
    <2>. QED
      BY <1>2, <2>2, <2>3
  <1>. QED
    BY <1>1, <1>3, SameWords DEF Abstract!Init, Init, Boot

(* Every line of the machine is a step of the activations.                 *)
LEMMA NextRefined == Inv /\ [Next]_vars => [Abstract!Next]_(Abstract!vars)
  <1> SUFFICES ASSUME Inv, [Next]_vars PROVE Abstract!Next \/ UNCHANGED Abstract!vars
    OBVIOUS
  <1>1. CASE Environment \/ Enter
    BY <1>1, BeginRefined DEF Abstract!Next
  <1>2. CASE BindPrimitive \/ BindParameter
    BY <1>2, BindRefined DEF Abstract!Next
  <1>3. CASE PushLiteral
    BY <1>3, PushLiteralRefined DEF Abstract!Next
  <1>4. CASE ScanFromHere \/ ScanOutwards
    BY <1>4, ScanRefined DEF Abstract!Next
  <1>5. CASE GetVariable \/ PushResult
    BY <1>5, FetchRefined DEF Abstract!Next
  <1>6. CASE SetVariable \/ DefineVariable
    BY <1>6, AssignRefined DEF Abstract!Next
  <1>7. CASE Branch
    BY <1>7, BranchRefined DEF Abstract!Next
  <1>8. CASE CloseBlock
    BY <1>8, CloseBlockRefined DEF Abstract!Next
  <1>9. CASE TakeArgument
    BY <1>9, TakeArgumentRefined DEF Abstract!Next
  <1>10. CASE CallLambda
    BY <1>10, CallLambdaRefined DEF Abstract!Next
  <1>11. CASE \/ CallIntBinary \/ CallIntUnary \/ CallEqualString
              \/ CallInt2string \/ CallPrint
    BY <1>11, CallPrimitiveRefined DEF Abstract!Next
  <1>12. CASE Return
    BY <1>12, ReturnRefined DEF Abstract!Next
  <1>13. CASE Exit
    BY <1>13, ExitRefined DEF Abstract!Next
  <1>14. CASE Undefined
    BY <1>14, UndefinedRefined DEF Abstract!Next
  <1>15. CASE Halted \/ UNCHANGED vars
    <2>1. UNCHANGED vars
      BY <1>15 DEF Halted
    <2>2. Activated' = Activated
      BY <2>1 DEF vars, Activated, Waiting, Running, Entering
    <2>. QED
      BY <2>1, <2>2 DEF vars, Abstract!vars
  <1>. QED
    BY <1>1, <1>2, <1>3, <1>4, <1>5, <1>6, <1>7, <1>8, <1>9, <1>10, <1>11, <1>12,
       <1>13, <1>14, <1>15 DEF Next, Step

(* The machine implements the activations: the operands of a call are      *)
(* where push put them and nowhere else, for every program with a layout   *)
(* and whatever the depth of the recursion.                                *)
THEOREM Refinement == Spec => ImplementsActivations
  BY InitRefined, NextRefined, Invariance, PTL DEF Spec, ImplementsActivations, Abstract!Spec

=============================================================================
