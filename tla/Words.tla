-------------------------------- MODULE Words --------------------------------
(***************************************************************************)
(* The data of a running program: the words that a void * can hold, and    *)
(* what the primitive procedures compute from them.                        *)
(***************************************************************************)
EXTENDS Code

CONSTANTS
  Addresses,    \* what the first word of an object that is no Integer may
                \* read as when it is taken for a long long: never 0
  Decimal(_)    \* the text that printf's %lld gives for an integer

-----------------------------------------------------------------------------
(* Words: what a void * of the machine can hold.  Integer, String and      *)
(* Procedure objects never change once built, so a word carries the object *)
(* itself; environments are changed and shared, so a word carries their    *)
(* index.  stmfd pushes the registers env and fp as words too.             *)

Null          == [t |-> "null"]
Unset         == [t |-> "unset"]              \* memory as malloc left it
IntObj(n)     == [t |-> "int", n |-> n]
StrObj(s)     == [t |-> "str", s |-> s]
ProcObj(f, e) == [t |-> "proc", f |-> f, base |-> e]
PrimObj(p, e) == [t |-> "prim", p |-> p, base |-> e]
EnvWord(e)    == [t |-> "env", e |-> e]
FpWord(p)     == [t |-> "fp", p |-> p]

IsProcedure(w) == w.t \in {"proc", "prim"}
IsObject(w)    == w.t \in {"int", "str", "proc", "prim"}

(* What the content of an Integer reads as when w is taken for one: its    *)
(* number, or the address that a String or a Procedure starts with.        *)
ContentsNull(w) == IF w.t = "int" THEN {w.n} ELSE {0}
Contents(w) == IF w.t = "int" THEN {w.n} ELSE Addresses

(* The arguments that the primitive p reads are objects it can read.       *)
Readable(p, as) ==
  CASE p \in IntBinary -> IsObject(as[0]) /\ IsObject(as[1])
    [] p \in IntUnary \cup {"pInt2string"} -> IsObject(as[0])
    [] p = "pEqualString" -> as[0].t = "str" /\ as[1].t = "str"
    [] p = "pPrint" -> as[0].t = "str"

-----------------------------------------------------------------------------
(* long long arithmetic.                                                   *)

Wrap(n) == ((n - IntMin) % (2 * (IntMax + 1))) + IntMin

Abs(n) == IF n < 0 THEN -n ELSE n

(* C divides towards zero and gives the remainder the dividend's sign.     *)
QuotientFloor(a, b) == IF b > 0 THEN a \div b ELSE (-a) \div (-b)
Quotient(a, b) ==
  LET q == Abs(a) \div Abs(b) IN IF (a < 0) = (b < 0) THEN q ELSE -q

Remainder(a, b) == a - b * Quotient(a, b)

Flag(b) == IF b THEN 1 ELSE 0

Apply(p, a, b) ==
  CASE p = "pAdd"          -> Wrap(a + b)
    [] p = "pSub"          -> Wrap(a - b)
    [] p = "pMul"          -> Wrap(a * b)
    [] p = "pDiv"          -> Quotient(a, b)
    [] p = "pRemainder"    -> Remainder(a, b)
    [] p = "pEqual"        -> Flag(a = b)
    [] p = "pGreater"      -> Flag(a > b)
    [] p = "pGreaterEqual" -> Flag(a >= b)
    [] p = "pLess"         -> Flag(a < b)
    [] p = "pLessEqual"    -> Flag(a <= b)
    [] p = "pOr"           -> Flag(a # 0 \/ b # 0)
    [] p = "pAnd"          -> Flag(a # 0 /\ b # 0)

(* idiv traps on a zero divisor and on the one quotient that overflows.    *)
DivTraps(p, a, b) ==
  p \in {"pDiv", "pRemainder"} /\ (b = 0 \/ (a = IntMin /\ b = -1))

=============================================================================
