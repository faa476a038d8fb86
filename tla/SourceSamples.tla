--------------------------- MODULE SourceSamples ---------------------------
(***************************************************************************)
(* Parsed programs: the repository's own tests and small programs, as the  *)
(* parser leaves them after the preprocessor has wrapped them.             *)
(***************************************************************************)
EXTENDS Integers, Syntax

Lambda(params, body) ==
  List(<<Identifier("lambda"),
         List([i \in 1 .. Len(params) |-> Identifier(params[i])])>> \o body)
Define(v, e)  == List(<<Identifier("define"), Identifier(v), e>>)
Assign(v, e)  == List(<<Identifier("set!"), Identifier(v), e>>)
If(p, c, a)   == List(<<Identifier("if"), p, c, a>>)
When(p, c)    == List(<<Identifier("if"), p, c>>)
Begin(xs)     == List(<<Identifier("begin")>> \o xs)
Apply(f, xs)  == List(<<Identifier(f)>> \o xs)
Invoke(f, xs) == List(<<f>> \o xs)
V(v) == Identifier(v)
N(n) == Integer(n)
T(s) == String(s)

Wrapped(body) == Invoke(Lambda(<<>>, body), <<>>)

(* test/test-fib.scm                                                       *)
Fib ==
  Wrapped(<<
    Define("fib", Lambda(<<"n">>, <<
      Define("iter", Lambda(<<"n", "a", "b">>, <<
        If(Apply("=", <<V("n"), N(0)>>),
           V("a"),
           Apply("iter", <<Apply("-", <<V("n"), N(1)>>), V("b"),
                           Apply("+", <<V("a"), V("b")>>)>>))>>)),
      Apply("iter", <<V("n"), N(0), N(1)>>)>>)),
    Apply("print", <<Apply("int->string", <<Apply("fib", <<N(10)>>)>>)>>)>>)

(* test/test-pair-list.scm, up to the second print-pair, with shorter      *)
(* texts; and its lists, of three elements.                                *)
PairDefinitions ==
  <<Define("make-pair", Lambda(<<"v1", "v2">>, <<Lambda(<<"m">>, <<
      If(Apply("string=?", <<V("m"), T("get-car")>>), V("v1"),
      If(Apply("string=?", <<V("m"), T("get-cdr")>>), V("v2"),
      If(Apply("string=?", <<V("m"), T("set-car!")>>),
         Lambda(<<"new-v1">>, <<Assign("v1", V("new-v1"))>>),
      When(Apply("string=?", <<V("m"), T("set-cdr!")>>),
         Lambda(<<"new-v2">>, <<Assign("v2", V("new-v2"))>>)))))>>)>>)),
    Define("cons", Lambda(<<"v1", "v2">>, <<Apply("make-pair", <<V("v1"), V("v2")>>)>>)),
    Define("car", Lambda(<<"p">>, <<Apply("p", <<T("get-car")>>)>>)),
    Define("cdr", Lambda(<<"p">>, <<Apply("p", <<T("get-cdr")>>)>>)),
    Define("set-car!", Lambda(<<"p", "new-v">>,
      <<Invoke(Apply("p", <<T("set-car!")>>), <<V("new-v")>>)>>)),
    Define("set-cdr!", Lambda(<<"p", "new-v">>,
      <<Invoke(Apply("p", <<T("set-cdr!")>>), <<V("new-v")>>)>>)),
    Define("print-pair", Lambda(<<"p">>, <<
      Apply("print", <<T("car:")>>), Apply("print", <<Apply("car", <<V("p")>>)>>),
      Apply("print", <<T("cdr:")>>), Apply("print", <<Apply("cdr", <<V("p")>>)>>)>>))>>

Pairs ==
  Wrapped(PairDefinitions \o <<
    Define("pair", Apply("cons", <<T("a"), T("d")>>)),
    Apply("print-pair", <<V("pair")>>),
    Apply("set-car!", <<V("pair"), T("A")>>),
    Apply("set-cdr!", <<V("pair"), T("D")>>),
    Apply("print-pair", <<V("pair")>>), N(0)>>)

Lists ==
  Wrapped(PairDefinitions \o <<
    Define("print-lst", Lambda(<<"lst", "m">>, <<
      Define("iter", Lambda(<<"lst">>, <<
        If(Apply("null?", <<V("lst")>>), T("ok"),
           Begin(<<If(Apply("string=?", <<V("m"), T("int")>>),
                      Apply("print", <<Apply("int->string", <<Apply("car", <<V("lst")>>)>>)>>),
                      Apply("print", <<Apply("car", <<V("lst")>>)>>)),
                   Apply("iter", <<Apply("cdr", <<V("lst")>>)>>)>>))>>)),
      Apply("iter", <<V("lst")>>)>>)),
    Define("create-lst", Lambda(<<"n">>, <<
      If(Apply("<", <<V("n"), N(0)>>), List(<<>>),
         Apply("cons", <<V("n"), Apply("create-lst", <<Apply("-", <<V("n"), N(1)>>)>>)>>))>>)),
    Define("lst", Apply("create-lst", <<N(2)>>)),
    Apply("print-lst", <<V("lst"), T("int")>>)>>)

(* The list of the repository's README, and its first use.                 *)
ReadmeList ==
  Wrapped(PairDefinitions \o <<
    Define("lst", Apply("cons", <<N(0), Apply("cons", <<N(1), Apply("cons", <<N(2),
                    Apply("cons", <<N(3), List(<<>>)>>)>>)>>)>>)),
    Apply("print", <<Apply("car", <<V("lst")>>)>>)>>)

(* Two closures over variables of their own.                               *)
CounterSource ==
  Wrapped(<<
    Define("make", Lambda(<<"n">>, <<
      Lambda(<<>>, <<Assign("n", Apply("+", <<V("n"), N(1)>>)), V("n")>>)>>)),
    Define("c", Apply("make", <<N(5)>>)),
    Define("d", Apply("make", <<N(2)>>)),
    Apply("c", <<>>), Apply("d", <<>>),
    If(Apply("string=?", <<Apply("int->string", <<Apply("c", <<>>)>>), T("7")>>),
       Apply("print", <<T("seven")>>), Apply("print", <<T("no")>>)),
    Apply("+", <<Apply("c", <<>>), Apply("d", <<>>)>>)>>)

(* Two procedures that call each other, each defined before the other is   *)
(* known to main's code.                                                   *)
Mutual ==
  Wrapped(<<
    Define("even", Lambda(<<"n">>, <<
      If(Apply("=", <<V("n"), N(0)>>), N(1), Apply("odd", <<Apply("-", <<V("n"), N(1)>>)>>))>>)),
    Define("odd", Lambda(<<"n">>, <<
      If(Apply("=", <<V("n"), N(0)>>), N(0), Apply("even", <<Apply("-", <<V("n"), N(1)>>)>>))>>)),
    Apply("even", <<N(3)>>)>>)

(* Calls with too few operands and with too many, after calls that leave   *)
(* operands behind; and prints that come first, last and between.          *)
Operands ==
  {<<>>, <<N(1)>>, <<N(7), N(3)>>, <<T("a")>>,
   <<Apply("-", <<N(5), N(2)>>), N(9)>>, <<N(4), Apply("f", <<N(6)>>), N(8)>>}

Bodies ==
  {<<Apply("-", <<V("x"), V("y")>>)>>, <<V("y"), Assign("x", N(2))>>, <<Define("z", V("y"))>>}

StalePrograms ==
  {Wrapped(<<Define("f", Lambda(<<"x", "y">>, b)), Apply(g, s), Apply(h, t)>>) :
      b \in Bodies, g \in {"f", "+"}, h \in {"f", "not", "print"},
      s \in Operands, t \in Operands}
    \cup {Wrapped(<<s, Apply("print", <<T("a")>>)>> \o t) :
            s \in {N(1), T("b"), Apply("+", <<N(1), N(2)>>), Define("x", N(1))},
            t \in {<<>>, <<N(3)>>, <<Define("y", N(3))>>}}
    \cup {Wrapped(<<Define("x", Apply("print", <<T("a")>>))>> \o t) :
            t \in {<<N(3)>>, <<V("x")>>, <<Apply("-", <<V("x"), N(1)>>)>>, <<If(V("x"), N(1), N(2))>>}}

(* Operands that leave two words, one or none, in every form.              *)
Leaving ==
  {N(3), Begin(<<V("g"), N(4)>>), Begin(<<N(6), V("x")>>), Begin(<<V("+"), N(1), N(2)>>),
   Define("y", N(8)), When(N(0), N(1)), Begin(<<Assign("x", N(9)), V("g")>>)}

ShiftedPrograms ==
  LET calls == {Apply("-", <<s, t>>) : s \in Leaving, t \in Leaving}
                 \cup {Apply("g", <<s>>) : s \in Leaving}
      forms == calls
                 \cup {Apply("-", <<c, N(1)>>) : c \in calls}
                 \cup {Apply("g", <<c>>) : c \in calls}
                 \cup {If(s, N(1), t) : s \in Leaving, t \in Leaving}
                 \cup {Assign("x", s) : s \in Leaving}
                 \cup {Begin(<<V("g"), Assign("x", s), N(2)>>) : s \in Leaving}
      prints == Apply("print", <<Apply("int->string", <<V("x")>>)>>)
  IN {Wrapped(<<Define("x", N(5)),
                Define("g", Lambda(<<"a">>, <<prints, Apply("-", <<V("a"), V("x")>>)>>)), s>>) :
        s \in forms}

(* Calls of procedures with about as many operands and parameters as there *)
(* is room for, one in another and in a branch that is taken or not.       *)
WidePrograms(room) ==
  LET parameters == <<"a", "b", "c", "d", "e">>
      some(n) == [i \in 1 .. n |-> N(10 * i)]
      procedure(n) == Lambda(SubSeq(parameters, 1, n), <<V("x"), V(parameters[n])>>)
      near == (room - 1) .. (room + 1)
      calls == {Apply("f", some(m)) : m \in near} \cup {Apply("+", some(m)) : m \in near}
                 \cup {Apply("f", <<N(1), Apply("f", some(m))>> \o some(k)) : m \in near, k \in {1, room - 2}}
  IN {Wrapped(<<Define("x", N(5)), Define("f", procedure(n)),
                Apply("print", <<T("before")>>), s>>) :
        n \in near, s \in calls \cup {If(N(i), c, N(7)) : i \in {0, 1}, c \in calls}}

-----------------------------------------------------------------------------
(* All small programs of a few shapes.                                     *)

Atoms == {N(1), V("x")}

Small ==
  Atoms
    \cup {Apply(f, <<a>>) : f \in {"f", "not"}, a \in Atoms}
    \cup {Apply("-", <<a, b>>) : a \in Atoms, b \in Atoms}
    \cup {Invoke(a, <<>>) : a \in {V("f"), Lambda(<<>>, <<V("x")>>)}}
    \cup {If(V("x"), a, b) : a \in Atoms, b \in Atoms}
    \cup {When(V("x"), a) : a \in Atoms}
    \cup {Lambda(<<"x">>, <<a>>) : a \in Atoms}
    \cup {Lambda(<<>>, <<Define("x", N(2)), V("x")>>),
          Apply("-", <<V("x"), Invoke(Lambda(<<>>, <<Assign("x", N(6)), V("x")>>), <<>>)>>),
          Apply("print", <<Apply("int->string", <<V("x")>>)>>)}
    \cup {Begin(<<a, V("x")>>) : a \in Atoms}
    \cup {Assign("x", a) : a \in {N(3), V("x")}}
    \cup {Define("x", N(3)), Define("f", Lambda(<<"y">>, <<Apply("-", <<V("x"), V("y")>>)>>)),
          Define("f", Lambda(<<"x">>, <<Define("x", N(4)), V("x")>>))}

Nested ==
  UNION {{Define("x", s), Assign("x", s), Apply("-", <<N(1), s>>), If(s, N(1), N(0)),
          Begin(<<s, N(1)>>), Define("f", Lambda(<<"z">>, <<s>>)),
          Invoke(s, <<N(2)>>)} : s \in Small}

PairPrograms == {Wrapped(<<s, t>>) : s \in Small, t \in Small}
BoundPairPrograms == {Wrapped(<<Define("x", N(5)), s, t>>) : s \in Small, t \in Small}
NestedPrograms ==
  {Wrapped(<<Define("x", N(5)), s>>) : s \in Nested}
    \cup {Wrapped(<<Define("x", N(0)), s, Apply("f", <<V("x")>>)>>) : s \in Nested}

(* Programs that the parser accepts and the generator does not.            *)
MalformedPrograms ==
  {Wrapped(<<List(<<Identifier(form)>> \o rest)>>) :
      form \in {"define", "set!", "if", "lambda"},
      rest \in {<<>>, <<N(1)>>, <<V("x")>>, <<N(1), N(2)>>, <<List(<<N(1)>>), N(2)>>}}
    \cup {Wrapped(<<Numeric>>), Wrapped(<<>>), N(1), V("y"), List(<<>>)}

(* A program with n lambda expressions beside its own.                     *)
ManyLambdas(n) == Wrapped([i \in 1 .. n |-> Lambda(<<>>, <<N(1)>>)])

(* A definition whose value contains another one.                          *)
NestedDefinitions ==
  {Wrapped(<<Define("x", s)>>) :
      s \in {Define("y", N(1)), Begin(<<Define("y", N(1)), V("y")>>),
             Apply("+", <<N(1), Define("y", N(1))>>)}}

(* Parameters that have the names of forms.                                *)
FormParameters ==
  {Wrapped(<<Lambda(<<v>>, <<V(v)>> \o s), Define("f", Lambda(<<v>>, <<Invoke(V("f"), <<V(v)>> \o s)>>))>>) :
      v \in Forms, s \in {<<Define("x", N(1))>>, <<Define("x", N(1)), Define("y", N(2))>>}}
    \cup {Wrapped(<<Lambda(<<v>>, <<Assign(v, s)>>)>>) :
            v \in Forms, s \in {Define("x", N(1)), Begin(<<Define("x", N(1)), Define("y", N(2))>>)}}

(* What the generator may come across in a program.                        *)
RECURSIVE Subnodes(_)
Subnodes(x) ==
  {x} \cup IF IsPair(x) THEN Subnodes(Head(x.items)) \cup Subnodes(List(Tail(x.items))) ELSE {}

=============================================================================
