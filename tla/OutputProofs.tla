---------------------------- MODULE OutputProofs ----------------------------
(***************************************************************************)
(* Proof that the code generator lays its output out as the machine needs  *)
(* it, for all programs and table sizes.                                   *)
(***************************************************************************)
EXTENDS LayoutProofs

-----------------------------------------------------------------------------
(* How the handlers do their tasks.                                        *)

(* A task is done by a line.                                               *)
LEMMA DoneByLine ==
  ASSUME NEW s, ~ Closing(s), NEW l, l.op \notin Openers \cup {"close"},
         \A a, v \in Nat :
           Leads(s, a, v) => (l.op \in PopOps => a >= 1) /\ v <= a + Change(l.op)
  PROVE  Does(s, <<l>>, <<>>)
  <1> SUFFICES ASSUME NEW a \in Nat, NEW v \in Nat, Leads(s, a, v)
               PROVE  \E e, r :
                        /\ PlainLines(<<l>>, Len(<<l>>), e) /\ e[1] = a
                        /\ PlainTasks(<<>>, Len(<<>>), r) /\ r[1] <= e[Len(<<l>>) + 1]
                        /\ r[Len(<<>>) + 1] = v
    BY DEF Does
  <1> DEFINE d == Change(l.op)
             e == [i \in 1 .. 2 |-> IF i = 1 THEN a ELSE a + d]
             r == [i \in 1 .. 1 |-> v]
  <1>1. (l.op \in PopOps => a >= 1) /\ v <= a + d /\ d \in {-1, 0, 1}
    BY DEF Change
  <1>2. a + d \in Nat
    BY <1>1
  <1>3. Len(<<l>>) = 1 /\ <<l>>[1] = l /\ Len(<<>>) = 0
    OBVIOUS
  <1>4. e \in [1 .. 2 -> Nat] /\ e[1] = a /\ e[2] = a + d
    <2> HIDE DEF d
    <2>. QED  BY <1>2
  <1> HIDE DEF e, d
  <1>5. PlainLines(<<l>>, 1, e)
    <2>1. \A i \in 1 .. 1 : i = 1
      OBVIOUS
    <2>2. 1 + 1 = 2
      OBVIOUS
    <2>. QED  BY <1>1, <1>3, <1>4, <2>1, <2>2 DEF PlainLines, d
  <1>6. PlainTasks(<<>>, 0, r) /\ r[1] = v
    BY <1>3 DEF PlainTasks
  <1>. QED  BY <1>1, <1>3, <1>4, <1>5, <1>6

(* A task becomes another one behind a line that leaves the stack alone.   *)
LEMMA DoneByScan ==
  ASSUME NEW s, ~ Closing(s), NEW l, l.op \in {"scan", "outer"},
         NEW t, ~ Closing(t), t.do # "alternative",
         \A a, v \in Nat : Leads(s, a, v) => Leads(t, a, v)
  PROVE  Does(s, <<l>>, <<t>>)
  <1> SUFFICES ASSUME NEW a \in Nat, NEW v \in Nat, Leads(s, a, v)
               PROVE  \E e, r :
                        /\ PlainLines(<<l>>, Len(<<l>>), e) /\ e[1] = a
                        /\ PlainTasks(<<t>>, Len(<<t>>), r) /\ r[1] <= e[Len(<<l>>) + 1]
                        /\ r[Len(<<t>>) + 1] = v
    BY DEF Does
  <1> DEFINE e == [i \in 1 .. 2 |-> a]
             r == [i \in 1 .. 2 |-> IF i = 1 THEN a ELSE v]
  <1>1. Len(<<l>>) = 1 /\ <<l>>[1] = l /\ Len(<<t>>) = 1 /\ <<t>>[1] = t
        /\ 1 + 1 = 2 /\ \A i \in 1 .. 1 : i = 1
    OBVIOUS
  <1>2. e \in [1 .. 2 -> Nat] /\ e[1] = a /\ e[2] = a
        /\ r \in [1 .. 2 -> Nat] /\ r[1] = a /\ r[2] = v
    OBVIOUS
  <1> HIDE DEF e, r
  <1>3. Change(l.op) = 0 /\ l.op \notin Openers \cup {"close"} /\ l.op \notin PopOps
    BY DEF Change, PushOps, PopOps, Openers
  <1>4. PlainLines(<<l>>, 1, e)
    BY <1>1, <1>2, <1>3 DEF PlainLines
  <1>5. PlainTasks(<<t>>, 1, r)
    BY <1>1, <1>2 DEF PlainTasks
  <1>. QED  BY <1>1, <1>2, <1>4, <1>5

(* A task becomes tasks.                                                   *)
LEMMA DoneByTasks ==
  ASSUME NEW s, ~ Closing(s), NEW ts, NEW q, Len(ts) = q,
         \A a, v \in Nat :
           Leads(s, a, v) => \E r : PlainTasks(ts, q, r) /\ r[1] <= a /\ r[q + 1] = v
  PROVE  Does(s, <<>>, ts)
  <1> SUFFICES ASSUME NEW a \in Nat, NEW v \in Nat, Leads(s, a, v)
               PROVE  \E e, r :
                        /\ PlainLines(<<>>, Len(<<>>), e) /\ e[1] = a
                        /\ PlainTasks(ts, Len(ts), r) /\ r[1] <= e[Len(<<>>) + 1]
                        /\ r[Len(ts) + 1] = v
    BY DEF Does
  <1>1. PICK r : PlainTasks(ts, q, r) /\ r[1] <= a /\ r[q + 1] = v
    OBVIOUS
  <1> DEFINE e == [i \in 1 .. 1 |-> a]
  <1>2. Len(<<>>) = 0 /\ e[1] = a /\ PlainLines(<<>>, 0, e)
    BY DEF PlainLines
  <1> HIDE DEF e
  <1>. QED  BY <1>1, <1>2

(* The code of y leaves a word, and t goes on from there.                  *)
LEMMA DoneByTwo ==
  ASSUME NEW s, ~ Closing(s), NEW y, Leaves(y) = 1, NEW t, ~ Closing(t), t.do # "alternative",
         \A a, v \in Nat : Leads(s, a, v) => Leads(t, a + 1, v)
  PROVE  Does(s, <<>>, <<Gen(y), t>>)
  <1> DEFINE ts == <<Gen(y), t>>
  <1>1. ASSUME NEW a \in Nat, NEW v \in Nat, Leads(s, a, v)
        PROVE  \E r : PlainTasks(ts, 2, r) /\ r[1] <= a /\ r[2 + 1] = v
    <2> DEFINE r == [i \in 1 .. 3 |-> IF i = 1 THEN a ELSE IF i = 2 THEN a + 1 ELSE v]
    <2>1. r \in [1 .. 3 -> Nat] /\ r[1] = a /\ r[2] = a + 1 /\ r[3] = v
      OBVIOUS
    <2>2. Len(ts) = 2 /\ ts[1] = Gen(y) /\ ts[2] = t
          /\ (\A i \in 1 .. 2 : i = 1 \/ i = 2) /\ 1 + 1 = 2 /\ 2 + 1 = 3
      OBVIOUS
    <2> HIDE DEF r, ts
    <2>3. Leads(ts[1], r[1], r[2]) /\ ~ Closing(ts[1]) /\ ts[1].do # "alternative"
      BY <2>1, <2>2 DEF Leads, Gen, Closing, Emit
    <2>4. Leads(ts[2], r[2], r[3]) /\ ~ Closing(ts[2]) /\ ts[2].do # "alternative"
      BY <1>1, <2>1, <2>2
    <2>5. PlainTasks(ts, 2, r)
      BY <2>1, <2>2, <2>3, <2>4 DEF PlainTasks
    <2>. QED  BY <2>1, <2>2, <2>5
  <1>2. Len(ts) = 2
    OBVIOUS
  <1> HIDE DEF ts
  <1>3. Does(s, <<>>, ts)
    BY <1>1, <1>2, DoneByTasks
  <1>. QED  BY <1>3 DEF ts

(* A begin leaves a word if one of its expressions does.                   *)
LEMMA DoneByAll ==
  ASSUME NEW x, NEW ys, Len(ys) \in Nat,
         \/ Len(ys) = 0 /\ Leaves(x) = 0
         \/ \E i \in 1 .. Len(ys) : Leaves(x) <= Leaves(ys[i])
  PROVE  Does(Gen(x), <<>>, GenAll(ys))
  <1> DEFINE ts == GenAll(ys)
  <1>0. PICK q : q = Len(ys)
    OBVIOUS
  <1>1. q \in Nat /\ Len(ts) = q /\ \A i \in 1 .. q : ts[i] = Gen(ys[i])
    BY <1>0 DEF GenAll
  <1> HIDE DEF ts
  <1>2. ASSUME NEW i \in 1 .. q
        PROVE  /\ ~ Closing(ts[i]) /\ ts[i].do # "alternative"
               /\ \A a, v \in Nat : v <= a + Leaves(ys[i]) => Leads(ts[i], a, v)
    BY <1>1 DEF Gen, Closing, Emit, Leads
  <1>3. \A y : Leaves(y) \in {0, 1}
    BY DEF Leaves
  <1>4. ASSUME NEW a \in Nat, NEW v \in Nat, Leads(Gen(x), a, v)
        PROVE  \E r : PlainTasks(ts, q, r) /\ r[1] <= a /\ r[q + 1] = v
    <2>1. v <= a + Leaves(x)
      BY <1>4 DEF Leads, Gen, Closing, Emit
    <2>2. CASE q = 0 /\ Leaves(x) = 0
      <3> DEFINE r == [i \in 1 .. 1 |-> v]
      <3>1. PlainTasks(ts, q, r) /\ r[1] <= a /\ r[q + 1] = v
        BY <1>1, <2>1, <2>2 DEF PlainTasks
      <3>. QED  BY <3>1
    <2>3. CASE \E i \in 1 .. q : Leaves(x) <= Leaves(ys[i])
      <3>1. PICK k \in 1 .. q : Leaves(x) <= Leaves(ys[k])
        BY <2>3
      <3>2. v <= a + Leaves(ys[k])
        BY <1>3, <2>1, <3>1
      <3> DEFINE r == [i \in 1 .. (q + 1) |-> IF i <= k THEN a ELSE v]
      <3>3. r \in [1 .. (q + 1) -> Nat] /\ \A i \in 1 .. (q + 1) : r[i] = IF i <= k THEN a ELSE v
        OBVIOUS
      <3>4. r[1] = a /\ r[q + 1] = v
        BY <1>1
      <3> HIDE DEF r
      <3>5. \A i \in 1 .. q : r[i + 1] <= r[i] + Leaves(ys[i])
        <4> TAKE i \in 1 .. q
        <4>1. i \in 1 .. (q + 1) /\ i + 1 \in 1 .. (q + 1)
          BY <1>1
        <4>2. r[i] = (IF i <= k THEN a ELSE v) /\ r[i + 1] = (IF i + 1 <= k THEN a ELSE v)
          BY <3>3, <4>1
        <4>3. PICK z : z = Leaves(ys[i])
          OBVIOUS
        <4>4. z \in {0, 1}
          BY <1>3, <4>3
        <4>5. CASE i < k
          BY <4>2, <4>3, <4>4, <4>5
        <4>6. CASE i = k
          BY <3>2, <4>2, <4>6
        <4>7. CASE i > k
          BY <4>2, <4>3, <4>4, <4>7
        <4>. QED  BY <4>5, <4>6, <4>7
      <3>6. \A i \in 1 .. q : r[i] \in Nat /\ r[i + 1] \in Nat
        BY <1>1, <3>3
      <3>7. PlainTasks(ts, q, r)
        BY <1>1, <1>2, <3>3, <3>5, <3>6 DEF PlainTasks
      <3>. QED  BY <3>4, <3>7
    <2>. QED  BY <1>0, <2>2, <2>3
  <1>5. ~ Closing(Gen(x))
    BY DEF Gen, Closing, Emit
  <1>6. Does(Gen(x), <<>>, ts)
    <2>1. PICK s : s = Gen(x)
      OBVIOUS
    <2>2. ~ Closing(s) /\ Len(ts) = q
      BY <1>1, <1>5, <2>1
    <2>3. \A a, v \in Nat :
            Leads(s, a, v) => \E r : PlainTasks(ts, q, r) /\ r[1] <= a /\ r[q + 1] = v
      BY <1>4, <2>1
    <2>4. Does(s, <<>>, ts)
      BY ONLY <2>2, <2>3, DoneByTasks
    <2>. QED  BY <2>1, <2>4
  <1>. QED  BY <1>6 DEF ts

(* The lines of a call with k operands.                                    *)
LEMMA CallLinesFacts ==
  ASSUME NEW k \in Nat
  PROVE  /\ Len(CallLines(k)) = k + 2
         /\ \A i \in 1 .. k : CallLines(k)[i] = Numbered("arg", i - 1) /\ CallLines(k)[i].op = "arg"
         /\ CallLines(k)[k + 1] = Line("call") /\ CallLines(k)[k + 1].op = "call"
         /\ CallLines(k)[k + 2] = Line("pushret") /\ CallLines(k)[k + 2].op = "pushret"
  <1>1. PICK u, z, X : /\ u = [i \in 1 .. k |-> Numbered("arg", i - 1)]
                       /\ z = <<Line("call"), Line("pushret")>>
                       /\ X = {Numbered("arg", i - 1) : i \in 1 .. k} \cup {Line("call"), Line("pushret")}
    OBVIOUS
  <1>2. u \in Seq(X) /\ Len(u) = k /\ \A i \in 1 .. k : u[i] = Numbered("arg", i - 1)
    <2>1. \A i \in 1 .. k : Numbered("arg", i - 1) \in X
      BY <1>1
    <2>2. u \in [1 .. k -> X]
      BY <1>1, <2>1
    <2>. QED  BY <1>1, <2>2
  <1>3. z \in Seq(X) /\ Len(z) = 2 /\ z[1] = Line("call") /\ z[2] = Line("pushret")
    <2>1. Line("call") \in X /\ Line("pushret") \in X
      BY <1>1
    <2>. QED  BY <1>1, <2>1
  <1>4. /\ Len(u \o z) = k + 2
        /\ \A i \in 1 .. k : (u \o z)[i] = u[i]
        /\ (u \o z)[k + 1] = z[1] /\ (u \o z)[k + 2] = z[2]
    <2>1. k \in Nat /\ u \in Seq(X) /\ Len(u) = k /\ z \in Seq(X) /\ Len(z) = 2
      BY <1>2, <1>3
    <2>c. u \in Seq(X) /\ z \in Seq(X)
      BY <2>1
    <2>a. Len(u \o z) = Len(u) + Len(z)
      BY ONLY <2>c
    <2>b. \A i \in 1 .. (Len(u) + Len(z)) :
            (u \o z)[i] = IF i <= Len(u) THEN u[i] ELSE z[i - Len(u)]
      BY ONLY <2>c
    <2>2. Len(u \o z) = k + 2 /\ \A i \in 1 .. k : (u \o z)[i] = u[i]
      BY <2>1, <2>a, <2>b
    <2>3. /\ k + 1 \in 1 .. (k + 2) /\ ~ (k + 1 <= k) /\ (k + 1) - k = 1
          /\ k + 2 \in 1 .. (k + 2) /\ ~ (k + 2 <= k) /\ (k + 2) - k = 2
      BY <2>1
    <2>. QED  BY <2>1, <2>2, <2>3, <2>b
  <1>5. CallLines(k) = u \o z
    BY <1>1 DEF CallLines
  <1>. QED  BY <1>2, <1>3, <1>4, <1>5 DEF Numbered, Line

(* A call: the procedure and the operands leave a word each, and the lines *)
(* of the call pop them.                                                   *)
CallTasks(y, zs) == <<Gen(y)>> \o zs \o <<Emit(CallLines(Len(zs)))>>

(* An application evaluates its operator and operands, passes the          *)
(* arguments, and calls.                                                   *)
LEMMA DoneByCall ==
  ASSUME NEW x, NEW y, Leaves(y) = 1, NEW S, NEW zs \in Seq(S), Len(zs) <= MaxArgs,
         Gen(y) \in S, Emit(CallLines(Len(zs))) \in S,
         \A i \in 1 .. Len(zs) : \E z : zs[i] = Gen(z) /\ Leaves(z) = 1
  PROVE  Does(Gen(x), <<>>, CallTasks(y, zs))
  <1>1. PICK k, ts, u, w : k = Len(zs) /\ ts = CallTasks(y, zs) /\ u = Gen(y) /\ w = Emit(CallLines(k))
    OBVIOUS
  <1>2. k \in Nat /\ k \in 0 .. MaxArgs /\ Len(zs) = k
    BY <1>1, ValuesAssumption
  <1>3. u \in S /\ w \in S /\ ts = <<u>> \o zs \o <<w>>
    BY <1>1 DEF CallTasks
  <1>4. /\ Len(ts) = k + 2 /\ ts[1] = u /\ ts[k + 2] = w
        /\ \A i \in 2 .. (k + 1) : ts[i] = zs[i - 1]
    <2>1. PICK g : g = <<u>> \o zs
      OBVIOUS
    <2>2. /\ g \in Seq(S) /\ Len(g) = k + 1 /\ g[1] = u
          /\ \A i \in 2 .. (k + 1) : g[i] = zs[i - 1]
      BY ONLY <2>1, <1>2, <1>3, zs \in Seq(S)
    <2>3. /\ ts = g \o <<w>> /\ Len(ts) = (k + 1) + 1 /\ ts[(k + 1) + 1] = w
          /\ \A i \in 1 .. (k + 1) : ts[i] = g[i]
      <3>1. ts = g \o <<w>>
        BY <1>3, <2>1
      <3>. QED  BY ONLY <3>1, <2>2, <1>2, <1>3
    <2>4. 1 \in 1 .. (k + 1) /\ (k + 1) + 1 = k + 2 /\ \A i \in 2 .. (k + 1) : i \in 1 .. (k + 1)
      BY <1>2
    <2>. QED  BY <2>2, <2>3, <2>4
  <1>5. ASSUME NEW i \in 1 .. (k + 1)
        PROVE  \E z : ts[i] = Gen(z) /\ Leaves(z) = 1
    <2>1. CASE i = 1
      BY <1>1, <1>4, <2>1
    <2>2. CASE i # 1
      <3>1. i \in 2 .. (k + 1) /\ i - 1 \in 1 .. k
        BY <1>2, <2>2
      <3>. QED  BY <1>1, <1>4, <3>1
    <2>. QED  BY <2>1, <2>2
  <1>6. ASSUME NEW a \in Nat, NEW v \in Nat, Leads(Gen(x), a, v)
        PROVE  \E r : PlainTasks(ts, k + 2, r) /\ r[1] <= a /\ r[(k + 2) + 1] = v
    <2>1. v <= a + Leaves(x) /\ Leaves(x) \in {0, 1}
      BY <1>6 DEF Leads, Gen, Closing, Emit, Leaves
    <2>2. v <= a + 1
      BY <2>1
    <2> DEFINE r == [i \in 1 .. ((k + 2) + 1) |-> IF i <= k + 2 THEN a + i - 1 ELSE v]
    <2>3. r \in [1 .. ((k + 2) + 1) -> Nat]
          /\ \A i \in 1 .. ((k + 2) + 1) : r[i] = IF i <= k + 2 THEN a + i - 1 ELSE v
      BY <1>2
    <2>4. r[1] = a /\ r[(k + 2) + 1] = v
      BY <1>2
    <2> HIDE DEF r
    <2>5. ASSUME NEW i \in 1 .. (k + 2)
          PROVE  ~ Closing(ts[i]) /\ ts[i].do # "alternative" /\ Leads(ts[i], r[i], r[i + 1])
      <3>1. CASE i <= k + 1
        <4>1. i \in 1 .. (k + 1)
          BY <1>2, <3>1
        <4>2. PICK z : ts[i] = Gen(z) /\ Leaves(z) = 1
          BY <1>5, <4>1
        <4>3. i \in 1 .. ((k + 2) + 1) /\ i + 1 \in 1 .. ((k + 2) + 1) /\ i + 1 <= k + 2 /\ i <= k + 2
          BY <1>2, <4>1
        <4>4. r[i + 1] = a + (i + 1) - 1 /\ r[i] = a + i - 1
          BY <2>3, <4>3
        <4>5. r[i + 1] <= r[i] + 1
          BY <4>4
        <4>. QED  BY <4>2, <4>5 DEF Leads, Gen, Closing, Emit
      <3>2. CASE i = k + 2
        <4>1. ts[i] = Emit(CallLines(k)) /\ i + 1 = (k + 2) + 1 /\ i \in 1 .. ((k + 2) + 1)
          BY <1>1, <1>2, <1>4, <3>2
        <4>2. r[i] = a + k + 1 /\ r[i + 1] = v
          <5>1. r[i] = a + i - 1
            BY <2>3, <3>2, <4>1
          <5>. QED  BY <1>2, <2>4, <3>2, <4>1, <5>1
        <4>3. r[i] >= k + 1 /\ r[i + 1] <= r[i] - k
          BY <1>2, <2>2, <4>2
        <4>4. Leads(ts[i], r[i], r[i + 1])
          BY <1>2, <4>1, <4>3 DEF Leads
        <4>5. ~ Closing(Emit(CallLines(k)))
          <5> SUFFICES ASSUME Emit(CallLines(k)) = Emit(<<Line("close")>>)  PROVE FALSE
            BY DEF Closing
          <5>1. CallLines(k) = <<Line("close")>>
            BY DEF Emit
          <5>2. Len(CallLines(k)) = 1
            BY <5>1
          <5>3. k \in Nat
            BY <1>2
          <5>4. Len(CallLines(k)) = k + 2
            BY <5>3, CallLinesFacts
          <5>. QED  BY ONLY <5>2, <5>3, <5>4
        <4>. QED  BY <4>1, <4>4, <4>5 DEF Emit
      <3>. QED  BY <1>2, <3>1, <3>2
    <2>6. PlainTasks(ts, k + 2, r)
      BY <1>2, <1>4, <2>3, <2>5 DEF PlainTasks
    <2>. QED  BY <2>4, <2>6
  <1>7. ~ Closing(Gen(x))
    BY DEF Gen, Closing, Emit
  <1>8. PICK s, q : s = Gen(x) /\ q = k + 2
    OBVIOUS
  <1>9. ~ Closing(s) /\ Len(ts) = q
    BY <1>4, <1>7, <1>8
  <1>10. \A a, v \in Nat :
           Leads(s, a, v) => \E r : PlainTasks(ts, q, r) /\ r[1] <= a /\ r[q + 1] = v
    BY <1>6, <1>8
  <1>11. Does(s, <<>>, ts)
    BY ONLY <1>9, <1>10, DoneByTasks
  <1>. QED  BY <1>1, <1>8, <1>11

(* The lines of a call.                                                    *)
LEMMA DoneByEmit ==
  ASSUME NEW s, s.do = "emit", ~ Closing(s)
  PROVE  Does(s, s.lines, <<>>)
  <1> SUFFICES ASSUME NEW a \in Nat, NEW v \in Nat, Leads(s, a, v)
               PROVE  \E e, r :
                        /\ PlainLines(s.lines, Len(s.lines), e) /\ e[1] = a
                        /\ PlainTasks(<<>>, Len(<<>>), r) /\ r[1] <= e[Len(s.lines) + 1]
                        /\ r[Len(<<>>) + 1] = v
    BY DEF Does
  <1>1. PICK k \in 0 .. MaxArgs : s = Emit(CallLines(k)) /\ a >= k + 1 /\ v <= a - k
    BY DEF Leads
  <1>2. PICK ls : ls = CallLines(k)
    OBVIOUS
  <1>3. s.lines = ls
    BY <1>1, <1>2 DEF Emit
  <1>4. /\ k \in Nat /\ Len(ls) = k + 2
        /\ \A i \in 1 .. k : ls[i].op = "arg"
        /\ ls[k + 1].op = "call" /\ ls[k + 2].op = "pushret"
    <2>1. k \in Nat
      BY ValuesAssumption
    <2>. QED  BY <1>2, <2>1, CallLinesFacts
  <1> DEFINE e == [i \in 1 .. ((k + 2) + 1) |-> IF i <= k + 2 THEN a - (i - 1) ELSE a - k]
             r == [i \in 1 .. 1 |-> v]
  <1>5. \A i \in 1 .. ((k + 2) + 1) : e[i] = IF i <= k + 2 THEN a - (i - 1) ELSE a - k
    OBVIOUS
  <1>6. e \in [1 .. ((k + 2) + 1) -> Nat] /\ e[1] = a /\ e[(k + 2) + 1] = a - k
    BY <1>1, <1>4
  <1> HIDE DEF e
  <1>7. ASSUME NEW i \in 1 .. (k + 2)
        PROVE  /\ ls[i].op \notin Openers \cup {"close"}
               /\ ls[i].op \in PopOps => e[i] >= 1
               /\ e[i + 1] <= e[i] + Change(ls[i].op)
    <2>1. i \in 1 .. ((k + 2) + 1) /\ i + 1 \in 1 .. ((k + 2) + 1)
      BY <1>4
    <2>2. e[i] = a - (i - 1)
      BY <1>5, <2>1
    <2>3. CASE i <= k
      <3>1. ls[i].op = "arg" /\ i + 1 <= k + 2
        BY <1>4, <2>3
      <3>2. e[i + 1] = a - ((i + 1) - 1)
        BY <1>5, <2>1, <3>1
      <3>3. e[i] >= 1 /\ e[i + 1] <= e[i] + (-1)
        BY <1>1, <1>4, <2>2, <2>3, <3>2
      <3>. QED  BY <3>1, <3>3 DEF Change, PushOps, PopOps, Openers
    <2>4. CASE i = k + 1
      <3>1. ls[i].op = "call" /\ i + 1 <= k + 2
        BY <1>4, <2>4
      <3>2. e[i + 1] = a - ((i + 1) - 1)
        BY <1>5, <2>1, <3>1
      <3>3. e[i] >= 1 /\ e[i + 1] <= e[i] + (-1)
        BY <1>1, <1>4, <2>2, <2>4, <3>2
      <3>. QED  BY <3>1, <3>3 DEF Change, PushOps, PopOps, Openers
    <2>5. CASE i = k + 2
      <3>1. ls[i].op = "pushret"
        BY <1>4, <2>5
      <3>2. e[i + 1] = a - k
        BY <1>6, <2>5
      <3>3. e[i + 1] <= e[i] + 1
        BY <1>1, <1>4, <2>2, <2>5, <3>2
      <3>. QED  BY <3>1, <3>3 DEF Change, PushOps, PopOps, Openers
    <2>. QED  BY <1>4, <2>3, <2>4, <2>5
  <1>8. PlainLines(ls, k + 2, e)
    BY <1>4, <1>6, <1>7 DEF PlainLines
  <1>9. Len(<<>>) = 0 /\ PlainTasks(<<>>, 0, r) /\ r[1] = v
    BY DEF PlainTasks
  <1> HIDE DEF r
  <1>10. r[1] <= e[(k + 2) + 1]
    BY <1>1, <1>6, <1>9
  <1>. QED  BY <1>3, <1>4, <1>6, <1>8, <1>9, <1>10

(* An if without an alternative goes on behind its block.                  *)
LEMMA DoneByNone ==
  ASSUME NEW x, ~ (Length(x) > 3)
  PROVE  Does(Alternative(x), <<>>, <<>>)
  <1>1. PICK s, ts : s = Alternative(x) /\ ts = <<>>
    OBVIOUS
  <1>2. ~ Closing(s) /\ Len(ts) = 0
    BY <1>1 DEF Alternative, Closing, Emit
  <1>3. ASSUME NEW a \in Nat, NEW v \in Nat, Leads(s, a, v)
        PROVE  \E r : PlainTasks(ts, 0, r) /\ r[1] <= a /\ r[0 + 1] = v
    <2> DEFINE r == [i \in 1 .. 1 |-> v]
    <2>1. v <= a
      <3>1. Leads(Alternative(x), a, v)
        BY <1>1, <1>3
      <3>2. v <= a + (IF Length(x) > 3 THEN Leaves(x.items[4]) ELSE 0)
        BY <3>1 DEF Leads, Alternative, Closing, Emit
      <3>. QED  BY <3>2
    <2>2. PlainTasks(ts, 0, r) /\ r[1] = v
      BY <1>1 DEF PlainTasks
    <2> HIDE DEF r
    <2>. QED  BY <2>1, <2>2
  <1>4. \A a, v \in Nat :
          Leads(s, a, v) => \E r : PlainTasks(ts, 0, r) /\ r[1] <= a /\ r[0 + 1] = v
    BY <1>3
  <1>5. Does(s, <<>>, ts)
    <2>1. PICK q : q = 0
      OBVIOUS
    <2>2. /\ ~ Closing(s) /\ Len(ts) = q
          /\ \A a, v \in Nat :
               Leads(s, a, v) => \E r : PlainTasks(ts, q, r) /\ r[1] <= a /\ r[q + 1] = v
      BY <1>2, <1>4, <2>1
    <2>. QED  BY ONLY <2>2, DoneByTasks
  <1>. QED  BY <1>1, <1>5

-----------------------------------------------------------------------------
(* How functions begin.                                                    *)

(* The tasks of a new function, of which t[p] words are there before the   *)
(* p-th from the last.                                                     *)
FreshTasks(f, T, m, t) ==
  /\ Len(T) = m /\ m \in Nat \ {0} /\ t \in [1 .. m -> Nat]
  /\ At(T, 1) = Ending(f) /\ t[1] >= 1
  /\ \A p \in 2 .. m :
       /\ ~ Closing(At(T, p)) /\ At(T, p).do # "alternative"
       /\ Leads(At(T, p), t[p], t[p - 1])

(* A new function is on its way.                                           *)
LEMMA FreshGoes ==
  ASSUME NEW f, NEW S, NEW b \in Seq(S), NEW n, NEW e, PlainLines(b, n, e), e[1] = 0,
         NEW T, NEW m, NEW t, FreshTasks(f, T, m, t), t[m] <= e[n + 1]
  PROVE  Going(f, b, T)
  <1>0. n \in Nat /\ Len(b) = n
    BY DEF PlainLines
  <1> DEFINE D0 == [i \in 1 .. 1 |-> 0]
             h0 == [i \in 0 .. 0 |-> 0]
  <1>1. Shape(<<>>, D0, h0)
    <2>1. Len(<<>>) = 0 /\ 0 + 1 = 1 /\ (\A i \in 1 .. 0 : FALSE)
      OBVIOUS
    <2>2. D0 \in [1 .. 1 -> Nat] /\ D0[1] = 0 /\ h0 \in [0 .. 0 -> Nat] /\ h0[0] = 0
      OBVIOUS
    <2> HIDE DEF D0, h0
    <2>. QED  BY <2>1, <2>2 DEF Shape
  <1>2. D0[1] = 0 /\ h0[0] = 0
    OBVIOUS
  <1> HIDE DEF D0, h0
  <1>3. PICK D, h : Shape(b, D, h) /\ D[n + 1] = e[n + 1] /\ h[n] = 0
    <2>1. PICK z, k : z = <<>> /\ k = 0
      OBVIOUS
    <2>2. Growable(S, z, k, D0, h0, b, n, e)
      BY <1>0, <1>1, <1>2, <2>1 DEF Growable
    <2>3. GrowsTo(z, k, D0, h0, b, n, e)
      BY ONLY <2>2, GrowsPlainly
    <2>4. z \o b = b
      BY <2>1
    <2>5. k + n = n /\ n \in k .. n /\ k = 0
      BY <1>0, <2>1
    <2>. QED  BY <1>2, <2>3, <2>4, <2>5 DEF Level, GrowsTo
  <1>4. /\ Len(T) = m /\ m \in Nat \ {0} /\ t \in [1 .. m -> Nat]
        /\ At(T, 1) = Ending(f) /\ t[1] >= 1
        /\ \A p \in 2 .. m :
             /\ ~ Closing(At(T, p)) /\ At(T, p).do # "alternative"
             /\ Leads(At(T, p), t[p], t[p - 1])
    BY DEF FreshTasks
  <1> DEFINE c == [p \in 1 .. m |-> [t |-> t[p], g |-> 0, w |-> 0]]
  <1>5. c \in Certificates(m) /\ \A p \in 1 .. m : c[p] = [t |-> t[p], g |-> 0, w |-> 0]
    BY <1>4 DEF Certificates
  <1> HIDE DEF c
  <1>6. \A p \in 2 .. m : TaskPending(b, D, h, T, c, p) /\ FollowsIf(b, D, h, T, c, p)
    <2> TAKE p \in 2 .. m
    <2>1. p \in 1 .. m /\ p - 1 \in 1 .. m
      BY <1>4
    <2>a. c[p] = [t |-> t[p], g |-> 0, w |-> 0] /\ c[p - 1] = [t |-> t[p - 1], g |-> 0, w |-> 0]
      BY <1>5, <2>1
    <2>2. c[p].t = t[p] /\ c[p].g = 0 /\ c[p - 1].t = t[p - 1] /\ c[p - 1].g = 0 /\ 0 = 0 - 0
      BY <2>a
    <2>. QED  BY <1>4, <2>2 DEF TaskPending, FollowsIf
  <1>7. c[1].t >= 1 /\ c[1].g = 0 /\ c[m].t <= D[n + 1] /\ c[m].g = h[n]
    <2>1. 1 \in 1 .. m /\ m \in 1 .. m
      BY <1>4
    <2>2. c[1] = [t |-> t[1], g |-> 0, w |-> 0] /\ c[m] = [t |-> t[m], g |-> 0, w |-> 0]
      BY <1>5, <2>1
    <2>. QED  BY <1>3, <1>4, <2>2
  <1>8. Pending(f, b, D, h, T, c)
    BY <1>0, <1>4, <1>5, <1>6, <1>7 DEF Pending
  <1>. QED  BY <1>3, <1>8 DEF Going

-----------------------------------------------------------------------------
(* The invariant.                                                          *)

(* All that is generated is part of the program, and one variable is       *)
(* looked up at a time.                                                    *)
Reached ==
  /\ \A i \in 1 .. Len(tasks) : Reaches(tasks[i]) /\ (i > 1 => tasks[i].do # "scan")
  /\ \A k \in 1 .. Len(lambdas) : lambdas[k].exp \in Expressions
  /\ \A f \in 1 .. Len(functions) : functions[f].parent = envs[f].enclosing

(* Function f of c has its braces matched and its stack balanced, or is on *)
(* the way there as long as T is left to do.                               *)
Laid(c, f, T) ==
  LET b == c[f].body
  IN IF T = <<>> THEN \E D, h : Shape(b, D, h) /\ Complete(b, h)
                 ELSE Going(f, b, T) /\ \A i \in 1 .. Len(b) : b[i].op \notin Ends

(* A line that may stand anywhere in a function.                           *)
Inner(l) ==
  /\ l.op \notin {"env", "enter", "prim", "bind", "return", "exit"}
  /\ l.op = "int" => l.n \in LongLong
  /\ l.op = "str" => l.s \in Texts
  /\ l.op = "arg" => l.n < MaxArgs

(* What line i of function f may be.                                       *)
Fitting(f, i, l) ==
  \/ Inner(l)
  \/ l.op = "env" /\ f = 1 /\ i = 1
  \/ l.op = "enter" /\ f # 1 /\ i = 1
  \/ l.op = "prim" /\ l.p \in Primitives
  \/ l.op = "bind" /\ l.n < MaxArgs
  \/ l.op = "exit" /\ f = 1
  \/ l.op = "return" /\ f # 1

Placed(c, f) ==
  LET b == c[f].body
  IN /\ Len(b) >= 1 /\ b[1].op = IF f = 1 THEN "env" ELSE "enter"
     /\ \A i \in 1 .. Len(b) : Fitting(f, i, b[i])

(* The environments that r0 points to along the lines of f.                *)
Trail(c, f, o) ==
  /\ o \in [1 .. Len(c[f].body) -> 0 .. Len(c)] /\ o[1] = 0
  /\ \A j \in 2 .. Len(c[f].body) : o[j] = After(c, f, o[j - 1], c[f].body[j - 1])

(* Line l finds the environment w in r0.                                   *)
Finds(c, l, w) ==
  /\ l.op \in {"get", "set"} => w # 0 /\ l.n < c[w].size
  /\ l.op = "outer" => w > 1

Scanning(T) == T # <<>> /\ Head(T).do = "scan"

(* All lines of f find one; the last may not, if a scan is about to end    *)
(* beyond the outermost environment.                                       *)
Owned(c, f, T) ==
  LET b == c[f].body
  IN \E o :
       /\ Trail(c, f, o)
       /\ \A j \in 1 .. Len(b) :
            \/ Finds(c, b[j], o[j])
            \/ j = Len(b) /\ b[j].op = "outer" /\ Scanning(T) /\ Head(T).env = 0
       /\ Scanning(T) => Head(T).env = After(c, f, o[Len(b)], b[Len(b)])

TasksOf(f) == IF f = Current THEN tasks ELSE <<>>

LInv ==
  Conventional =>
    /\ Reached
    /\ \A f \in 1 .. Len(functions) :
         /\ Laid(functions, f, TasksOf(f)) /\ Placed(functions, f)
         /\ Owned(functions, f, TasksOf(f))

-----------------------------------------------------------------------------
(* Scans.                                                                  *)

(* The functions c2 are those of c, with lines added to them.              *)
Continues(c, c2) ==
  /\ Len(c) \in Nat /\ Len(c2) \in Nat /\ Len(c) <= Len(c2)
  /\ \A f \in 1 .. Len(c) :
       /\ c2[f].parent = c[f].parent /\ c2[f].size = c[f].size
       /\ c[f].parent \in 0 .. (f - 1)

(* Where r0 points is no matter of the lines to come.                      *)
LEMMA AfterKept ==
  ASSUME NEW c, NEW c2, Continues(c, c2), NEW f \in 1 .. Len(c), NEW o \in 0 .. Len(c), NEW l
  PROVE  After(c2, f, o, l) = After(c, f, o, l) /\ After(c, f, o, l) \in 0 .. Len(c)
  <1>0. f \in 0 .. Len(c) /\ 0 \in 0 .. Len(c)
    BY DEF Continues
  <1>1. CASE o = 0
    BY <1>0, <1>1 DEF After
  <1>2. CASE o # 0
    <2>1. o \in 1 .. Len(c) /\ Len(c) \in Nat
      BY <1>2 DEF Continues
    <2>2. c2[o].parent = c[o].parent /\ c[o].parent \in 0 .. (o - 1)
      BY <2>1 DEF Continues
    <2>3. c[o].parent \in 0 .. Len(c)
      BY <2>1, <2>2
    <2>. QED  BY <1>0, <1>2, <2>2, <2>3 DEF After
  <1>. QED  BY <1>1, <1>2

(* No line but the last of the k lines ls moves r0.                        *)
Still(ls, k) == \A i \in 1 .. (k - 1) : ls[i].op \notin {"scan", "outer"}

GoesOn(c, c2, f, o, b, n, k) ==
  \E o2 :
    /\ Trail(c2, f, o2)
    /\ \A j \in 1 .. n : o2[j] = o[j]
    /\ k >= 1 => o2[n + 1] = After(c, f, o[n], b[n])

(* A trail goes on along the lines that are added, if it is not for scans  *)
(* that it does.                                                           *)
LEMMA TrailGrows ==
  ASSUME NEW c, NEW c2, Continues(c, c2), NEW f \in 1 .. Len(c), NEW o, Trail(c, f, o),
         NEW S, NEW b \in Seq(S), b = c[f].body, NEW n, n = Len(b), n >= 1,
         NEW ls \in Seq(S), NEW k, k = Len(ls), c2[f].body = b \o ls,
         Still(ls, k)
  PROVE  GoesOn(c, c2, f, o, b, n, k)
  <1>1. n \in Nat /\ k \in Nat /\ n >= 1 /\ Len(c) \in Nat /\ Len(c2) \in Nat /\ Len(c) <= Len(c2)
    BY DEF Continues
  <1>2. /\ o \in [1 .. n -> 0 .. Len(c)] /\ o[1] = 0
        /\ \A j \in 2 .. n : o[j] = After(c, f, o[j - 1], b[j - 1])
    BY DEF Trail
  <1> DEFINE x == After(c, f, o[n], b[n])
             o2 == [j \in 1 .. (n + k) |-> IF j <= n THEN o[j] ELSE IF j = n + 1 THEN x ELSE 0]
  <1>3. o[n] \in 0 .. Len(c)
    <2>1. n \in 1 .. n
      BY <1>1
    <2>. QED  BY <1>2, <2>1
  <1>4. x \in 0 .. Len(c)
    BY <1>3, AfterKept
  <1> HIDE DEF x
  <1>5. /\ o2 \in [1 .. (n + k) -> 0 .. Len(c2)]
        /\ \A j \in 1 .. n : o2[j] = o[j]
        /\ k >= 1 => o2[n + 1] = x
        /\ \A j \in (n + 2) .. (n + k) : o2[j] = 0
    <2>1. \A j \in 1 .. (n + k) : j <= n => j \in 1 .. n
      BY <1>1
    <2>2. ASSUME NEW j \in 1 .. n PROVE o[j] \in 0 .. Len(c2)
      <3>1. o[j] \in 0 .. Len(c)
        BY <1>2
      <3>. QED  BY <1>1, <3>1
    <2>3. x \in 0 .. Len(c2) /\ 0 \in 0 .. Len(c2)
      BY <1>1, <1>4
    <2>. QED  BY <1>1, <2>1, <2>2, <2>3
  <1> HIDE DEF o2
  <1>6. PICK b2 : b2 = c2[f].body
    OBVIOUS
  <1>7. /\ Len(b2) = n + k
        /\ \A j \in 1 .. n : b2[j] = b[j]
        /\ \A j \in (n + 1) .. (n + k) : b2[j] = ls[j - n]
    <2>1. b \in Seq(S) /\ ls \in Seq(S)
      OBVIOUS
    <2>2. /\ Len(b \o ls) = Len(b) + Len(ls)
          /\ \A j \in 1 .. (Len(b) + Len(ls)) :
               (b \o ls)[j] = IF j <= Len(b) THEN b[j] ELSE ls[j - Len(b)]
      BY ONLY <2>1
    <2>3. b2 = b \o ls /\ Len(b) = n /\ Len(ls) = k
      BY <1>6
    <2>4. /\ Len(b2) = n + k
          /\ \A j \in 1 .. (n + k) : b2[j] = IF j <= n THEN b[j] ELSE ls[j - n]
      BY <2>2, <2>3
    <2>5. /\ \A j \in 1 .. n : j \in 1 .. (n + k) /\ j <= n
          /\ \A j \in (n + 1) .. (n + k) : j \in 1 .. (n + k) /\ ~(j <= n)
      BY <1>1
    <2>. QED  BY <2>4, <2>5
  <1>8. \A j \in 2 .. (n + k) : o2[j] = After(c2, f, o2[j - 1], b2[j - 1])
    <2> TAKE j \in 2 .. (n + k)
    <2>1. CASE j <= n
      <3>1. j \in 1 .. n /\ j - 1 \in 1 .. n /\ j \in 2 .. n
        BY <1>1, <2>1
      <3>2. o2[j] = After(c, f, o[j - 1], b[j - 1]) /\ o[j - 1] \in 0 .. Len(c)
        BY <1>2, <1>5, <3>1
      <3>3. o2[j - 1] = o[j - 1] /\ b2[j - 1] = b[j - 1]
        BY <1>5, <1>7, <3>1
      <3>. QED  BY <3>2, <3>3, AfterKept
    <2>2. CASE j = n + 1
      <3>1. j - 1 = n /\ n \in 1 .. n /\ k >= 1
        BY <1>1, <2>2
      <3>2. o2[j - 1] = o[n] /\ b2[j - 1] = b[n] /\ o2[j] = x
        BY <1>5, <1>7, <2>2, <3>1
      <3>. QED  BY <1>3, <3>2, AfterKept DEF x
    <2>3. CASE j > n + 1
      <3>1. j \in (n + 2) .. (n + k) /\ j - 1 \in (n + 1) .. (n + k) /\ (j - 1) - n \in 1 .. (k - 1)
        BY <1>1, <2>3
      <3>2. b2[j - 1].op \notin {"scan", "outer"} /\ o2[j] = 0
        BY <1>5, <1>7, <3>1 DEF Still
      <3>. QED  BY <3>2 DEF After
    <2>4. j <= n \/ j = n + 1 \/ j > n + 1
      <3>1. n \in Int /\ j \in Int
        BY <1>1
      <3>. QED  BY ONLY <3>1
    <2>. QED  BY <2>1, <2>2, <2>3, <2>4
  <1>9. o2[1] = 0
    <2>1. 1 \in 1 .. n
      BY <1>1
    <2>. QED  BY <1>2, <1>5, <2>1
  <1>10. Trail(c2, f, o2)
    BY <1>5, <1>6, <1>7, <1>8, <1>9 DEF Trail
  <1>. QED  BY <1>5, <1>10 DEF x, GoesOn

(* What a line finds is no matter of the lines to come.                    *)
LEMMA FindsKept ==
  ASSUME NEW c, NEW c2, Continues(c, c2), NEW w \in 0 .. Len(c), NEW l, Finds(c, l, w)
  PROVE  Finds(c2, l, w)
  <1>1. w # 0 => w \in 1 .. Len(c)
    BY DEF Continues
  <1>. QED  BY <1>1 DEF Finds, Continues

(* What the lines ls add to function f of c while T was left to do, and T2 *)
(* is: a scan goes on where it was, and finds something.                   *)
Scans(c, f, T, ls, T2) ==
  /\ Scanning(T) => Head(T).env # 0
  /\ \A i \in 1 .. (Len(ls) - 1) : ls[i].op \notin {"scan", "outer"}
  /\ \A i \in 1 .. Len(ls) :
       ls[i].op \in {"get", "set", "outer"} =>
         /\ i = 1 /\ Scanning(T)
         /\ \/ Finds(c, ls[1], Head(T).env)
            \/ Len(ls) = 1 /\ ls[1].op = "outer" /\ Scanning(T2) /\ Head(T2).env = 0
  /\ Scanning(T2) =>
       /\ Len(ls) = 1
       /\ \/ ls[1].op = "scan" /\ Head(T2).env = f
          \/ ls[1].op = "outer" /\ Scanning(T) /\ Head(T2).env = c[Head(T).env].parent

(* Lines that are added find what the ones before them are about to find.  *)
LEMMA OwnedGrows ==
  ASSUME NEW c, NEW c2, Continues(c, c2), NEW f \in 1 .. Len(c), NEW T, Owned(c, f, T),
         NEW S, c[f].body \in Seq(S), Len(c[f].body) >= 1,
         NEW ls \in Seq(S), c2[f].body = c[f].body \o ls,
         NEW T2, Scans(c, f, T, ls, T2)
  PROVE  Owned(c2, f, T2)
  <1> DEFINE b == c[f].body
             n == Len(b)
             k == Len(ls)
             b2 == c2[f].body
  <1>1. n \in Nat /\ k \in Nat /\ n >= 1 /\ Len(c) \in Nat
    BY DEF Continues
  <1>2. PICK o :
          /\ Trail(c, f, o)
          /\ \A j \in 1 .. Len(b) :
               \/ Finds(c, b[j], o[j])
               \/ j = Len(b) /\ b[j].op = "outer" /\ Scanning(T) /\ Head(T).env = 0
          /\ Scanning(T) => Head(T).env = After(c, f, o[Len(b)], b[Len(b)])
    BY DEF Owned
  <1>a. Scanning(T) => Head(T).env # 0
    BY DEF Scans
  <1>b. \A i \in 1 .. (k - 1) : ls[i].op \notin {"scan", "outer"}
    BY DEF Scans
  <1>c. \A i \in 1 .. k :
          ls[i].op \in {"get", "set", "outer"} =>
            /\ i = 1 /\ Scanning(T)
            /\ \/ Finds(c, ls[1], Head(T).env)
               \/ k = 1 /\ ls[1].op = "outer" /\ Scanning(T2) /\ Head(T2).env = 0
    BY DEF Scans
  <1>d. Scanning(T2) =>
          /\ k = 1
          /\ \/ ls[1].op = "scan" /\ Head(T2).env = f
             \/ ls[1].op = "outer" /\ Scanning(T) /\ Head(T2).env = c[Head(T).env].parent
    BY DEF Scans
  <1>3. /\ \A j \in 1 .. n : Finds(c, b[j], o[j])
        /\ o \in [1 .. n -> 0 .. Len(c)]
        /\ Scanning(T) => Head(T).env = After(c, f, o[n], b[n])
    BY <1>2, <1>a DEF Trail
  <1>4. o[n] \in 0 .. Len(c)
    <2>1. n \in 1 .. n
      BY <1>1
    <2>. QED  BY <1>3, <2>1
  <1>5. After(c, f, o[n], b[n]) \in 0 .. Len(c)
    <2>1. PICK v, l : v = o[n] /\ l = b[n]
      OBVIOUS
    <2>2. v \in 0 .. Len(c)
      BY <1>4, <2>1
    <2>3. After(c, f, v, l) \in 0 .. Len(c)
      BY <2>2, AfterKept
    <2>. QED  BY <2>1, <2>3
  <1>6. PICK o2 :
          /\ Trail(c2, f, o2)
          /\ \A j \in 1 .. n : o2[j] = o[j]
          /\ k >= 1 => o2[n + 1] = After(c, f, o[n], b[n])
    <2>1. PICK u, m, q : u = b /\ m = n /\ q = k
      OBVIOUS
    <2>2. /\ Trail(c, f, o) /\ u \in Seq(S) /\ u = c[f].body /\ m = Len(u) /\ m >= 1
          /\ q = Len(ls) /\ c2[f].body = u \o ls
          /\ Still(ls, q)
      BY <1>1, <1>2, <1>b, <2>1 DEF Still
    <2>3. GoesOn(c, c2, f, o, u, m, q)
      BY ONLY <2>2, Continues(c, c2), f \in 1 .. Len(c), ls \in Seq(S), TrailGrows
    <2>4. GoesOn(c, c2, f, o, b, n, k)
      BY ONLY <2>1, <2>3
    <2>. QED  BY <2>4 DEF GoesOn
  <1>7. /\ Len(b2) = n + k
        /\ \A j \in 1 .. n : b2[j] = b[j]
        /\ \A j \in (n + 1) .. (n + k) : b2[j] = ls[j - n]
    <2>1. PICK u, z : u = b /\ z = ls
      OBVIOUS
    <2>2. u \in Seq(S) /\ z \in Seq(S)
      BY <2>1
    <2>3. /\ Len(u \o z) = Len(u) + Len(z)
          /\ \A j \in 1 .. (Len(u) + Len(z)) :
               (u \o z)[j] = IF j <= Len(u) THEN u[j] ELSE z[j - Len(u)]
      BY ONLY <2>2
    <2>4. b2 = u \o z /\ Len(u) = n /\ Len(z) = k
      BY <2>1
    <2>5. /\ Len(b2) = n + k
          /\ \A j \in 1 .. (n + k) : b2[j] = IF j <= n THEN b[j] ELSE ls[j - n]
      BY <2>1, <2>3, <2>4
    <2>6. /\ \A j \in 1 .. n : j \in 1 .. (n + k) /\ j <= n
          /\ \A j \in (n + 1) .. (n + k) : j \in 1 .. (n + k) /\ ~(j <= n)
      BY <1>1
    <2>. QED  BY <2>5, <2>6
  <1> HIDE DEF n, k, b2, b
  <1>8. ASSUME NEW j \in 1 .. (n + k)
        PROVE  \/ Finds(c2, b2[j], o2[j])
               \/ j = n + k /\ b2[j].op = "outer" /\ Scanning(T2) /\ Head(T2).env = 0
    <2>1. CASE j <= n
      <3>1. j \in 1 .. n
        BY <1>1, <2>1
      <3>2. Finds(c, b[j], o[j]) /\ o[j] \in 0 .. Len(c) /\ b2[j] = b[j] /\ o2[j] = o[j]
        BY <1>3, <1>6, <1>7, <3>1
      <3>. QED  BY <3>2, FindsKept
    <2>2. CASE j > n
      <3>1. j \in (n + 1) .. (n + k) /\ j - n \in 1 .. k
        BY <1>1, <2>2
      <3>2. b2[j] = ls[j - n]
        BY <1>7, <3>1
      <3>3. CASE b2[j].op \notin {"get", "set", "outer"}
        BY <3>3 DEF Finds
      <3>4. CASE b2[j].op \in {"get", "set", "outer"}
        <4>1. j - n = 1 /\ Scanning(T)
              /\ \/ Finds(c, ls[1], Head(T).env)
                 \/ k = 1 /\ ls[1].op = "outer" /\ Scanning(T2) /\ Head(T2).env = 0
          BY <1>c, <3>1, <3>2, <3>4
        <4>2. j = n + 1 /\ k >= 1 /\ b2[j] = ls[1]
          BY <1>1, <3>1, <3>2, <4>1
        <4>3. o2[j] = Head(T).env /\ Head(T).env \in 0 .. Len(c)
          BY <1>3, <1>5, <1>6, <4>1, <4>2
        <4>4. CASE Finds(c, ls[1], Head(T).env)
          BY <4>2, <4>3, <4>4, FindsKept
        <4>5. CASE k = 1 /\ ls[1].op = "outer" /\ Scanning(T2) /\ Head(T2).env = 0
          BY <4>2, <4>5
        <4>. QED  BY <4>1, <4>4, <4>5
      <3>. QED  BY <3>3, <3>4
    <2>. QED  BY <1>1, <2>1, <2>2
  <1>9. ASSUME Scanning(T2) PROVE Head(T2).env = After(c2, f, o2[n + k], b2[n + k])
    <2>1. k = 1 /\ k >= 1
      BY <1>d, <1>9
    <2>2. n + 1 \in (n + 1) .. (n + k) /\ (n + 1) - n = 1
      BY <1>1, <2>1
    <2>3. b2[n + k] = ls[1] /\ o2[n + k] = After(c, f, o[n], b[n])
      BY <1>6, <1>7, <2>1, <2>2
    <2>4. CASE ls[1].op = "scan" /\ Head(T2).env = f
      BY <2>3, <2>4 DEF After
    <2>5. CASE ls[1].op = "outer" /\ Scanning(T) /\ Head(T2).env = c[Head(T).env].parent
      <3>1. PICK v : v = Head(T).env
        OBVIOUS
      <3>2. v \in 1 .. Len(c) /\ o2[n + k] = v
        BY <1>1, <1>3, <1>5, <1>a, <2>3, <2>5, <3>1
      <3>3. c2[v].parent = c[v].parent /\ v # 0
        BY <3>2 DEF Continues
      <3>. QED  BY <2>3, <2>5, <3>1, <3>2, <3>3 DEF After
    <2>. QED  BY <1>9, <1>d, <2>4, <2>5
  <1>. QED  BY <1>6, <1>7, <1>8, <1>9 DEF Owned, b2

(* A function that nothing is added to has still found what it looked for. *)
LEMMA OwnedKept ==
  ASSUME NEW c, NEW c2, Continues(c, c2), NEW f \in 1 .. Len(c), Owned(c, f, <<>>),
         NEW S, c[f].body \in Seq(S), Len(c[f].body) >= 1, c2[f].body = c[f].body
  PROVE  Owned(c2, f, <<>>)
  <1>1. PICK ls, T : ls = <<>> /\ T = <<>>
    OBVIOUS
  <1>2. ls \in Seq(S) /\ Len(ls) = 0 /\ c[f].body \o ls = c[f].body
    BY <1>1
  <1>3. ~ Scanning(T)
    BY <1>1 DEF Scanning
  <1>4. Scans(c, f, T, ls, T)
    BY <1>2, <1>3 DEF Scans
  <1>5. Owned(c, f, T) /\ c2[f].body = c[f].body \o ls
    BY <1>1, <1>2
  <1>6. Owned(c2, f, T)
    BY <1>2, <1>4, <1>5, OwnedGrows
  <1>. QED  BY <1>1, <1>6

-----------------------------------------------------------------------------
(* Handlers.                                                               *)

(* The parts of a function.                                                *)
LEMMA FunctionFields ==
  ASSUME NEW c \in Seq([parent : Nat, size : Nat, body : Seq(Lines)]), NEW f \in 1 .. Len(c)
  PROVE  c[f].body \in Seq(Lines) /\ c[f].size \in Nat
  <1>1. PICK R, F : R = Seq(Lines) /\ F = [parent : Nat, size : Nat, body : R]
    OBVIOUS
  <1>2. c \in Seq(F)
    BY <1>1
  <1>3. c[f] \in F
    BY ONLY <1>2, f \in 1 .. Len(c), ElementOfSeq
  <1>4. c[f].body \in R /\ c[f].size \in Nat
    BY <1>1, <1>3
  <1>. QED  BY <1>1, <1>4

(* A handler prints the lines ls, and leaves ts to do.                     *)
Handles(ls, ts) ==
  /\ status = "run" /\ tasks # <<>>
  /\ program' = program /\ tasks' = ts \o Tail(tasks)
  /\ Len(functions') = Len(functions)
  /\ \A f \in 1 .. Len(functions) :
       /\ functions'[f].parent = functions[f].parent
       /\ functions'[f].size = functions[f].size
       /\ functions'[f].body =
            IF f = Current THEN functions[f].body \o ls ELSE functions[f].body

(* The handlers do so.                                                     *)
LEMMA HandlerHandles ==
  ASSUME IInv, NEW do, Doing(do), NEW ls \in Seq(Lines), NEW ts, Follow(ts),
         Write(ls) \/ (ls = <<>> /\ UNCHANGED functions), UNCHANGED program
  PROVE  Handles(ls, ts)
  <1>1. Typed /\ Len(functions) > 0 /\ status = "run" /\ tasks # <<>>
    BY TodoFacts
  <1>2. /\ Len(functions') = Len(functions)
        /\ \A f \in 1 .. Len(functions) :
             /\ functions'[f].parent = functions[f].parent
             /\ functions'[f].size = functions[f].size
             /\ functions'[f].body =
                  IF f = Current THEN functions[f].body \o ls ELSE functions[f].body
    <2>1. CASE Write(ls)
      BY <1>1, <2>1, Appended
    <2>2. CASE ls = <<>> /\ UNCHANGED functions
      <3>1. ASSUME NEW f \in 1 .. Len(functions)
            PROVE  functions[f].body \o ls = functions[f].body
        <4>1. functions \in Seq([parent : Nat, size : Nat, body : Seq(Lines)])
          BY <1>1 DEF Typed
        <4> HIDE DEF Lines
        <4>2. functions[f].body \in Seq(Lines)
          BY <4>1, FunctionFields
        <4>. QED  BY <2>2, <4>2
      <3>. QED  BY <2>2, <3>1
    <2>. QED  BY <2>1, <2>2
  <1>3. tasks' = ts \o Tail(tasks) /\ program' = program
    BY DEF Follow
  <1>. QED  BY <1>1, <1>2, <1>3 DEF Handles

(* What the functions are, without their lines.                            *)
LEMMA FunctionFacts ==
  ASSUME IInv
  PROVE  /\ Len(functions) \in Nat
         /\ \A f \in 1 .. Len(functions) :
              /\ functions[f].body \in Seq(Lines) /\ Len(functions[f].body) \in Nat
              /\ envs[f].enclosing \in 0 .. (f - 1)
              /\ functions[f].size = envs[f].capacity
              /\ Len(envs[f].variables) <= functions[f].size
         /\ Len(envs) = Len(functions)
  <1>1. Typed /\ Matched
    BY DEF IInv
  <1>2. functions \in Seq([parent : Nat, size : Nat, body : Seq(Lines)])
    BY <1>1 DEF Typed
  <1> HIDE DEF Lines
  <1>3. \A f \in 1 .. Len(functions) : functions[f].body \in Seq(Lines)
    BY <1>2, FunctionFields
  <1>4. \A f \in 1 .. Len(functions) : Len(functions[f].body) \in Nat
    BY <1>3
  <1>5. Len(functions) \in Nat
    BY <1>2
  <1>6. /\ Len(envs) = Len(functions)
        /\ \A f \in 1 .. Len(functions) :
             /\ envs[f].enclosing \in 0 .. (f - 1)
             /\ functions[f].size = envs[f].capacity
             /\ Len(envs[f].variables) <= functions[f].size
    BY <1>1, <1>5 DEF Matched
  <1>. QED  BY <1>3, <1>4, <1>5, <1>6

(* What is conventional is a matter of the program.                        *)
LEMMA ConventionalKept == ASSUME program' = program PROVE Conventional' <=> Conventional
  BY DEF Conventional, Expressions

(* A handler adds lines to the functions, and nothing else.                *)
LEMMA HandlesContinues ==
  ASSUME IInv, IInv', Reached, NEW ls, NEW ts, Handles(ls, ts)
  PROVE  Continues(functions, functions')
  <1>1. Len(functions) \in Nat /\ Len(functions') = Len(functions)
    BY FunctionFacts DEF Handles
  <1>2. ASSUME NEW f \in 1 .. Len(functions)
        PROVE  /\ functions'[f].parent = functions[f].parent
               /\ functions'[f].size = functions[f].size
               /\ functions[f].parent \in 0 .. (f - 1)
    BY FunctionFacts DEF Handles, Reached
  <1>. QED  BY <1>1, <1>2 DEF Continues

(* A line that may be added to function f.                                 *)
Lasting(f, l) ==
  \/ Inner(l)
  \/ l.op = "exit" /\ f = 1
  \/ l.op = "return" /\ f # 1

(* Lines that may be added stand where they may.                           *)
LEMMA HandlesPlaced ==
  ASSUME IInv, NEW ls \in Seq(Lines), NEW ts, Handles(ls, ts),
         \A f \in 1 .. Len(functions) : Placed(functions, f),
         \A i \in 1 .. Len(ls) : Lasting(Current, ls[i])
  PROVE  \A f \in 1 .. Len(functions) : Placed(functions', f)
  <1> SUFFICES ASSUME NEW f \in 1 .. Len(functions) PROVE Placed(functions', f)
    OBVIOUS
  <1>1. PICK b, b2 : b = functions[f].body /\ b2 = functions'[f].body
    OBVIOUS
  <1>2. /\ b \in Seq(Lines) /\ Len(b) \in Nat /\ Len(b) >= 1
        /\ b[1].op = (IF f = 1 THEN "env" ELSE "enter")
        /\ \A i \in 1 .. Len(b) : Fitting(f, i, b[i])
    BY <1>1, FunctionFacts DEF Placed
  <1>3. CASE f # Current
    BY <1>1, <1>2, <1>3 DEF Placed, Handles
  <1>4. CASE f = Current
    <2>1. b2 = b \o ls
      BY <1>1, <1>4 DEF Handles
    <2>2. b \in Seq(Lines) /\ ls \in Seq(Lines)
      BY <1>2
    <2> HIDE DEF Lines
    <2>3. /\ Len(b \o ls) = Len(b) + Len(ls)
          /\ \A i \in 1 .. (Len(b) + Len(ls)) :
               (b \o ls)[i] = IF i <= Len(b) THEN b[i] ELSE ls[i - Len(b)]
      BY ONLY <2>2
    <2>4. Len(ls) \in Nat
      OBVIOUS
    <2>5. ASSUME NEW i \in 1 .. (Len(b) + Len(ls)) PROVE Fitting(f, i, b2[i])
      <3>1. CASE i <= Len(b)
        <4>1. i \in 1 .. Len(b) /\ b2[i] = b[i]
          BY <1>2, <2>1, <2>3, <3>1
        <4>. QED  BY <1>2, <4>1
      <3>2. CASE i > Len(b)
        <4>1. i - Len(b) \in 1 .. Len(ls) /\ b2[i] = ls[i - Len(b)]
          BY <1>2, <2>1, <2>3, <2>4, <3>2
        <4>2. Lasting(f, b2[i])
          BY <1>4, <4>1
        <4>. QED  BY <4>2 DEF Lasting, Fitting
      <3>. QED  BY <1>2, <2>4, <3>1, <3>2
    <2>6. Len(b2) = Len(b) + Len(ls) /\ b2[1] = b[1]
      <3>1. 1 \in 1 .. (Len(b) + Len(ls)) /\ 1 <= Len(b)
        BY <1>2, <2>4
      <3>. QED  BY <2>1, <2>3, <3>1
    <2>7. Len(b2) >= 1
      BY <1>2, <2>4, <2>6
    <2>. QED  BY <1>1, <1>2, <2>5, <2>6, <2>7 DEF Placed
  <1>. QED  BY <1>3, <1>4

(* A handler that leaves the current function well laid out, and what is   *)
(* left to do within the program.                                          *)
Moves(ls, ts) ==
  /\ \A k \in 1 .. Len(lambdas') : lambdas'[k].exp \in Expressions
  /\ \A f \in 1 .. Len(functions) : envs'[f].enclosing = envs[f].enclosing
  /\ \A i \in 1 .. Len(ts) : Reaches(ts[i]) /\ (i > 1 => ts[i].do # "scan")
  /\ \A i \in 1 .. Len(ls) : Lasting(Current, ls[i])
  /\ Scans(functions, Current, tasks, ls, ts \o Tail(tasks))
  /\ Laid(functions', Current, ts \o Tail(tasks))

(* Only one variable is looked up.                                         *)
LEMMA OneScan ==
  ASSUME IInv, NEW ts \in Seq(Tasks(Len(envs))), NEW ls, Handles(ls, ts), Reached,
         \A i \in 1 .. Len(ts) : Reaches(ts[i]) /\ (i > 1 => ts[i].do # "scan")
  PROVE  \A i \in 1 .. Len(tasks') : Reaches(tasks'[i]) /\ (i > 1 => tasks'[i].do # "scan")
  <1>1. PICK R, u : R = Tasks(Len(envs)) /\ u = Tail(tasks)
    OBVIOUS
  <1>2. tasks \in Seq(R) /\ tasks # <<>> /\ tasks' = ts \o u
    BY <1>1 DEF IInv, Typed, Handles
  <1>3. /\ u \in Seq(R) /\ Len(u) \in Nat
        /\ \A i \in 1 .. Len(u) : i + 1 \in 1 .. Len(tasks) /\ u[i] = tasks[i + 1] /\ i + 1 > 1
    BY ONLY <1>1, <1>2
  <1>4. \A i \in 1 .. Len(u) : Reaches(u[i]) /\ u[i].do # "scan"
    BY <1>3 DEF Reached
  <1>5. ts \in Seq(R)
    BY <1>1
  <1>6. /\ Len(ts \o u) = Len(ts) + Len(u)
        /\ \A i \in 1 .. (Len(ts) + Len(u)) :
             (ts \o u)[i] = IF i <= Len(ts) THEN ts[i] ELSE u[i - Len(ts)]
    BY ONLY <1>3, <1>5
  <1>7. Len(ts) \in Nat
    BY <1>5
  <1>8. ASSUME NEW i \in 1 .. (Len(ts) + Len(u))
        PROVE  Reaches(tasks'[i]) /\ (i > 1 => tasks'[i].do # "scan")
    <2>1. CASE i <= Len(ts)
      <3>1. i \in 1 .. Len(ts) /\ tasks'[i] = ts[i]
        BY <1>2, <1>6, <1>7, <2>1
      <3>. QED  BY <3>1
    <2>2. CASE i > Len(ts)
      <3>1. i - Len(ts) \in 1 .. Len(u) /\ tasks'[i] = u[i - Len(ts)]
        BY <1>2, <1>3, <1>6, <1>7, <2>2
      <3>. QED  BY <1>4, <3>1
    <2>. QED  BY <1>3, <1>7, <2>1, <2>2
  <1>. QED  BY <1>2, <1>6, <1>8

(* Nothing is left to do for the functions before the current one.         *)
LEMMA OthersLaid ==
  ASSUME NEW c, NEW c2, NEW f, c2[f].body = c[f].body, Laid(c, f, <<>>)
  PROVE  Laid(c2, f, <<>>)
  BY DEF Laid

(* A handler that does as much keeps the invariant.                        *)
LEMMA HandlerKeeps ==
  ASSUME IInv, IInv', LInv, NEW ls \in Seq(Lines), NEW ts \in Seq(Tasks(Len(envs))),
         Handles(ls, ts), Conventional => Moves(ls, ts)
  PROVE  LInv'
  <1> SUFFICES ASSUME Conventional'
               PROVE  /\ Reached'
                      /\ \A f \in 1 .. Len(functions') :
                           /\ Laid(functions', f, TasksOf(f)')
                           /\ Placed(functions', f)
                           /\ Owned(functions', f, TasksOf(f)')
    BY DEF LInv, Laid, Placed, Owned, Trail, Finds, Fitting, Inner, Scanning, After
  <1>1. Conventional /\ program' = program
    BY ConventionalKept DEF Handles
  <1>2. /\ Reached
        /\ \A f \in 1 .. Len(functions) :
             /\ Laid(functions, f, TasksOf(f)) /\ Placed(functions, f)
             /\ Owned(functions, f, TasksOf(f))
    BY <1>1 DEF LInv
  <1>3. Moves(ls, ts)
    BY <1>1
  <1>4. Continues(functions, functions')
    BY <1>2, HandlesContinues
  <1>5. Len(functions') = Len(functions) /\ Current' = Current /\ tasks' = ts \o Tail(tasks)
    BY DEF Handles, Current
  <1>6. \A f \in 1 .. Len(functions) : Placed(functions', f)
    BY <1>2, <1>3, HandlesPlaced DEF Moves
  <1>7. Reached'
    <2>1. \A i \in 1 .. Len(tasks') : Reaches(tasks'[i]) /\ (i > 1 => tasks'[i].do # "scan")
      BY <1>2, <1>3, OneScan DEF Moves
    <2>2. Expressions' = Expressions
      BY <1>1 DEF Expressions
    <2>3. \A i \in 1 .. Len(tasks') : Reaches(tasks[i])' /\ (i > 1 => tasks'[i].do # "scan")
      BY <2>1, <2>2 DEF Reaches, FormOf
    <2>4. \A f \in 1 .. Len(functions) : functions'[f].parent = envs'[f].enclosing
      BY <1>2, <1>3 DEF Reached, Moves, Handles
    <2>5. \A k \in 1 .. Len(lambdas') : lambdas'[k].exp \in Expressions'
      BY <1>3, <2>2 DEF Moves
    <2>. QED  BY <1>5, <2>3, <2>4, <2>5 DEF Reached
  <1>8. ASSUME NEW f \in 1 .. Len(functions)
        PROVE  Laid(functions', f, TasksOf(f)') /\ Owned(functions', f, TasksOf(f)')
    <2>0. functions[f].body \in Seq(Lines) /\ Len(functions[f].body) >= 1
      BY <1>2, FunctionFacts DEF Placed
    <2>1. CASE f # Current
      <3>1. functions'[f].body = functions[f].body
        BY <2>1 DEF Handles
      <3>2. TasksOf(f) = <<>> /\ TasksOf(f)' = <<>>
        BY <1>5, <2>1 DEF TasksOf
      <3>3. Laid(functions, f, <<>>) /\ Owned(functions, f, <<>>)
        BY <1>2, <3>2
      <3>4. Laid(functions', f, <<>>)
        BY <3>1, <3>3, OthersLaid
      <3>5. Owned(functions', f, <<>>)
        <4> HIDE DEF Lines
        <4>. QED  BY <1>4, <2>0, <3>1, <3>3, OwnedKept
      <3>. QED  BY <3>2, <3>4, <3>5
    <2>2. CASE f = Current
      <3>1. functions'[f].body = functions[f].body \o ls
        BY <2>2 DEF Handles
      <3>2. PICK T2 : T2 = ts \o Tail(tasks)
        OBVIOUS
      <3>3. TasksOf(f) = tasks /\ TasksOf(f)' = T2
        BY <1>5, <2>2, <3>2 DEF TasksOf
      <3>4. Laid(functions', f, T2) /\ Scans(functions, f, tasks, ls, T2)
        BY <1>3, <2>2, <3>2 DEF Moves
      <3>5. Owned(functions, f, tasks)
        BY <1>2, <3>3
      <3>6. Owned(functions', f, T2)
        <4> HIDE DEF Lines
        <4>. QED  BY <1>4, <2>0, <3>1, <3>4, <3>5, OwnedGrows
      <3>. QED  BY <3>3, <3>4, <3>6
    <2>. QED  BY <2>1, <2>2
  <1>. QED  BY <1>5, <1>6, <1>7, <1>8

-----------------------------------------------------------------------------
(* What the handlers find.                                                 *)

(* The current function is on its way, and the next task is part of the    *)
(* program.                                                                *)
LEMMA HeadFacts ==
  ASSUME IInv, LInv, Conventional, NEW do, Doing(do)
  PROVE  /\ Reached /\ program \in Nodes
         /\ functions[Current].body \in Seq(Lines) /\ Len(functions[Current].body) >= 1
         /\ Going(Current, functions[Current].body, tasks)
         /\ \A i \in 1 .. Len(functions[Current].body) : functions[Current].body[i].op \notin Ends
         /\ tasks \in Seq(Tasks(Len(envs))) /\ tasks # <<>> /\ Len(tasks) >= 1
         /\ At(tasks, 1) = Ending(Current)
         /\ do # "emit" => Len(tasks) >= 2
         /\ Reaches(Todo) /\ Todo.do = do
         /\ Scanning(tasks) <=> do = "scan"
  <1>1. Typed /\ tasks # <<>> /\ Current \in 1 .. Len(functions) /\ Todo.do = do
    BY TodoFacts DEF Doing
  <1>2. tasks \in Seq(Tasks(Len(envs)))
    BY <1>1 DEF Typed
  <1>3. Len(tasks) \in Nat /\ Len(tasks) >= 1 /\ Todo = tasks[1]
    <2> HIDE DEF Tasks
    <2>. QED  BY <1>1, <1>2 DEF Todo
  <1>4. /\ Reached /\ Laid(functions, Current, TasksOf(Current)) /\ Placed(functions, Current)
    BY <1>1 DEF LInv
  <1>5. TasksOf(Current) = tasks
    BY DEF TasksOf
  <1>6. /\ Going(Current, functions[Current].body, tasks)
        /\ \A i \in 1 .. Len(functions[Current].body) : functions[Current].body[i].op \notin Ends
    BY <1>1, <1>4, <1>5 DEF Laid
  <1>7. functions[Current].body \in Seq(Lines) /\ Len(functions[Current].body) >= 1
    BY <1>1, <1>4, FunctionFacts DEF Placed
  <1>8. At(tasks, 1) = Ending(Current)
    BY <1>6 DEF Going, Pending
  <1>9. do # "emit" => Len(tasks) >= 2
    <2>1. Len(tasks) = 1 => Todo = Ending(Current)
      <3>1. Len(tasks) = 1 => Len(tasks) + 1 - 1 = 1
        BY <1>3
      <3>. QED  BY <1>3, <1>8, <3>1 DEF At
    <2>2. Ending(Current).do = "emit"
      BY DEF Ending, Emit
    <2>3. Len(tasks) = 1 => do = "emit"
      BY <1>1, <2>1, <2>2
    <2>4. Len(tasks) = 1 \/ Len(tasks) >= 2
      BY <1>3
    <2>. QED  BY <2>3, <2>4
  <1>10. Reaches(Todo)
    <2>1. 1 \in 1 .. Len(tasks)
      BY <1>3
    <2>. QED  BY <1>3, <1>4, <2>1 DEF Reached
  <1>11. Scanning(tasks) <=> do = "scan"
    BY <1>1 DEF Scanning, Todo
  <1>12. program \in Nodes
    BY <1>1, NodesAssumption DEF Typed
  <1>. QED  BY <1>1, <1>2, <1>3, <1>4, <1>6, <1>7, <1>8, <1>9, <1>10, <1>11, <1>12

(* A handler that looks nothing up, and has been looking nothing up.       *)
Quiet(ls, ts) ==
  /\ \A k \in 1 .. Len(lambdas') : lambdas'[k].exp \in Expressions
  /\ \A f \in 1 .. Len(functions) : envs'[f].enclosing = envs[f].enclosing
  /\ \A i \in 1 .. Len(ts) : Reaches(ts[i]) /\ ts[i].do # "scan"
  /\ \A i \in 1 .. Len(ls) :
       Lasting(Current, ls[i]) /\ ls[i].op \notin {"scan", "outer", "get", "set"}
  /\ Laid(functions', Current, ts \o Tail(tasks))

(* A handler that looks no variable up keeps the invariant.                *)
LEMMA QuietKeeps ==
  ASSUME IInv, IInv', LInv, NEW do, Doing(do), do # "scan",
         NEW ls \in Seq(Lines), NEW ts \in Seq(Tasks(Len(envs))), Handles(ls, ts),
         Conventional => Quiet(ls, ts)
  PROVE  LInv'
  <1> SUFFICES ASSUME Conventional PROVE Moves(ls, ts)
    BY HandlerKeeps
  <1>1. Quiet(ls, ts)
    OBVIOUS
  <1>2. ~ Scanning(tasks) /\ Reached
    BY HeadFacts
  <1>3. \A i \in 1 .. Len(ts) : Reaches(ts[i]) /\ (i > 1 => ts[i].do # "scan") /\ ts[i].do # "scan"
    BY <1>1 DEF Quiet
  <1>4. ~ Scanning(ts \o Tail(tasks))
    <2> SUFFICES ASSUME Scanning(ts \o Tail(tasks)) PROVE FALSE
      OBVIOUS
    <2>1. tasks' = ts \o Tail(tasks) /\ tasks' # <<>> /\ Head(tasks').do = "scan"
      BY DEF Scanning, Handles
    <2>2. PICK R, u : R = Tasks(Len(envs)) /\ u = Tail(tasks)
      OBVIOUS
    <2>3. tasks \in Seq(R) /\ tasks # <<>> /\ ts \in Seq(R)
      BY <2>2 DEF IInv, Typed, Handles
    <2>4. CASE ts = <<>>
      <3>1. u # <<>> /\ Head(u).do = "scan"
        <4>1. u \in Seq(R)
          BY ONLY <2>2, <2>3
        <4>2. <<>> \o u = u
          BY ONLY <4>1
        <4>. QED  BY <2>1, <2>2, <2>4, <4>2
      <3>2. 2 \in 1 .. Len(tasks) /\ Head(u) = tasks[2]
        BY ONLY <2>2, <2>3, <3>1
      <3>. QED  BY <1>2, <3>1, <3>2 DEF Reached
    <2>5. CASE ts # <<>>
      <3>1. u \in Seq(R)
        BY ONLY <2>2, <2>3
      <3>2. 1 \in 1 .. Len(ts) /\ Head(ts \o u) = ts[1]
        BY ONLY <2>3, <2>5, <3>1
      <3>. QED  BY <1>3, <2>1, <2>2, <3>2
    <2>. QED  BY <2>4, <2>5
  <1>5. Scans(functions, Current, tasks, ls, ts \o Tail(tasks))
    <2>1. Len(ls) \in Nat /\ \A i \in 1 .. (Len(ls) - 1) : i \in 1 .. Len(ls)
      OBVIOUS
    <2>2. \A i \in 1 .. Len(ls) : ls[i].op \notin {"scan", "outer", "get", "set"}
      BY <1>1 DEF Quiet
    <2>. QED  BY <1>2, <1>4, <2>1, <2>2 DEF Scans
  <1>. QED  BY <1>1, <1>3, <1>5 DEF Quiet, Moves

(* A function on its way, as the invariant says.                           *)
LEMMA GoingLaid ==
  ASSUME IInv, LInv, Conventional, NEW do, Doing(do), Len(tasks) >= 2,
         NEW ls \in Seq(Lines), NEW ts, Handles(ls, ts),
         \A i \in 1 .. Len(ls) : ls[i].op \notin Ends,
         Going(Current, functions[Current].body \o ls, ts \o Tail(tasks))
  PROVE  Laid(functions', Current, ts \o Tail(tasks))
  <1>1. Current \in 1 .. Len(functions)
    BY TodoFacts
  <1>2. functions'[Current].body = functions[Current].body \o ls
    BY <1>1 DEF Handles
  <1>3. ts \o Tail(tasks) # <<>>
    <2>1. Len(ts \o Tail(tasks)) \in Nat \ {0}
      BY DEF Going, Pending
    <2>2. Len(<<>>) = 0
      OBVIOUS
    <2>. QED  BY <2>1, <2>2
  <1>4. PICK b : b = functions[Current].body
    OBVIOUS
  <1>5. b \in Seq(Lines) /\ ls \in Seq(Lines)
        /\ \A i \in 1 .. Len(b) : b[i].op \notin Ends
    BY <1>4, HeadFacts
  <1> HIDE DEF Lines
  <1>6. /\ Len(b \o ls) = Len(b) + Len(ls)
        /\ \A i \in 1 .. (Len(b) + Len(ls)) :
             (b \o ls)[i] = IF i <= Len(b) THEN b[i] ELSE ls[i - Len(b)]
    BY ONLY <1>5
  <1>7. ASSUME NEW i \in 1 .. (Len(b) + Len(ls)) PROVE (b \o ls)[i].op \notin Ends
    <2>1. Len(b) \in Nat /\ Len(ls) \in Nat
      BY <1>5
    <2>2. CASE i <= Len(b)
      <3>1. i \in 1 .. Len(b)
        BY <2>1, <2>2
      <3>. QED  BY <1>5, <1>6, <2>2, <3>1
    <2>3. CASE i > Len(b)
      <3>1. i - Len(b) \in 1 .. Len(ls) /\ ~ (i <= Len(b))
        BY <2>1, <2>3
      <3>. QED  BY <1>6, <3>1
    <2>. QED  BY <2>1, <2>2, <2>3
  <1>. QED  BY <1>2, <1>3, <1>4, <1>6, <1>7 DEF Laid

(* What the plain lines and tasks of a handler do.                         *)
LEMMA PlainLaid ==
  ASSUME IInv, LInv, Conventional, NEW do, Doing(do), Len(tasks) >= 2,
         NEW ls \in Seq(Lines), NEW ts \in Seq(Tasks(Len(envs))), Handles(ls, ts),
         \A i \in 1 .. Len(ls) : ls[i].op \notin Ends, Does(Todo, ls, ts)
  PROVE  Laid(functions', Current, ts \o Tail(tasks))
  <1>1. /\ functions[Current].body \in Seq(Lines) /\ Going(Current, functions[Current].body, tasks)
        /\ tasks \in Seq(Tasks(Len(envs)))
    BY HeadFacts
  <1>2. Does(Head(tasks), ls, ts)
    BY DEF Todo
  <1>3. Going(Current, functions[Current].body \o ls, ts \o Tail(tasks))
    <2> HIDE DEF Tasks, Lines
    <2>. QED  BY <1>1, <1>2, PlainGoes
  <1>. QED  BY <1>3, GoingLaid

-----------------------------------------------------------------------------
(* The handlers, one by one.                                               *)

(* What a task needs and leaves.                                           *)
LEMMA LeadsFacts ==
  ASSUME NEW s, NEW a \in Nat, NEW v \in Nat, Leads(s, a, v)
  PROVE  /\ s.do = "gen" => v <= a + Leaves(s.exp)
         /\ s.do \in {"bind", "assign"} => a >= 1 /\ v <= a - 1
         /\ s.do = "consequent" => a >= 1 /\ v <= a - 1 + Leaves(s.exp)
         /\ s.do = "scan" =>
              (s.op = "get" /\ v <= a + 1) \/ (s.op = "set" /\ a >= 1 /\ v <= a - 1)
         /\ s.do = "emit" =>
              Closing(s) \/ \E k \in 0 .. MaxArgs : s = Emit(CallLines(k))
  <1>1. Closing(s) => s.do = "emit"
    BY DEF Closing, Emit
  <1>2. \A k : s = Emit(CallLines(k)) => s.do = "emit"
    BY DEF Emit
  <1>. QED  BY <1>1, <1>2 DEF Leads

(* The next task, as the handlers make it.                                 *)
LEMMA TodoIs ==
  ASSUME IInv, NEW do, Doing(do)
  PROVE  /\ do = "gen" => Todo = Gen(Exp)
         /\ do = "consequent" => Todo = Consequent(Exp)
         /\ do = "alternative" => Todo = Alternative(Exp)
         /\ do # "emit" => ~ Closing(Todo)
         /\ Head(tasks) = Todo
  <1>1. Todo.do = do /\ tasks \in Seq(Tasks(Len(envs))) /\ tasks # <<>>
    BY DEF Doing, IInv, Typed
  <1>2. Todo \in Tasks(Len(envs))
    <2> HIDE DEF Tasks
    <2>. QED  BY <1>1 DEF Todo
  <1>3. do = "gen" => Todo \in [do : {"gen"}, exp : Nodes]
    BY <1>1, <1>2 DEF Tasks
  <1>4. do = "consequent" => Todo \in [do : {"consequent"}, exp : Longer(2)]
    BY <1>1, <1>2 DEF Tasks
  <1>5. do = "alternative" => Todo \in [do : {"alternative"}, exp : Longer(3)]
    BY <1>1, <1>2 DEF Tasks
  <1>6. do # "emit" => ~ Closing(Todo)
    BY <1>1 DEF Closing, Emit
  <1>. QED  BY <1>3, <1>4, <1>5, <1>6 DEF Gen, Consequent, Alternative, Exp, Todo

(* Lambda expressions and environments that a handler leaves alone.        *)
LEMMA TablesKept ==
  ASSUME Reached, UNCHANGED <<envs, lambdas>>
  PROVE  /\ \A k \in 1 .. Len(lambdas') : lambdas'[k].exp \in Expressions
         /\ \A f \in 1 .. Len(functions) : envs'[f].enclosing = envs[f].enclosing
  BY DEF Reached

(* Line l does what the next task asks for.                                *)
Fulfils(l) ==
  /\ Inner(l) /\ l.op \notin {"scan", "outer", "get", "set"} \cup Openers \cup {"close"} \cup Ends
  /\ \A a, v \in Nat :
       Leads(Todo, a, v) => (l.op \in PopOps => a >= 1) /\ v <= a + Change(l.op)

(* A handler that prints a line.                                           *)
LEMMA LineKeeps ==
  ASSUME IInv, IInv', LInv, NEW do, Doing(do), do \notin {"scan", "emit"},
         NEW l \in Lines, Write(<<l>>), Return, UNCHANGED program,
         Conventional => Fulfils(l),
         Conventional => \A k \in 1 .. Len(lambdas') : lambdas'[k].exp \in Expressions,
         \A f \in 1 .. Len(functions) : envs'[f].enclosing = envs[f].enclosing
  PROVE  LInv'
  <1>1. PICK ls, ts : ls = <<l>> /\ ts = <<>>
    OBVIOUS
  <1>2. ls \in Seq(Lines) /\ ts \in Seq(Tasks(Len(envs))) /\ Len(ts) = 0
        /\ Len(ls) = 1 /\ \A i \in 1 .. Len(ls) : ls[i] = l
    <2> HIDE DEF Lines, Tasks
    <2>. QED  BY <1>1
  <1>3. Handles(ls, ts)
    BY <1>1, <1>2, HandlerHandles DEF Return
  <1>4. ASSUME Conventional PROVE Quiet(ls, ts)
    <2>1. Inner(l) /\ l.op \notin {"scan", "outer", "get", "set"} \cup Openers \cup {"close"} \cup Ends
      BY <1>4 DEF Fulfils
    <2>2. \A a, v \in Nat :
            Leads(Todo, a, v) => (l.op \in PopOps => a >= 1) /\ v <= a + Change(l.op)
      BY <1>4 DEF Fulfils
    <2>3. ~ Closing(Todo) /\ l.op \notin Openers \cup {"close"}
      BY <2>1, TodoIs
    <2>4. Does(Todo, <<l>>, <<>>)
      BY ONLY <2>2, <2>3, DoneByLine
    <2>5. Len(tasks) >= 2
      BY <1>4, HeadFacts
    <2>6. Laid(functions', Current, ts \o Tail(tasks))
      <3>1. Does(Todo, ls, ts) /\ \A i \in 1 .. Len(ls) : ls[i].op \notin Ends
        BY <1>1, <1>2, <2>1, <2>4
      <3>. QED  BY <1>2, <1>3, <1>4, <2>5, <3>1, PlainLaid
    <2>7. \A i \in 1 .. Len(ls) :
            Lasting(Current, ls[i]) /\ ls[i].op \notin {"scan", "outer", "get", "set"}
      BY <1>2, <2>1 DEF Lasting
    <2>. QED  BY <1>2, <1>4, <2>6, <2>7 DEF Quiet
  <1>. QED  BY <1>2, <1>3, <1>4, QuietKeeps

(* A handler that leaves tasks for the next one.                           *)
LEMMA TasksKeep ==
  ASSUME IInv, IInv', LInv, NEW do, Doing(do), do \notin {"scan", "emit"},
         NEW ts \in Seq(Tasks(Len(envs))), Follow(ts),
         UNCHANGED <<program, envs, lambdas, functions>>,
         Conventional => Does(Todo, <<>>, ts),
         Conventional => \A i \in 1 .. Len(ts) : Reaches(ts[i]) /\ ts[i].do # "scan"
  PROVE  LInv'
  <1>1. PICK ls : ls = <<>>
    OBVIOUS
  <1>2. ls \in Seq(Lines) /\ Len(ls) = 0
    BY <1>1
  <1>3. Handles(ls, ts)
    BY <1>1, <1>2, HandlerHandles
  <1>4. ASSUME Conventional PROVE Quiet(ls, ts)
    <2>1. Len(tasks) >= 2 /\ Reached
      BY <1>4, HeadFacts
    <2>2. Laid(functions', Current, ts \o Tail(tasks))
      <3>1. Does(Todo, ls, ts) /\ \A i \in 1 .. Len(ls) : ls[i].op \notin Ends
        BY <1>1, <1>2, <1>4
      <3>. QED  BY <1>2, <1>3, <1>4, <2>1, <3>1, PlainLaid
    <2>3. /\ \A k \in 1 .. Len(lambdas') : lambdas'[k].exp \in Expressions
          /\ \A f \in 1 .. Len(functions) : envs'[f].enclosing = envs[f].enclosing
      BY <2>1, TablesKept
    <2>. QED  BY <1>2, <1>4, <2>2, <2>3 DEF Quiet
  <1>. QED  BY <1>2, <1>3, <1>4, QuietKeeps

(* The line of a literal holds its value.                                  *)
LEMMA LiteralFacts ==
  ASSUME NEW x \in Nodes
  PROVE  /\ 0 \in LongLong
         /\ Kind(x) = "integer" => x.integer \in LongLong
         /\ Kind(x) = "string" => x.string \in Texts
  <1>1. 0 \in LongLong
    BY ValuesAssumption DEF LongLong, IntMin
  <1>2. x.type \in {"string", "integer", "numeric", "identifier", "list"}
    BY NodesAssumption
  <1>3. x.type = "list" => Kind(x) \in {"null", "application"} \cup Forms
    <2>1. ASSUME NEW tag \in Forms, Tagged(x, tag) PROVE Head(x.items).identifier = tag
      BY <2>1 DEF Tagged, Identifier
    <2>2. CASE \E tag \in Forms : Tagged(x, tag)
      <3>1. Head(x.items).identifier \in Forms
        BY <2>1, <2>2
      <3>. QED  BY <3>1 DEF Kind
    <2>3. CASE ~ \E tag \in Forms : Tagged(x, tag)
      BY <2>3 DEF Kind
    <2>. QED  BY <2>2, <2>3
  <1>4. x.type # "list" => Kind(x) \in {"null", x.type}
    BY DEF Kind
  <1>5. \A type \in {"integer", "string"} : type \notin {"null", "application"} \cup Forms
    BY DEF Forms
  <1>6. \A type \in {"integer", "string"} : Kind(x) = type => x.type = type
    <2> HIDE DEF Forms
    <2>. QED  BY <1>3, <1>4, <1>5
  <1>. QED  BY <1>1, <1>6, ValuesAssumption

(* A literal pushes a word.                                                *)
LEMMA GenLiteralLays == ASSUME IInv, IInv', LInv, GenLiteral PROVE LInv'
  <1>1. Doing("gen") /\ Exp \in Nodes /\ Return
        /\ UNCHANGED <<program, envs, lambdas, stdout, status>>
    <2>1. Doing("gen") /\ Return /\ UNCHANGED <<program, envs, lambdas, stdout, status>>
      BY DEF GenLiteral, Generating
    <2>. QED  BY <2>1, TodoFacts
  <1>2. PICK l : /\ Write(<<l>>) /\ l \in Lines /\ l.op \in {"int", "str"}
                 /\ l.op = "int" => l.n \in LongLong
                 /\ l.op = "str" => l.s \in Texts
    <2>1. Write(<<CASE Kind(Exp) = "null"    -> Numbered("int", 0)
                    [] Kind(Exp) = "integer" -> Numbered("int", Exp.integer)
                    [] Kind(Exp) = "string"  -> [op |-> "str", s |-> Exp.string]>>)
      BY DEF GenLiteral
    <2>2. Kind(Exp) \in {"null", "integer", "string"}
      BY DEF GenLiteral, Generating
    <2>3. 0 \in Values /\ Exp.integer \in Values
      BY <1>1 DEF Values
    <2>4. /\ Numbered("int", 0) \in Lines /\ Numbered("int", Exp.integer) \in Lines
          /\ [op |-> "str", s |-> Exp.string] \in Lines
      BY <1>1, <2>3, LineFacts DEF Common
    <2> HIDE DEF Write, Lines
    <2>5. CASE Kind(Exp) = "null"
      <3>1. Write(<<Numbered("int", 0)>>)
        BY <2>1, <2>5
      <3>2. Numbered("int", 0).op = "int" /\ Numbered("int", 0).n \in LongLong
        BY <1>1, LiteralFacts DEF Numbered
      <3>. QED  BY <2>4, <3>1, <3>2
    <2>6. CASE Kind(Exp) = "integer"
      <3>1. Write(<<Numbered("int", Exp.integer)>>)
        BY <2>1, <2>6
      <3>2. Numbered("int", Exp.integer).op = "int" /\ Numbered("int", Exp.integer).n \in LongLong
        BY <1>1, <2>6, LiteralFacts DEF Numbered
      <3>. QED  BY <2>4, <3>1, <3>2
    <2>7. CASE Kind(Exp) = "string"
      <3>1. Write(<<[op |-> "str", s |-> Exp.string]>>)
        BY <2>1, <2>7
      <3>2. Exp.string \in Texts
        BY <1>1, <2>7, LiteralFacts
      <3>3. PICK l : l = [op |-> "str", s |-> Exp.string]
        OBVIOUS
      <3>4. l.op = "str" /\ l.s \in Texts
        BY <3>2, <3>3
      <3>. QED  BY <2>4, <3>1, <3>3, <3>4
    <2>. QED  BY <2>2, <2>5, <2>6, <2>7
  <1>3. ASSUME Conventional PROVE Fulfils(l)
    <2>1. Inner(l) /\ l.op \notin {"scan", "outer", "get", "set"} \cup Openers \cup {"close"} \cup Ends
      BY <1>2 DEF Inner, Openers, Ends
    <2>2. l.op \notin PopOps /\ Change(l.op) = 1
      BY <1>2 DEF PopOps, PushOps, Change
    <2>3. ASSUME NEW a \in Nat, NEW v \in Nat, Leads(Todo, a, v) PROVE v <= a + 1
      <3>1. v <= a + Leaves(Todo.exp)
        BY <1>1, <2>3, LeadsFacts DEF Doing
      <3>2. Leaves(Todo.exp) \in {0, 1}
        BY DEF Leaves
      <3>. QED  BY <3>1, <3>2
    <2>. QED  BY <2>1, <2>2, <2>3 DEF Fulfils
  <1>4. ASSUME Conventional
        PROVE  \A k \in 1 .. Len(lambdas') : lambdas'[k].exp \in Expressions
    BY <1>1, <1>4, HeadFacts, TablesKept
  <1>. QED  BY <1>1, <1>2, <1>3, <1>4, LineKeeps

(* A binding pops a word.                                                  *)
LEMMA DefinitionFulfils ==
  ASSUME IInv, Doing("bind"), NEW n
  PROVE  Fulfils(Numbered("def", n))
  <1>1. PICK l : l = Numbered("def", n)
    OBVIOUS
  <1>2. l.op = "def"
    BY <1>1 DEF Numbered
  <1>3. Inner(l) /\ l.op \notin {"scan", "outer", "get", "set"} \cup Openers \cup {"close"} \cup Ends
    BY <1>2 DEF Inner, Openers, Ends
  <1>4. Change(l.op) = -1
    BY <1>2 DEF PopOps, PushOps, Change
  <1>5. ASSUME NEW a \in Nat, NEW v \in Nat, Leads(Todo, a, v) PROVE a >= 1 /\ v <= a - 1
    BY <1>5, LeadsFacts DEF Doing
  <1>. QED  BY <1>1, <1>3, <1>4, <1>5 DEF Fulfils

(* A definition of a variable that is already bound pops its value.        *)
LEMMA RebindDefinitionLays == ASSUME IInv, IInv', LInv, RebindDefinition PROVE LInv'
  <1>1. PICK n : n = Address(Defined, Current) - 1
    OBVIOUS
  <1>2. Doing("bind") /\ Write(<<Numbered("def", n)>>) /\ Return /\ n \in Nat
        /\ UNCHANGED <<program, envs, lambdas, stdout, status>>
    <2>1. Doing("bind") /\ Address(Defined, Current) # 0
          /\ Write(<<Numbered("def", Address(Defined, Current) - 1)>>) /\ Return
          /\ UNCHANGED <<program, envs, lambdas, stdout, status>>
      BY DEF RebindDefinition
    <2>2. envs[Current].variables \in Seq(Variables) /\ Len(envs[Current].variables) \in Nat
      BY <2>1, TodoFacts, EnvFacts
    <2>3. Address(Defined, Current) \in 0 .. Len(envs[Current].variables)
      BY <2>2, AddressFacts
    <2>. QED  BY <1>1, <2>1, <2>2, <2>3
  <1>3. Numbered("def", n) \in Lines
    BY <1>2 DEF Numbered, Lines
  <1>4. ASSUME Conventional
        PROVE  \A k \in 1 .. Len(lambdas') : lambdas'[k].exp \in Expressions
    BY <1>2, <1>4, HeadFacts, TablesKept
  <1>. QED  BY <1>2, <1>3, <1>4, DefinitionFulfils, LineKeeps

(* So does the definition of a new one.                                    *)
LEMMA BindDefinitionLays == ASSUME IInv, IInv', LInv, BindDefinition PROVE LInv'
  <1>1. PICK n : n = Len(envs[Current].variables)
    OBVIOUS
  <1>2. Doing("bind") /\ Write(<<Numbered("def", n)>>) /\ Return /\ n \in Nat
        /\ UNCHANGED <<program, lambdas, stdout, status>>
        /\ envs' = [envs EXCEPT ![Current].variables = Append(@, Defined)]
    <2>1. Doing("bind") /\ Write(<<Numbered("def", n)>>) /\ Return
          /\ UNCHANGED <<program, lambdas, stdout, status>>
          /\ envs' = [envs EXCEPT ![Current].variables = Append(@, Defined)]
      BY <1>1 DEF BindDefinition, NumVariables
    <2>2. n \in Nat
      BY <1>1, <2>1, TodoFacts, EnvFacts
    <2>. QED  BY <2>1, <2>2
  <1>3. Numbered("def", n) \in Lines
    BY <1>2 DEF Numbered, Lines
  <1>4. ASSUME Conventional
        PROVE  \A k \in 1 .. Len(lambdas') : lambdas'[k].exp \in Expressions
    BY <1>2, <1>4, HeadFacts DEF Reached
  <1>5. \A f \in 1 .. Len(functions) : envs'[f].enclosing = envs[f].enclosing
    <2>1. envs \in Seq([enclosing : Nat, capacity : Nat, variables : Seq(Variables)])
          /\ Len(envs) = Len(functions) /\ Current \in 1 .. Len(envs)
      BY <1>2, TodoFacts DEF Typed, Matched
    <2>. QED  BY <1>2, <2>1
  <1>. QED  BY <1>2, <1>3, <1>4, <1>5, DefinitionFulfils, LineKeeps

(* A closure is pushed.                                                    *)
LEMMA GenProcedureLays == ASSUME IInv, IInv', LInv, GenProcedure PROVE LInv'
  <1>1. PICK l : l = [op |-> "proc", f |-> Label]
    OBVIOUS
  <1>2. Doing("gen") /\ Write(<<l>>) /\ Return /\ Exp \in Nodes
        /\ lambdas' = Append(lambdas, Registered(Exp))
        /\ UNCHANGED <<program, envs, stdout, status>>
    <2>1. Doing("gen") /\ Write(<<l>>) /\ Return
          /\ lambdas' = Append(lambdas, Registered(Exp))
          /\ UNCHANGED <<program, envs, stdout, status>>
      BY <1>1 DEF GenProcedure, Generating
    <2>. QED  BY <2>1, TodoFacts
  <1>3. lambdas \in Seq([exp : LambdaNodes, env : Nat]) /\ Len(lambdas) \in Nat
    <2>1. lambdas \in Seq([exp : LambdaNodes, env : Nat])
      BY <1>2, TodoFacts DEF Typed
    <2>2. PICK L : L = [exp : LambdaNodes, env : Nat]
      OBVIOUS
    <2>3. lambdas \in Seq(L)
      BY <2>1, <2>2
    <2>4. Len(lambdas) \in Nat
      BY ONLY <2>3
    <2>. QED  BY <2>1, <2>4
  <1>4. l \in Lines /\ l.op = "proc"
    <2>1. Label \in Nat
      BY <1>3 DEF Label
    <2>. QED  BY <1>1, <2>1 DEF Lines
  <1>5. ASSUME Conventional PROVE Fulfils(l)
    <2>1. Inner(l) /\ l.op \notin {"scan", "outer", "get", "set"} \cup Openers \cup {"close"} \cup Ends
      BY <1>4 DEF Inner, Openers, Ends
    <2>2. l.op \notin PopOps /\ Change(l.op) = 1
      BY <1>4 DEF PopOps, PushOps, Change
    <2>3. ASSUME NEW a \in Nat, NEW v \in Nat, Leads(Todo, a, v) PROVE v <= a + 1
      <3>1. v <= a + Leaves(Todo.exp)
        BY <1>2, <2>3, LeadsFacts DEF Doing
      <3>2. Leaves(Todo.exp) \in {0, 1}
        BY DEF Leaves
      <3>. QED  BY <3>1, <3>2
    <2>. QED  BY <2>1, <2>2, <2>3 DEF Fulfils
  <1>6. ASSUME Conventional
        PROVE  \A k \in 1 .. Len(lambdas') : lambdas'[k].exp \in Expressions
    <2>1. Reached /\ Exp \in Expressions
      BY <1>2, <1>6, HeadFacts DEF Reaches, Exp
    <2>2. PICK L, r : L = [exp : LambdaNodes, env : Nat] \cup {r} /\ r = Registered(Exp)
      <3>1. PICK r : r = Registered(Exp)
        OBVIOUS
      <3>. QED  BY <3>1
    <2>3. r.exp = Exp
      BY <2>2 DEF Registered
    <2>4. lambdas \in Seq(L) /\ r \in L
      <3>1. PICK A : A = [exp : LambdaNodes, env : Nat]
        OBVIOUS
      <3>2. lambdas \in Seq(A) /\ A \subseteq L
        BY <1>3, <2>2, <3>1
      <3>3. lambdas \in Seq(L)
        BY ONLY <3>2, SeqMonotonic, Zenon
      <3>. QED  BY <2>2, <3>3
    <2>5. /\ Len(Append(lambdas, r)) = Len(lambdas) + 1
          /\ \A k \in 1 .. (Len(lambdas) + 1) :
               Append(lambdas, r)[k] = IF k = Len(lambdas) + 1 THEN r ELSE lambdas[k]
      BY ONLY <2>4
    <2>6. \A k \in 1 .. (Len(lambdas) + 1) : k # Len(lambdas) + 1 => k \in 1 .. Len(lambdas)
      BY <1>3
    <2>. QED  BY <1>2, <2>1, <2>2, <2>3, <2>5, <2>6 DEF Reached
  <1>. QED  BY <1>2, <1>4, <1>5, <1>6, LineKeeps

-----------------------------------------------------------------------------
(* The handlers that leave the parts of an expression for later.           *)

(* A part of an expression of the program is one, too.                     *)
LEMMA PartReached ==
  ASSUME IInv, LInv, Conventional, NEW x \in Expressions,
         NEW y \in Range(Immediate(x)) \cup Range(BodyParts(x))
  PROVE  Reaches(Gen(y)) /\ Gen(y).do # "scan"
  <1>1. program \in Nodes
    BY NodesAssumption DEF IInv, Typed
  <1>2. y \in Expressions
    BY <1>1, ExpressionsClosed
  <1>. QED  BY <1>2 DEF Gen, Reaches

(* An operand leaves a word.                                               *)
LEMMA OperandLeaves ==
  ASSUME Conventional, NEW x \in Expressions, NEW y \in Operands(x)
  PROVE  Leaves(y) = 1
  BY DEF Conventional, Leaves

(* What a handler of a form begins with.                                   *)
LEMMA GenFacts ==
  ASSUME IInv, LInv, Conventional, Doing("gen")
  PROVE  Exp \in Expressions /\ Exp \in Nodes /\ Todo = Gen(Exp) /\ ~ Closing(Todo)
  BY HeadFacts, TodoFacts, TodoIs DEF Reaches, Exp

(* A definition generates its value, which must leave a word.              *)
LEMMA GenDefinitionLays == ASSUME IInv, IInv', LInv, GenDefinition PROVE LInv'
  <1>1. PICK x, y, t : x = Exp /\ y = x.items[3] /\ t = Bind(x)
    OBVIOUS
  <1>2. Doing("gen") /\ Kind(x) = "define" /\ Follow(<<Gen(y), t>>)
        /\ UNCHANGED <<program, envs, lambdas, functions, stdout, status>>
    BY <1>1 DEF GenDefinition, Generating
  <1>3. x \in Longer(3) /\ y \in Nodes /\ Gen(y) \in Tasks(Len(envs)) /\ t \in Tasks(Len(envs))
    BY <1>1, <1>2, PartsFacts, ItemFacts, TasksHere
  <1>4. PICK ts : ts = <<Gen(y), t>>
    OBVIOUS
  <1>5. ts \in Seq(Tasks(Len(envs))) /\ Len(ts) = 2 /\ ts[1] = Gen(y) /\ ts[2] = t
    <2> HIDE DEF Tasks
    <2>. QED  BY <1>3, <1>4
  <1>6. ASSUME Conventional
        PROVE  /\ Does(Todo, <<>>, ts)
               /\ \A i \in 1 .. Len(ts) : Reaches(ts[i]) /\ ts[i].do # "scan"
    <2>1. x \in Expressions /\ x \in Nodes /\ Todo = Gen(x) /\ ~ Closing(Todo)
      BY <1>1, <1>2, <1>6, GenFacts
    <2>2. y \in Range(Immediate(x))
      <3>1. Length(x) >= 3
        BY <1>3 DEF Length, Longer
      <3>. QED  BY <1>1, <1>2, <2>1, <3>1, ItemsAreParts
    <2>3. Leaves(y) = 1
      <3>1. y \in Operands(x)
        BY <1>2, <2>2 DEF Operands
      <3>. QED  BY <1>6, <2>1, <3>1, OperandLeaves
    <2>4. Leaves(x) = 0
      BY <1>2, <2>1, MayLeaveNoneFacts DEF Leaves
    <2>5. t.do = "bind" /\ t.exp = x /\ ~ Closing(t)
      BY <1>1 DEF Bind, Closing, Emit
    <2>6. ASSUME NEW a \in Nat, NEW v \in Nat, Leads(Todo, a, v) PROVE Leads(t, a + 1, v)
      <3>1. v <= a
        BY <1>1, <1>2, <2>4, <2>6, LeadsFacts DEF Doing, Exp
      <3>. QED  BY <2>5, <3>1 DEF Leads
    <2>7. Does(Todo, <<>>, <<Gen(y), t>>)
      <3>1. t.do # "alternative"
        BY <2>5
      <3>. QED  BY <2>1, <2>3, <2>5, <2>6, <3>1, DoneByTwo
    <2>8. Reaches(Gen(y)) /\ Gen(y).do # "scan"
      BY <1>6, <2>1, <2>2, PartReached
    <2>9. Reaches(t) /\ t.do # "scan"
      BY <1>2, <2>1, <2>5 DEF Reaches, FormOf
    <2>. QED  BY <1>4, <1>5, <2>7, <2>8, <2>9
  <1>. QED  BY <1>2, <1>4, <1>5, <1>6, TasksKeep

(* So does an assignment.                                                  *)
LEMMA GenAssignmentLays == ASSUME IInv, IInv', LInv, GenAssignment PROVE LInv'
  <1>1. PICK x, y, t : x = Exp /\ y = x.items[3] /\ t = Assign(x)
    OBVIOUS
  <1>2. Doing("gen") /\ Kind(x) = "set!" /\ Follow(<<Gen(y), t>>)
        /\ UNCHANGED <<program, envs, lambdas, functions, stdout, status>>
    BY <1>1 DEF GenAssignment, Generating
  <1>3. x \in Longer(3) /\ y \in Nodes /\ Gen(y) \in Tasks(Len(envs)) /\ t \in Tasks(Len(envs))
    BY <1>1, <1>2, PartsFacts, ItemFacts, TasksHere
  <1>4. PICK ts : ts = <<Gen(y), t>>
    OBVIOUS
  <1>5. ts \in Seq(Tasks(Len(envs))) /\ Len(ts) = 2 /\ ts[1] = Gen(y) /\ ts[2] = t
    <2> HIDE DEF Tasks
    <2>. QED  BY <1>3, <1>4
  <1>6. ASSUME Conventional
        PROVE  /\ Does(Todo, <<>>, ts)
               /\ \A i \in 1 .. Len(ts) : Reaches(ts[i]) /\ ts[i].do # "scan"
    <2>1. x \in Expressions /\ x \in Nodes /\ Todo = Gen(x) /\ ~ Closing(Todo)
      BY <1>1, <1>2, <1>6, GenFacts
    <2>2. y \in Range(Immediate(x))
      <3>1. Length(x) >= 3
        BY <1>3 DEF Length, Longer
      <3>. QED  BY <1>1, <1>2, <2>1, <3>1, ItemsAreParts
    <2>3. Leaves(y) = 1
      <3>1. y \in Operands(x)
        BY <1>2, <2>2 DEF Operands
      <3>. QED  BY <1>6, <2>1, <3>1, OperandLeaves
    <2>4. Leaves(x) = 0
      BY <1>2, <2>1, MayLeaveNoneFacts DEF Leaves
    <2>5. t.do = "assign" /\ t.exp = x /\ ~ Closing(t)
      BY <1>1 DEF Assign, Closing, Emit
    <2>6. ASSUME NEW a \in Nat, NEW v \in Nat, Leads(Todo, a, v) PROVE Leads(t, a + 1, v)
      <3>1. v <= a
        BY <1>1, <1>2, <2>4, <2>6, LeadsFacts DEF Doing, Exp
      <3>. QED  BY <2>5, <3>1 DEF Leads
    <2>7. Does(Todo, <<>>, <<Gen(y), t>>)
      <3>1. t.do # "alternative"
        BY <2>5
      <3>. QED  BY <2>1, <2>3, <2>5, <2>6, <3>1, DoneByTwo
    <2>8. Reaches(Gen(y)) /\ Gen(y).do # "scan"
      BY <1>6, <2>1, <2>2, PartReached
    <2>9. Reaches(t) /\ t.do # "scan"
      BY <1>2, <2>1, <2>5 DEF Reaches, FormOf
    <2>. QED  BY <1>4, <1>5, <2>7, <2>8, <2>9
  <1>. QED  BY <1>2, <1>4, <1>5, <1>6, TasksKeep

(* The predicate leaves a word, which the consequent pops.                 *)
LEMMA GenIfLays == ASSUME IInv, IInv', LInv, GenIf PROVE LInv'
  <1>1. PICK x, y, t : x = Exp /\ y = x.items[2] /\ t = Consequent(x)
    OBVIOUS
  <1>2. Doing("gen") /\ Kind(x) = "if" /\ Follow(<<Gen(y), t>>)
        /\ UNCHANGED <<program, envs, lambdas, functions, stdout, status>>
    BY <1>1 DEF GenIf, Generating
  <1>3. x \in Longer(2) /\ y \in Nodes /\ Gen(y) \in Tasks(Len(envs)) /\ t \in Tasks(Len(envs))
    BY <1>1, <1>2, PartsFacts, ItemFacts, TasksHere
  <1>4. PICK ts : ts = <<Gen(y), t>>
    OBVIOUS
  <1>5. ts \in Seq(Tasks(Len(envs))) /\ Len(ts) = 2 /\ ts[1] = Gen(y) /\ ts[2] = t
    <2> HIDE DEF Tasks
    <2>. QED  BY <1>3, <1>4
  <1>6. ASSUME Conventional
        PROVE  /\ Does(Todo, <<>>, ts)
               /\ \A i \in 1 .. Len(ts) : Reaches(ts[i]) /\ ts[i].do # "scan"
    <2>1. x \in Expressions /\ x \in Nodes /\ Todo = Gen(x) /\ ~ Closing(Todo)
      BY <1>1, <1>2, <1>6, GenFacts
    <2>2. y \in Range(Immediate(x))
      <3>1. Length(x) >= 2
        BY <1>3 DEF Length, Longer
      <3>. QED  BY <1>1, <1>2, <2>1, <3>1, ItemsAreParts
    <2>3. Leaves(y) = 1
      <3>1. y \in Operands(x)
        BY <1>1, <1>2 DEF Operands
      <3>. QED  BY <1>6, <2>1, <3>1, OperandLeaves
    <2>5. t.do = "consequent" /\ t.exp = x /\ ~ Closing(t)
      BY <1>1 DEF Consequent, Closing, Emit
    <2>6. ASSUME NEW a \in Nat, NEW v \in Nat, Leads(Todo, a, v) PROVE Leads(t, a + 1, v)
      <3>1. v <= a + Leaves(x)
        BY <1>1, <1>2, <2>6, LeadsFacts DEF Doing, Exp
      <3>2. Leaves(x) \in Nat
        BY DEF Leaves
      <3>3. a + 1 >= 1 /\ v <= (a + 1) - 1 + Leaves(x)
        BY <3>1, <3>2
      <3>. QED  BY <2>5, <3>3 DEF Leads
    <2>7. Does(Todo, <<>>, <<Gen(y), t>>)
      <3>1. t.do # "alternative"
        BY <2>5
      <3>. QED  BY <2>1, <2>3, <2>5, <2>6, <3>1, DoneByTwo
    <2>8. Reaches(Gen(y)) /\ Gen(y).do # "scan"
      BY <1>6, <2>1, <2>2, PartReached
    <2>9. Reaches(t) /\ t.do # "scan"
      BY <1>2, <2>1, <2>5 DEF Reaches, FormOf
    <2>. QED  BY <1>4, <1>5, <2>7, <2>8, <2>9
  <1>. QED  BY <1>2, <1>4, <1>5, <1>6, TasksKeep

(* One of the expressions of a begin leaves a word, if it is to leave one. *)
LEMMA GenBeginLays == ASSUME IInv, IInv', LInv, GenBegin PROVE LInv'
  <1>1. PICK x, ys, ts : x = Exp /\ ys = Tail(x.items) /\ ts = GenAll(ys)
    OBVIOUS
  <1>2. Doing("gen") /\ Kind(x) = "begin" /\ Follow(ts)
        /\ UNCHANGED <<program, envs, lambdas, functions, stdout, status>>
    BY <1>1 DEF GenBegin, Generating
  <1>3. ys \in Seq(Nodes) /\ x \in Nodes
    BY <1>1, <1>2, TodoFacts, NodeFacts, ItemFacts DEF Forms
  <1>4. ts \in Seq(Tasks(Len(envs)))
    BY <1>1, <1>3, TasksHere
  <1>5. Len(ts) = Len(ys) /\ Len(ys) \in Nat /\ \A i \in 1 .. Len(ys) : ts[i] = Gen(ys[i])
    BY <1>1, <1>3 DEF GenAll
  <1>6. Immediate(x) = ys
    BY <1>1, <1>2 DEF Immediate
  <1>7. ASSUME Conventional
        PROVE  /\ Does(Todo, <<>>, ts)
               /\ \A i \in 1 .. Len(ts) : Reaches(ts[i]) /\ ts[i].do # "scan"
    <2>1. x \in Expressions /\ Todo = Gen(x)
      BY <1>1, <1>2, <1>7, GenFacts
    <2>2. \A i \in 1 .. Len(ys) : ys[i] \in Range(Immediate(x))
      BY <1>3, <1>6, Elements
    <2>3. \/ Len(ys) = 0 /\ Leaves(x) = 0
          \/ \E i \in 1 .. Len(ys) : Leaves(x) <= Leaves(ys[i])
      <3>1. MayLeaveNone(x) <=> \A y \in Range(ys) : MayLeaveNone(y)
        BY <1>2, <1>3, <1>6, MayLeaveNoneFacts
      <3>2. CASE MayLeaveNone(x)
        <4>1. Leaves(x) = 0 /\ \A y : 0 <= Leaves(y)
          BY <3>2 DEF Leaves
        <4>2. Len(ys) = 0 \/ 1 \in 1 .. Len(ys)
          BY <1>5
        <4>. QED  BY <4>1, <4>2
      <3>3. CASE ~ MayLeaveNone(x)
        <4>1. PICK y \in Range(ys) : ~ MayLeaveNone(y)
          BY <3>1, <3>3
        <4>2. PICK i \in 1 .. Len(ys) : y = ys[i]
          BY <1>3, Elements
        <4>3. Leaves(x) = 1 /\ Leaves(ys[i]) = 1
          BY <3>3, <4>1, <4>2 DEF Leaves
        <4>4. Leaves(x) <= Leaves(ys[i])
          BY <4>3
        <4>. QED  BY <4>4
      <3>. QED  BY <3>2, <3>3
    <2>4. Does(Gen(x), <<>>, GenAll(ys))
      BY <1>5, <2>3, DoneByAll
    <2>5. ASSUME NEW i \in 1 .. Len(ts) PROVE Reaches(ts[i]) /\ ts[i].do # "scan"
      <3>1. i \in 1 .. Len(ys) /\ ts[i] = Gen(ys[i])
        BY <1>5
      <3>2. ys[i] \in Range(Immediate(x))
        BY <2>2, <3>1
      <3>. QED  BY <1>7, <2>1, <3>1, <3>2, PartReached
    <2>. QED  BY <1>1, <2>1, <2>4, <2>5
  <1>. QED  BY <1>2, <1>4, <1>7, TasksKeep

(* Procedure and operands leave a word each, which the call pops.          *)
LEMMA GenApplicationLays == ASSUME IInv, IInv', LInv, GenApplication PROVE LInv'
  <1>1. PICK x, y, ys, zs : x = Exp /\ y = Head(x.items) /\ ys = Tail(x.items)
                              /\ zs = GenAllReversed(ys)
    OBVIOUS
  <1>2. Doing("gen") /\ Kind(x) = "application"
        /\ UNCHANGED <<program, envs, lambdas, functions, stdout, status>>
    BY <1>1 DEF GenApplication, Generating
  <1>3. ys \in Seq(Nodes) /\ x \in Nodes /\ y \in Nodes
    BY <1>1, <1>2, TodoFacts, NodeFacts, ItemFacts
  <1>4. Len(ys) \in Nat /\ Len(zs) = Len(ys)
        /\ \A i \in 1 .. Len(ys) : zs[i] = Gen(ys[Len(ys) + 1 - i])
    BY <1>1, <1>3 DEF GenAllReversed
  <1>5. PICK ts : ts = CallTasks(y, zs)
    OBVIOUS
  <1>6. Follow(ts)
    <2>1. Follow(<<Gen(Head(x.items))>> \o GenAllReversed(ys)
                 \o <<Emit([i \in 1 .. Len(ys) |-> Numbered("arg", i - 1)]
                           \o <<Line("call"), Line("pushret")>>)>>)
      BY <1>1 DEF GenApplication
    <2>2. ts = <<Gen(Head(x.items))>> \o GenAllReversed(ys)
                 \o <<Emit([i \in 1 .. Len(ys) |-> Numbered("arg", i - 1)]
                           \o <<Line("call"), Line("pushret")>>)>>
      BY <1>1, <1>4, <1>5 DEF CallTasks, CallLines
    <2>. QED  BY <2>1, <2>2
  <1>7. /\ Gen(y) \in Tasks(Len(envs)) /\ zs \in Seq(Tasks(Len(envs)))
        /\ Emit(CallLines(Len(zs))) \in Tasks(Len(envs))
    <2>1. CallLines(Len(zs)) \in Seq(Common)
      <3>1. PICK k : k = Len(ys)
        OBVIOUS
      <3>2. k \in Nat /\ Len(zs) = k
        BY <1>4, <3>1
      <3>3. \A i \in 1 .. k : Numbered("arg", i - 1) \in Common
        BY <3>2, LineFacts
      <3>4. <<Line("call"), Line("pushret")>> \in Seq(Common)
        BY LineFacts DEF PlainOps
      <3>5. [i \in 1 .. k |-> Numbered("arg", i - 1)] \in Seq(Common)
        BY <3>2, <3>3
      <3>. QED  BY <3>2, <3>4, <3>5 DEF CallLines
    <2>. QED  BY <1>1, <1>3, <2>1, TasksHere
  <1>8. /\ ts \in Seq(Tasks(Len(envs))) /\ Len(ts) = Len(zs) + 2
        /\ ts[1] = Gen(y) /\ ts[Len(zs) + 2] = Emit(CallLines(Len(zs)))
        /\ \A i \in 2 .. (Len(zs) + 1) : ts[i] = zs[i - 1]
    <2>1. PICK R, u, w : R = Tasks(Len(envs)) /\ u = Gen(y) /\ w = Emit(CallLines(Len(zs)))
      OBVIOUS
    <2>2. u \in R /\ zs \in Seq(R) /\ w \in R
      BY <1>7, <2>1
    <2>3. ts = <<u>> \o zs \o <<w>>
      BY <1>5, <2>1 DEF CallTasks
    <2>4. PICK p : p = <<u>> \o zs
      OBVIOUS
    <2>5. /\ p \in Seq(R) /\ Len(p) = Len(zs) + 1 /\ p[1] = u
          /\ \A i \in 2 .. (Len(zs) + 1) : p[i] = zs[i - 1]
      BY ONLY <2>2, <2>4
    <2>6. /\ p \o <<w>> \in Seq(R) /\ Len(p \o <<w>>) = Len(p) + 1
          /\ (p \o <<w>>)[Len(p) + 1] = w
          /\ \A i \in 1 .. Len(p) : (p \o <<w>>)[i] = p[i]
      BY ONLY <2>2, <2>5
    <2>7. Len(zs) \in Nat
      BY <1>4
    <2>. QED  BY <2>1, <2>3, <2>4, <2>5, <2>6, <2>7
  <1>9. ASSUME Conventional
        PROVE  /\ Does(Todo, <<>>, ts)
               /\ \A i \in 1 .. Len(ts) : Reaches(ts[i]) /\ ts[i].do # "scan"
    <2>1. x \in Expressions /\ Todo = Gen(x)
      BY <1>1, <1>2, <1>9, GenFacts
    <2>2. /\ y \in Range(Immediate(x))
          /\ \A i \in 1 .. Len(ys) : ys[i] \in Range(Immediate(x))
          /\ Length(x) - 1 = Len(ys)
      <3>1. x.items \in Seq(Nodes) /\ x.items # <<>> /\ Length(x) = Len(x.items)
        BY <1>2, <1>3, FormIsPair
      <3>2. y = x.items[1] /\ 1 \in 1 .. Length(x) /\ Length(x) - 1 = Len(ys)
            /\ \A i \in 1 .. Len(ys) : ys[i] = x.items[i + 1] /\ i + 1 \in 1 .. Length(x)
        BY <1>1, <3>1
      <3>. QED  BY <1>2, <1>3, <3>2, ItemsAreParts
    <2>3. Leaves(y) = 1 /\ \A i \in 1 .. Len(ys) : Leaves(ys[i]) = 1
      <3>1. Operands(x) = Range(Immediate(x))
        BY <1>2 DEF Operands
      <3>. QED  BY <1>9, <2>1, <2>2, <3>1, OperandLeaves
    <2>4. Len(zs) <= MaxArgs
      BY <1>2, <1>4, <1>9, <2>1, <2>2 DEF Conventional
    <2>5. \A i \in 1 .. Len(ys) : Len(ys) + 1 - i \in 1 .. Len(ys)
      BY <1>4
    <2>6. \A i \in 1 .. Len(zs) : \E z : zs[i] = Gen(z) /\ Leaves(z) = 1
      BY <1>4, <2>3, <2>5
    <2>7. Does(Gen(x), <<>>, CallTasks(y, zs))
      <3> HIDE DEF Tasks
      <3>. QED  BY <1>7, <2>3, <2>4, <2>6, DoneByCall
    <2>8. ASSUME NEW i \in 1 .. Len(ts) PROVE Reaches(ts[i]) /\ ts[i].do # "scan"
      <3>1. CASE i = 1
        BY <1>8, <1>9, <2>1, <2>2, <3>1, PartReached
      <3>2. CASE i \in 2 .. (Len(zs) + 1)
        <4>1. i - 1 \in 1 .. Len(ys)
          BY <1>4, <3>2
        <4>2. PICK j \in 1 .. Len(ys) : ts[i] = Gen(ys[j])
          BY <1>4, <1>8, <2>5, <3>2, <4>1
        <4>3. ys[j] \in Range(Immediate(x))
          BY <2>2
        <4>. QED  BY <1>9, <2>1, <4>2, <4>3, PartReached
      <3>3. CASE i = Len(zs) + 2
        <4>1. ts[i].do = "emit"
          BY <1>8, <3>3 DEF Emit
        <4>. QED  BY <4>1 DEF Reaches
      <3>4. i = 1 \/ i \in 2 .. (Len(zs) + 1) \/ i = Len(zs) + 2
        BY <1>4, <1>8
      <3>. QED  BY <3>1, <3>2, <3>3, <3>4
    <2>. QED  BY <1>5, <2>1, <2>7, <2>8
  <1>. QED  BY <1>2, <1>6, <1>8, <1>9, TasksKeep

-----------------------------------------------------------------------------
(* The handlers that look variables up.                                    *)

(* A scan is begun here, or goes on in the next environment.               *)
Looks(do, l, t) ==
  \/ l.op = "scan" /\ t.env = Current /\ do # "scan"
  \/ /\ l.op = "outer" /\ do = "scan" /\ Todo.env # 0
     /\ t.env = functions[Todo.env].parent
     /\ Finds(functions, l, Todo.env) \/ t.env = 0

(* A step of a scan goes on from where r0 points to.                       *)
LEMMA LookKeeps ==
  ASSUME IInv, IInv', LInv, NEW do, Doing(do), do # "emit",
         NEW l \in Lines, NEW t \in Tasks(Len(envs)), t.do = "scan",
         Write(<<l>>), Follow(<<t>>), UNCHANGED <<program, envs, lambdas>>,
         Conventional => Looks(do, l, t),
         \A a, v \in Nat : Leads(Todo, a, v) => Leads(t, a, v)
  PROVE  LInv'
  <1>1. PICK ls, ts : ls = <<l>> /\ ts = <<t>>
    OBVIOUS
  <1>2. /\ ls \in Seq(Lines) /\ Len(ls) = 1 /\ ls[1] = l
        /\ ts \in Seq(Tasks(Len(envs))) /\ Len(ts) = 1 /\ ts[1] = t /\ ts # <<>>
    <2> HIDE DEF Lines, Tasks
    <2>. QED  BY <1>1
  <1>3. Handles(ls, ts)
    BY <1>1, <1>2, HandlerHandles
  <1>4. ASSUME Conventional PROVE Moves(ls, ts)
    <2>1. /\ Reached /\ Len(tasks) >= 2 /\ tasks # <<>>
          /\ tasks \in Seq(Tasks(Len(envs))) /\ (Scanning(tasks) <=> do = "scan")
      BY <1>4, HeadFacts
    <2>2. Looks(do, l, t)
      BY <1>4
    <2>3. l.op \in {"scan", "outer"}
      BY <2>2 DEF Looks
    <2>4. t.do # "alternative" /\ ~ Closing(t) /\ ~ Closing(Todo)
      BY TodoIs DEF Closing, Emit
    <2>5. Does(Todo, <<l>>, <<t>>)
      BY <2>3, <2>4, DoneByScan
    <2>6. Laid(functions', Current, ts \o Tail(tasks))
      <3>1. Does(Todo, ls, ts) /\ \A i \in 1 .. Len(ls) : ls[i].op \notin Ends
        <4>1. \A i \in 1 .. 1 : i = 1
          OBVIOUS
        <4>. QED  BY <1>1, <1>2, <2>3, <2>5, <4>1 DEF Ends
      <3>. QED  BY <1>2, <1>3, <1>4, <2>1, <3>1, PlainLaid
    <2>7. \A i \in 1 .. Len(ls) : Lasting(Current, ls[i])
      <3>1. Inner(l)
        BY <2>3 DEF Inner
      <3>2. \A i \in 1 .. 1 : i = 1
        OBVIOUS
      <3>. QED  BY <1>2, <3>1, <3>2 DEF Lasting
    <2>8. \A i \in 1 .. Len(ts) : Reaches(ts[i]) /\ (i > 1 => ts[i].do # "scan")
      <3>1. Reaches(t)
        BY DEF Reaches
      <3>2. \A i \in 1 .. 1 : i = 1 /\ ~ (i > 1)
        OBVIOUS
      <3>. QED  BY <1>2, <3>1, <3>2
    <2>9. Scans(functions, Current, tasks, ls, ts \o Tail(tasks))
      <3>1. PICK T2 : T2 = ts \o Tail(tasks)
        OBVIOUS
      <3>2. T2 # <<>> /\ Head(T2) = t
        <4>1. PICK R : R = Tasks(Len(envs))
          OBVIOUS
        <4>2. ts \in Seq(R) /\ tasks \in Seq(R)
          BY <1>2, <2>1, <4>1
        <4>3. Tail(tasks) \in Seq(R)
          BY ONLY <2>1, <4>2
        <4>4. PICK u : u = Tail(tasks)
          OBVIOUS
        <4>5. ts \o u # <<>> /\ Head(ts \o u) = ts[1]
          <5>1. ts \in Seq(R) /\ u \in Seq(R) /\ Len(ts) = 1
            BY <1>2, <4>2, <4>3, <4>4
          <5>2. /\ Len(ts \o u) = Len(ts) + Len(u)
                /\ \A i \in 1 .. (Len(ts) + Len(u)) :
                     (ts \o u)[i] = IF i <= Len(ts) THEN ts[i] ELSE u[i - Len(ts)]
            <6>1. ts \in Seq(R) /\ u \in Seq(R)
              BY <5>1
            <6>. QED  BY ONLY <6>1
          <5>3. Len(u) \in Nat
            BY ONLY <5>1
          <5>4. Len(ts \o u) >= 1 /\ (ts \o u)[1] = ts[1]
            BY <5>1, <5>2, <5>3
          <5>5. Head(ts \o u) = (ts \o u)[1]
            <6>1. PICK z : z = ts \o u
              OBVIOUS
            <6>2. z \in Seq(R) /\ Len(z) >= 1
              BY <5>1, <5>4, <6>1
            <6>3. Head(z) = z[1]
              BY ONLY <6>2
            <6>. QED  BY <6>1, <6>3
          <5>6. Len(<<>>) = 0
            OBVIOUS
          <5>7. ts \o u # <<>>
            BY <5>4, <5>6
          <5>. QED  BY <5>4, <5>5, <5>7
        <4>. QED  BY <1>2, <3>1, <4>4, <4>5
      <3>3. Scanning(T2) /\ Head(T2).env = t.env
        BY <3>2 DEF Scanning
      <3>4. Scanning(tasks) => do = "scan" /\ Head(tasks) = Todo
        BY <2>1 DEF Todo
      <3>5. \A i \in 1 .. (1 - 1) : FALSE
        OBVIOUS
      <3>6. \A i \in 1 .. 1 : i = 1
        OBVIOUS
      <3>7. CASE l.op = "scan" /\ t.env = Current /\ do # "scan"
        BY <1>2, <2>1, <3>1, <3>3, <3>5, <3>6, <3>7 DEF Scans
      <3>8. CASE /\ l.op = "outer" /\ do = "scan" /\ Todo.env # 0
                 /\ t.env = functions[Todo.env].parent
                 /\ Finds(functions, l, Todo.env) \/ t.env = 0
        <4>1. Scanning(tasks) /\ Head(tasks) = Todo
          BY <2>1, <3>4, <3>8
        <4>. QED  BY <1>2, <3>1, <3>3, <3>5, <3>6, <3>8, <4>1 DEF Scans
      <3>. QED  BY <2>2, <3>7, <3>8 DEF Looks
    <2>. QED  BY <2>1, <2>6, <2>7, <2>8, <2>9, TablesKept DEF Moves
  <1>. QED  BY <1>2, <1>3, <1>4, HandlerKeeps

(* The address is looked for before the word is pushed or popped.          *)
LEMMA GenVariableLays == ASSUME IInv, IInv', LInv, GenVariable PROVE LInv'
  <1>1. PICK l, t : l = Line("scan") /\ t = Scan("get", Exp.identifier, Current)
    OBVIOUS
  <1>2. Doing("gen") /\ Kind(Exp) = "identifier" /\ Write(<<l>>) /\ Follow(<<t>>)
        /\ UNCHANGED <<program, envs, lambdas>>
    BY <1>1 DEF GenVariable, Generating, ScanHere
  <1>3. t \in Tasks(Len(envs)) /\ l \in Lines
    <2>1. Exp.identifier \in Variables
      BY <1>2, TodoFacts DEF Variables
    <2>2. Len(envs) \in Nat /\ Current \in 0 .. Len(envs)
      <3>1. Current \in 1 .. Len(envs) /\ Len(envs) = Len(functions)
        BY <1>2, TodoFacts DEF Matched
      <3>. QED  BY <3>1, FunctionFacts
    <2>. QED  BY <1>1, <2>1, <2>2, TaskFacts, LineFacts DEF Common, PlainOps
  <1>4. t.do = "scan" /\ t.op = "get" /\ t.env = Current /\ l.op = "scan"
    BY <1>1 DEF Scan, Line
  <1>5. ASSUME NEW a \in Nat, NEW v \in Nat, Leads(Todo, a, v) PROVE Leads(t, a, v)
    <2>1. v <= a + Leaves(Todo.exp)
      BY <1>2, <1>5, LeadsFacts DEF Doing
    <2>2. Leaves(Todo.exp) \in {0, 1}
      BY DEF Leaves
    <2>3. v <= a + 1
      BY <2>1, <2>2
    <2>. QED  BY <1>4, <2>3 DEF Leads
  <1>6. Looks("gen", l, t)
    BY <1>4 DEF Looks
  <1>. QED  BY <1>2, <1>3, <1>4, <1>5, <1>6, LookKeeps

(* An assignment starts a scan.                                            *)
LEMMA SetVariableLays == ASSUME IInv, IInv', LInv, SetVariable PROVE LInv'
  <1>1. PICK l, t : l = Line("scan") /\ t = Scan("set", Defined, Current)
    OBVIOUS
  <1>2. Doing("assign") /\ Write(<<l>>) /\ Follow(<<t>>) /\ UNCHANGED <<program, envs, lambdas>>
    BY <1>1 DEF SetVariable, ScanHere
  <1>3. t \in Tasks(Len(envs)) /\ l \in Lines
    <2>1. Defined \in Variables
      BY <1>2, DefinedFacts
    <2>2. Len(envs) \in Nat /\ Current \in 0 .. Len(envs)
      <3>1. Current \in 1 .. Len(envs) /\ Len(envs) = Len(functions)
        BY <1>2, TodoFacts DEF Matched
      <3>. QED  BY <3>1, FunctionFacts
    <2>. QED  BY <1>1, <2>1, <2>2, TaskFacts, LineFacts DEF Common, PlainOps
  <1>4. t.do = "scan" /\ t.op = "set" /\ t.env = Current /\ l.op = "scan"
    BY <1>1 DEF Scan, Line
  <1>5. ASSUME NEW a \in Nat, NEW v \in Nat, Leads(Todo, a, v) PROVE Leads(t, a, v)
    <2>1. a >= 1 /\ v <= a - 1
      BY <1>2, <1>5, LeadsFacts DEF Doing
    <2>. QED  BY <1>4, <2>1 DEF Leads
  <1>6. Looks("assign", l, t)
    BY <1>4 DEF Looks
  <1>. QED  BY <1>2, <1>3, <1>4, <1>5, <1>6, LookKeeps

(* A scan goes on in the environment that the last line leads to.          *)
LEMMA ScanOutwardsLays == ASSUME IInv, IInv', LInv, ScanOutwards PROVE LInv'
  <1>1. PICK l, t, w : /\ l = Line("outer") /\ w = Todo.env
                       /\ t = Scan(Todo.op, Todo.var, envs[w].enclosing)
    OBVIOUS
  <1>2. Doing("scan") /\ w # 0 /\ Write(<<l>>) /\ Follow(<<t>>)
        /\ UNCHANGED <<program, envs, lambdas>>
    BY <1>1 DEF ScanOutwards
  <1>3. /\ Todo.op \in {"get", "set"} /\ Todo.var \in Variables /\ w \in 1 .. Len(functions)
        /\ Len(envs) \in Nat /\ Len(envs) = Len(functions)
    BY <1>1, <1>2, ScannedFacts
  <1>4. envs[w].enclosing \in 0 .. (w - 1)
    BY <1>3, FunctionFacts
  <1>5. t \in Tasks(Len(envs)) /\ l \in Lines
    <2>1. envs[w].enclosing \in 0 .. Len(envs)
      BY <1>3, <1>4
    <2>. QED  BY <1>1, <1>3, <2>1, TaskFacts, LineFacts DEF Common, PlainOps
  <1>6. t.do = "scan" /\ t.op = Todo.op /\ t.env = envs[w].enclosing /\ l.op = "outer"
    BY <1>1 DEF Scan, Line
  <1>7. ASSUME NEW a \in Nat, NEW v \in Nat, Leads(Todo, a, v) PROVE Leads(t, a, v)
    <2>1. (Todo.op = "get" /\ v <= a + 1) \/ (Todo.op = "set" /\ a >= 1 /\ v <= a - 1)
      BY <1>2, <1>7, LeadsFacts DEF Doing
    <2>. QED  BY <1>6, <2>1 DEF Leads
  <1>8. ASSUME Conventional PROVE Looks("scan", l, t)
    <2>1. t.env = functions[w].parent
      BY <1>2, <1>3, <1>6, <1>8, HeadFacts DEF Reached
    <2>2. w > 1 \/ t.env = 0
      BY <1>3, <1>4, <1>6
    <2>3. Finds(functions, l, w) \/ t.env = 0
      BY <1>6, <2>2 DEF Finds
    <2>. QED  BY <1>1, <1>2, <1>6, <2>1, <2>3 DEF Looks
  <1>. QED  BY <1>2, <1>5, <1>6, <1>7, <1>8, LookKeeps

(* The variable that is found is one of the environment that r0 points to. *)
LEMMA FoundVariableLays == ASSUME IInv, IInv', LInv, FoundVariable PROVE LInv'
  <1>1. PICK l, w, n : /\ w = Todo.env /\ n = Address(Todo.var, w) - 1
                       /\ l = Numbered(Todo.op, n)
    OBVIOUS
  <1>2. Doing("scan") /\ w # 0 /\ n # -1 /\ Write(<<l>>) /\ Return
        /\ UNCHANGED <<program, envs, lambdas>>
    <2>1. Doing("scan") /\ w # 0 /\ Address(Todo.var, w) # 0 /\ Write(<<l>>) /\ Return
          /\ UNCHANGED <<program, envs, lambdas>>
      BY <1>1 DEF FoundVariable, Found
    <2>2. Address(Todo.var, w) \in Nat
      <3>1. w \in 1 .. Len(envs)
        BY <1>1, <2>1, ScannedFacts
      <3>2. envs[w].variables \in Seq(Variables) /\ Len(envs[w].variables) \in Nat
        BY <3>1, EnvFacts
      <3>3. Address(Todo.var, w) \in 0 .. Len(envs[w].variables)
        BY <3>2, AddressFacts
      <3>. QED  BY <3>2, <3>3
    <2>. QED  BY <1>1, <2>1, <2>2
  <1>3. Todo.op \in {"get", "set"} /\ w \in 1 .. Len(envs) /\ w \in 1 .. Len(functions)
    BY <1>1, <1>2, ScannedFacts
  <1>4. n \in Nat /\ n < functions[w].size
    <2>1. envs[w].variables \in Seq(Variables) /\ Len(envs[w].variables) \in Nat
      BY <1>3, EnvFacts
    <2>2. Address(Todo.var, w) \in 0 .. Len(envs[w].variables)
      BY <2>1, AddressFacts
    <2>3. Len(envs[w].variables) <= functions[w].size /\ functions[w].size = envs[w].capacity
          /\ envs[w].capacity \in Nat
      BY <1>3, FunctionFacts, EnvFacts
    <2>. QED  BY <1>1, <1>2, <2>1, <2>2, <2>3
  <1>5. l \in Lines /\ l.op = Todo.op /\ l.n = n
    BY <1>1, <1>3, <1>4, LineFacts DEF Common, Numbered
  <1>6. PICK ls, ts : ls = <<l>> /\ ts = <<>>
    OBVIOUS
  <1>7. /\ ls \in Seq(Lines) /\ Len(ls) = 1 /\ ls[1] = l
        /\ ts \in Seq(Tasks(Len(envs))) /\ Len(ts) = 0
    <2> HIDE DEF Lines, Tasks
    <2>. QED  BY <1>5, <1>6
  <1>8. Handles(ls, ts)
    BY <1>2, <1>6, <1>7, HandlerHandles DEF Return
  <1>9. ASSUME Conventional PROVE Moves(ls, ts)
    <2>1. /\ Reached /\ Len(tasks) >= 2 /\ tasks # <<>>
          /\ tasks \in Seq(Tasks(Len(envs))) /\ Scanning(tasks) /\ Head(tasks) = Todo
      BY <1>2, <1>9, HeadFacts, TodoIs
    <2>2. l.op \notin Openers \cup {"close"} \cup Ends /\ Inner(l)
      BY <1>3, <1>5 DEF Inner, Openers, Ends
    <2>3. Does(Todo, <<l>>, <<>>)
      <3>1. ASSUME NEW a \in Nat, NEW v \in Nat, Leads(Todo, a, v)
            PROVE  (l.op \in PopOps => a >= 1) /\ v <= a + Change(l.op)
        <4>1. (Todo.op = "get" /\ v <= a + 1) \/ (Todo.op = "set" /\ a >= 1 /\ v <= a - 1)
          BY <1>2, <3>1, LeadsFacts DEF Doing
        <4>. QED  BY <1>5, <4>1 DEF PopOps, PushOps, Change
      <3>2. ~ Closing(Todo) /\ l.op \notin Openers \cup {"close"}
        BY <1>2, <2>2, TodoIs
      <3>. QED  BY ONLY <3>1, <3>2, DoneByLine
    <2>4. \A i \in 1 .. 1 : i = 1
      OBVIOUS
    <2>5. Laid(functions', Current, ts \o Tail(tasks))
      <3>1. Does(Todo, ls, ts) /\ \A i \in 1 .. Len(ls) : ls[i].op \notin Ends
        BY <1>6, <1>7, <2>2, <2>3, <2>4
      <3>. QED  BY <1>2, <1>7, <1>8, <1>9, <2>1, <3>1, PlainLaid
    <2>6. \A i \in 1 .. Len(ls) : Lasting(Current, ls[i])
      BY <1>7, <2>2, <2>4 DEF Lasting
    <2>7. ~ Scanning(ts \o Tail(tasks))
      <3>1. PICK R, u : R = Tasks(Len(envs)) /\ u = Tail(tasks)
        OBVIOUS
      <3>2. tasks \in Seq(R) /\ tasks # <<>> /\ Len(tasks) >= 2
        BY <2>1, <3>1
      <3>3. u \in Seq(R) /\ Head(u) = tasks[2] /\ 2 \in 1 .. Len(tasks)
        BY ONLY <3>1, <3>2
      <3>4. ts \o u = u
        BY <1>6, <3>3
      <3>5. tasks[2].do # "scan"
        BY <2>1, <3>3 DEF Reached
      <3>. QED  BY <3>1, <3>3, <3>4, <3>5 DEF Scanning
    <2>8. Scans(functions, Current, tasks, ls, ts \o Tail(tasks))
      <3>1. Finds(functions, l, w)
        BY <1>2, <1>3, <1>4, <1>5 DEF Finds
      <3>2. \A i \in 1 .. (1 - 1) : FALSE
        OBVIOUS
      <3>. QED  BY <1>1, <1>2, <1>7, <2>1, <2>4, <2>7, <3>1, <3>2 DEF Scans
    <2>9. \A i \in 1 .. Len(ts) : Reaches(ts[i]) /\ (i > 1 => ts[i].do # "scan")
      BY <1>7
    <2>. QED  BY <1>2, <2>1, <2>5, <2>6, <2>8, <2>9, TablesKept DEF Moves
  <1>. QED  BY <1>7, <1>8, <1>9, HandlerKeeps

-----------------------------------------------------------------------------
(* The handlers that open and close blocks, and end functions.             *)

(* A handler that prints one of these lines.                               *)
LEMMA BlockKeeps ==
  ASSUME IInv, IInv', LInv, NEW do, Doing(do), do # "scan",
         NEW l \in Lines, l.op \in {"if", "else", "close"} \cup Ends,
         NEW ts \in Seq(Tasks(Len(envs))),
         Write(<<l>>), Follow(ts), UNCHANGED <<program, envs, lambdas>>,
         Conventional => Lasting(Current, l),
         Conventional => \A i \in 1 .. Len(ts) : Reaches(ts[i]) /\ ts[i].do # "scan",
         Conventional => Laid(functions', Current, ts \o Tail(tasks))
  PROVE  LInv'
  <1>1. PICK ls : ls = <<l>>
    OBVIOUS
  <1>2. ls \in Seq(Lines) /\ \A i \in 1 .. Len(ls) : ls[i] = l
    <2> HIDE DEF Lines
    <2>. QED  BY <1>1
  <1>3. Handles(ls, ts)
    BY <1>1, <1>2, HandlerHandles
  <1>4. ASSUME Conventional PROVE Quiet(ls, ts)
    <2>1. Reached
      BY <1>4, HeadFacts
    <2>2. l.op \notin {"scan", "outer", "get", "set"}
      BY DEF Ends
    <2>. QED  BY <1>2, <1>4, <2>1, <2>2, TablesKept DEF Quiet
  <1>. QED  BY <1>2, <1>3, <1>4, QuietKeeps

(* A conditional opens a block.                                            *)
LEMMA GenConsequentLays == ASSUME IInv, IInv', LInv, GenConsequent PROVE LInv'
  <1>1. PICK x, y, l, ts : /\ x = Exp /\ y = x.items[3] /\ l = Line("if")
                           /\ ts = <<Gen(y), Emit(<<Line("close")>>), Alternative(x)>>
    OBVIOUS
  <1>2. Doing("consequent") /\ Write(<<l>>) /\ Follow(ts) /\ UNCHANGED <<program, envs, lambdas>>
    BY <1>1 DEF GenConsequent
  <1>3. x \in Longer(3) /\ x \in Nodes /\ y \in Nodes
    BY <1>1, <1>2, PartsFacts, ItemFacts DEF Longer
  <1>4. /\ ts \in Seq(Tasks(Len(envs))) /\ Len(ts) = 3
        /\ ts[1] = Gen(y) /\ ts[2] = Emit(<<Line("close")>>) /\ ts[3] = Alternative(x)
    <2>1. <<Line("close")>> \in Seq(Common)
      BY LineFacts DEF PlainOps
    <2>2. /\ Gen(y) \in Tasks(Len(envs)) /\ Alternative(x) \in Tasks(Len(envs))
          /\ Emit(<<Line("close")>>) \in Tasks(Len(envs))
      BY <1>3, <2>1, TasksHere
    <2> HIDE DEF Tasks
    <2>. QED  BY <1>1, <2>2
  <1>5. l \in Lines /\ l.op = "if"
    BY <1>1, LineFacts DEF Common, PlainOps, Line
  <1>6. Lasting(Current, l)
    BY <1>5 DEF Lasting, Inner
  <1>7. ASSUME Conventional
        PROVE  /\ \A i \in 1 .. Len(ts) : Reaches(ts[i]) /\ ts[i].do # "scan"
               /\ Laid(functions', Current, ts \o Tail(tasks))
    <2>1. /\ functions[Current].body \in Seq(Lines) /\ Len(functions[Current].body) >= 1
          /\ Going(Current, functions[Current].body, tasks)
          /\ tasks \in Seq(Tasks(Len(envs))) /\ Len(tasks) >= 2 /\ Reaches(Todo)
      BY <1>2, <1>7, HeadFacts
    <2>2. Todo = Consequent(x) /\ Head(tasks) = Consequent(x)
      BY <1>1, <1>2, TodoIs
    <2>3. x \in Expressions /\ Kind(x) = "if" /\ Length(x) >= 3
      <3>1. x \in Expressions /\ Kind(x) = "if"
        BY <2>1, <2>2 DEF Reaches, FormOf, Consequent
      <3>2. Length(x) >= 3
        BY <1>3 DEF Longer, Length
      <3>. QED  BY <3>1, <3>2
    <2>4. y \in Range(Immediate(x))
      BY <1>1, <1>3, <2>3, ItemsAreParts
    <2>5. /\ Leaves(x) <= Leaves(y)
          /\ Leaves(x) <= IF Length(x) > 3 THEN Leaves(x.items[4]) ELSE 0
      <3>1. MayLeaveNone(x) <=>
              (Length(x) < 4 \/ MayLeaveNone(x.items[3]) \/ MayLeaveNone(x.items[4]))
        BY <1>3, <2>3, MayLeaveNoneFacts
      <3>2. Length(x) \in Nat
        BY <1>3, NodeFacts
      <3>3. CASE MayLeaveNone(x)
        <4>1. Leaves(x) = 0 /\ \A z : 0 <= Leaves(z)
          BY <3>3 DEF Leaves
        <4>. QED  BY <4>1
      <3>4. CASE ~ MayLeaveNone(x)
        <4>1. Length(x) > 3 /\ ~ MayLeaveNone(y) /\ ~ MayLeaveNone(x.items[4])
          BY <1>1, <3>1, <3>2, <3>4
        <4>2. Leaves(x) = 1 /\ Leaves(y) = 1 /\ Leaves(x.items[4]) = 1
          BY <3>4, <4>1 DEF Leaves
        <4>. QED  BY <4>1, <4>2
      <3>. QED  BY <3>3, <3>4
    <2>6. Going(Current, functions[Current].body \o <<l>>, ts \o Tail(tasks))
      <3>1. PICK R, f : R = Tasks(Len(envs)) /\ f = Current
        OBVIOUS
      <3>2. PICK b : b = functions[f].body
        OBVIOUS
      <3>3. tasks \in Seq(R) /\ <<Gen(y), Emit(<<Line("close")>>), Alternative(x)>> \in Seq(R)
        BY <1>1, <1>4, <2>1, <3>1
      <3>4. b \in Seq(Lines) /\ Len(b) >= 1 /\ Going(f, b, tasks) /\ Line("if") \in Lines
        BY <1>1, <1>5, <2>1, <3>1, <3>2
      <3>5. Going(f, b \o <<Line("if")>>,
                  <<Gen(y), Emit(<<Line("close")>>), Alternative(x)>> \o Tail(tasks))
        <4> HIDE DEF Lines
        <4>. QED  BY ONLY <2>1, <2>2, <2>5, <3>3, <3>4, ConsequentGoes
      <3>. QED  BY <1>1, <3>1, <3>2, <3>5
    <2>7. Laid(functions', Current, ts \o Tail(tasks))
      <3>1. PICK ls : ls = <<l>>
        OBVIOUS
      <3>2. ls \in Seq(Lines) /\ \A i \in 1 .. Len(ls) : ls[i].op \notin Ends
        <4>1. Len(ls) = 1 /\ ls[1] = l
          BY <3>1
        <4>2. \A i \in 1 .. 1 : i = 1
          OBVIOUS
        <4>3. ls \in Seq(Lines)
          <5> HIDE DEF Lines
          <5>. QED  BY <1>5, <3>1
        <4>. QED  BY <1>5, <4>1, <4>2, <4>3 DEF Ends
      <3>3. Handles(ls, ts)
        BY <1>2, <3>1, <3>2, HandlerHandles
      <3>. QED  BY <1>2, <1>7, <2>1, <2>6, <3>1, <3>2, <3>3, GoingLaid
    <2>8. Reaches(ts[1]) /\ ts[1].do # "scan"
      BY <1>4, <1>7, <2>3, <2>4, PartReached
    <2>9. Reaches(ts[2]) /\ ts[2].do # "scan"
      <3>1. ts[2].do = "emit"
        BY <1>4 DEF Emit
      <3>. QED  BY <3>1 DEF Reaches
    <2>10. Reaches(ts[3]) /\ ts[3].do # "scan"
      <3>1. ts[3].do = "alternative" /\ ts[3].exp = x
        BY <1>4 DEF Alternative
      <3>. QED  BY <2>3, <3>1 DEF Reaches, FormOf
    <2>11. \A i \in 1 .. 3 : i = 1 \/ i = 2 \/ i = 3
      OBVIOUS
    <2>. QED  BY <1>4, <2>7, <2>8, <2>9, <2>10, <2>11
  <1>. QED  BY <1>2, <1>4, <1>5, <1>6, <1>7, BlockKeeps

(* An alternative opens a block right behind the one of its if.            *)
LEMMA GenAlternativeLays == ASSUME IInv, IInv', LInv, GenAlternative PROVE LInv'
  <1>1. PICK x : x = Exp
    OBVIOUS
  <1>2. Doing("alternative") /\ UNCHANGED <<program, envs, lambdas>>
    BY DEF GenAlternative
  <1>3. x \in Longer(3) /\ x \in Nodes /\ Todo = Alternative(x) /\ Head(tasks) = Alternative(x)
    BY <1>1, <1>2, TodoFacts, TodoIs DEF Longer
  <1>4. CASE ~ (Length(x) > 3)
    <2>1. Follow(<<>>) /\ UNCHANGED functions
      BY <1>1, <1>4 DEF GenAlternative, Return
    <2>2. PICK ts : ts = <<>>
      OBVIOUS
    <2>3. ts \in Seq(Tasks(Len(envs))) /\ Len(ts) = 0 /\ Follow(ts)
      BY <2>1, <2>2
    <2>4. Does(Todo, <<>>, ts)
      BY <1>3, <1>4, <2>2, DoneByNone
    <2>5. \A i \in 1 .. Len(ts) : Reaches(ts[i]) /\ ts[i].do # "scan"
      <3>1. \A i \in 1 .. 0 : FALSE
        OBVIOUS
      <3>. QED  BY <2>3, <3>1
    <2>. QED  BY <1>2, <2>1, <2>3, <2>4, <2>5, TasksKeep
  <1>5. CASE Length(x) > 3
    <2>1. PICK y, l, ts : /\ y = x.items[4] /\ l = Line("else")
                          /\ ts = <<Gen(y), Emit(<<Line("close")>>)>>
      OBVIOUS
    <2>2. Write(<<l>>) /\ Follow(ts)
      BY <1>1, <1>5, <2>1 DEF GenAlternative
    <2>3. y \in Nodes
      BY <1>3, <1>5, <2>1, NodeFacts, ItemFacts
    <2>4. /\ ts \in Seq(Tasks(Len(envs))) /\ Len(ts) = 2
          /\ ts[1] = Gen(y) /\ ts[2] = Emit(<<Line("close")>>)
      <3>1. <<Line("close")>> \in Seq(Common)
        BY LineFacts DEF PlainOps
      <3>2. Gen(y) \in Tasks(Len(envs)) /\ Emit(<<Line("close")>>) \in Tasks(Len(envs))
        BY <2>3, <3>1, TasksHere
      <3> HIDE DEF Tasks
      <3>. QED  BY <2>1, <3>2
    <2>5. l \in Lines /\ l.op = "else"
      BY <2>1, LineFacts DEF Common, PlainOps, Line
    <2>6. Lasting(Current, l)
      BY <2>5 DEF Lasting, Inner
    <2>7. ASSUME Conventional
          PROVE  /\ \A i \in 1 .. Len(ts) : Reaches(ts[i]) /\ ts[i].do # "scan"
                 /\ Laid(functions', Current, ts \o Tail(tasks))
      <3>1. /\ functions[Current].body \in Seq(Lines) /\ Len(functions[Current].body) >= 1
            /\ Going(Current, functions[Current].body, tasks)
            /\ tasks \in Seq(Tasks(Len(envs))) /\ Len(tasks) >= 2 /\ Reaches(Todo)
        BY <1>2, <2>7, HeadFacts
      <3>2. x \in Expressions /\ Kind(x) = "if"
        BY <1>3, <3>1 DEF Reaches, FormOf, Alternative
      <3>3. y \in Range(Immediate(x))
        <4>1. 4 \in 2 .. 4 /\ 4 <= Length(x)
          BY <1>3, <1>5, NodeFacts
        <4>. QED  BY <1>3, <2>1, <3>2, <4>1, ItemsAreParts
      <3>4. Going(Current, functions[Current].body \o <<l>>, ts \o Tail(tasks))
        <4>1. PICK R, f : R = Tasks(Len(envs)) /\ f = Current
          OBVIOUS
        <4>2. PICK b : b = functions[f].body
          OBVIOUS
        <4>3. tasks \in Seq(R) /\ <<Gen(y), Emit(<<Line("close")>>)>> \in Seq(R)
          BY <2>1, <2>4, <3>1, <4>1
        <4>4. b \in Seq(Lines) /\ Len(b) >= 1 /\ Going(f, b, tasks) /\ Line("else") \in Lines
          BY <2>1, <2>5, <3>1, <4>1, <4>2
        <4>5. Going(f, b \o <<Line("else")>>, <<Gen(y), Emit(<<Line("close")>>)>> \o Tail(tasks))
          <5> HIDE DEF Lines
          <5>. QED  BY ONLY <1>3, <1>5, <2>1, <3>1, <4>3, <4>4, ElseGoes
        <4>. QED  BY <2>1, <4>1, <4>2, <4>5
      <3>5. Laid(functions', Current, ts \o Tail(tasks))
        <4>1. PICK ls : ls = <<l>>
          OBVIOUS
        <4>2. ls \in Seq(Lines) /\ \A i \in 1 .. Len(ls) : ls[i].op \notin Ends
          <5>1. Len(ls) = 1 /\ ls[1] = l
            BY <4>1
          <5>2. \A i \in 1 .. 1 : i = 1
            OBVIOUS
          <5>3. ls \in Seq(Lines)
            <6> HIDE DEF Lines
            <6>. QED  BY <2>5, <4>1
          <5>. QED  BY <2>5, <5>1, <5>2, <5>3 DEF Ends
        <4>3. Handles(ls, ts)
          BY <1>2, <2>2, <4>1, <4>2, HandlerHandles
        <4>. QED  BY <1>2, <2>7, <3>1, <3>4, <4>1, <4>2, <4>3, GoingLaid
      <3>6. Reaches(ts[1]) /\ ts[1].do # "scan"
        BY <2>4, <2>7, <3>2, <3>3, PartReached
      <3>7. Reaches(ts[2]) /\ ts[2].do # "scan"
        <4>1. ts[2].do = "emit"
          BY <2>4 DEF Emit
        <4>. QED  BY <4>1 DEF Reaches
      <3>8. \A i \in 1 .. 2 : i = 1 \/ i = 2
        OBVIOUS
      <3>. QED  BY <2>4, <3>5, <3>6, <3>7, <3>8
    <2>. QED  BY <1>2, <2>2, <2>4, <2>5, <2>6, <2>7, BlockKeeps
  <1>. QED  BY <1>4, <1>5

(* The lines that wait are those of a call, of the end of a block or of    *)
(* the end of the function.                                                *)
LEMMA EmitIsKnown ==
  ASSUME NEW f, NEW b, NEW T, Len(T) \in Nat, Going(f, b, T), Len(T) >= 2, NEW s, s = T[1], s.do = "emit"
  PROVE  Closing(s) \/ \E k \in 0 .. MaxArgs : s = Emit(CallLines(k))
  <1>1. PICK D, h, c : Pending(f, b, D, h, T, c)
    BY DEF Going
  <1>2. PICK m : m = Len(T)
    OBVIOUS
  <1>3. m \in 2 .. m /\ m - 1 \in 1 .. m /\ m \in 1 .. m /\ m + 1 - m = 1
    BY <1>2
  <1>4. TaskPending(b, D, h, T, c, m) /\ c \in Certificates(m)
    BY <1>1, <1>2, <1>3 DEF Pending
  <1>5. At(T, m) = s
    BY <1>2, <1>3 DEF At
  <1>6. c[m] \in [t : Nat, g : Nat, w : Nat] /\ c[m - 1] \in [t : Nat, g : Nat, w : Nat]
    BY <1>3, <1>4 DEF Certificates
  <1>7. PICK a, v : a = c[m].t /\ v = c[m - 1].t
    OBVIOUS
  <1>8. a \in Nat /\ v \in Nat
    BY <1>6, <1>7
  <1>9. Leads(s, a, v)
    BY <1>4, <1>5, <1>7 DEF TaskPending
  <1>. QED  BY <1>8, <1>9, LeadsFacts

(* The lines of a call fit into any function.                              *)
LEMMA CallLinesLast ==
  ASSUME NEW k \in 0 .. MaxArgs, NEW f, NEW i \in 1 .. Len(CallLines(k))
  PROVE  LET l == CallLines(k)[i]
         IN Lasting(f, l) /\ l.op \notin {"scan", "outer", "get", "set"} \cup Ends
  <1>1. k \in Nat /\ k <= MaxArgs /\ MaxArgs \in Nat
    BY ValuesAssumption
  <1>2. PICK z : z = CallLines(k)
    OBVIOUS
  <1>3. /\ Len(z) = k + 2
        /\ \A j \in 1 .. k : z[j] = Numbered("arg", j - 1) /\ z[j].op = "arg"
        /\ z[k + 1].op = "call" /\ z[k + 2].op = "pushret"
    BY <1>1, <1>2, CallLinesFacts
  <1>4. CASE i \in 1 .. k
    <2>1. z[i] = Numbered("arg", i - 1) /\ i - 1 < MaxArgs
      BY <1>1, <1>3, <1>4
    <2>2. z[i].op = "arg" /\ z[i].n < MaxArgs
      BY <2>1 DEF Numbered
    <2>. QED  BY <1>2, <2>2 DEF Lasting, Inner, Ends
  <1>5. CASE i = k + 1
    <2>1. z[i].op = "call"
      BY <1>3, <1>5
    <2>. QED  BY <1>2, <2>1 DEF Lasting, Inner, Ends
  <1>6. CASE i = k + 2
    <2>1. z[i].op = "pushret"
      BY <1>3, <1>6
    <2>. QED  BY <1>2, <2>1 DEF Lasting, Inner, Ends
  <1>7. i \in 1 .. k \/ i = k + 1 \/ i = k + 2
    BY <1>1, <1>2, <1>3
  <1>. QED  BY <1>4, <1>5, <1>6, <1>7

(* What is printed as it is closes a block, calls, or ends the function.   *)
LEMMA EmitLinesLays == ASSUME IInv, IInv', LInv, EmitLines PROVE LInv'
  <1>1. PICK s, ls, ts : s = Todo /\ ls = s.lines /\ ts = <<>>
    OBVIOUS
  <1>2. Doing("emit") /\ Write(ls) /\ Follow(ts) /\ UNCHANGED <<program, envs, lambdas>>
    BY <1>1 DEF EmitLines, Return
  <1>3. ls \in Seq(Lines) /\ ts \in Seq(Tasks(Len(envs))) /\ Len(ts) = 0
    <2>1. ls \in Seq(Common)
      BY <1>1, <1>2, TodoFacts
    <2>2. Common \subseteq Lines
      BY DEF Common
    <2> HIDE DEF Common, Lines
    <2>3. ls \in Seq(Lines)
      BY ONLY <2>1, <2>2
    <2>. QED  BY <1>1, <2>3
  <1>4. Handles(ls, ts)
    BY <1>2, <1>3, HandlerHandles
  <1>5. ASSUME Conventional PROVE Quiet(ls, ts)
    <2>1. /\ Reached /\ functions[Current].body \in Seq(Lines) /\ Len(functions[Current].body) >= 1
          /\ Going(Current, functions[Current].body, tasks)
          /\ \A i \in 1 .. Len(functions[Current].body) : functions[Current].body[i].op \notin Ends
          /\ tasks \in Seq(Tasks(Len(envs))) /\ tasks # <<>> /\ Len(tasks) >= 1
          /\ At(tasks, 1) = Ending(Current)
      BY <1>2, <1>5, HeadFacts
    <2>2. PICK b, f : b = functions[f].body /\ f = Current
      OBVIOUS
    <2>3. s.do = "emit" /\ Head(tasks) = s /\ Current \in 1 .. Len(functions)
      BY <1>1, <1>2, TodoFacts DEF Doing, Todo
    <2>4. PICK R, u : R = Tasks(Len(envs)) /\ u = Tail(tasks)
      OBVIOUS
    <2>5. tasks \in Seq(R) /\ ts \in Seq(R)
      BY <1>3, <2>1, <2>4
    <2>6. /\ u \in Seq(R) /\ s = tasks[1] /\ Len(tasks) \in Nat /\ Len(u) = Len(tasks) - 1
          /\ (Len(tasks) = 1 => u = <<>>)
      BY ONLY <2>1, <2>3, <2>4, <2>5
    <2>7. ts \o u = u
      BY <1>1, <2>6
    <2>8. functions'[f].body = b \o ls
      BY <1>4, <2>2, <2>3 DEF Handles
    <2>9. CASE Len(tasks) = 1
      <3>1. s = Ending(f)
        <4>1. Len(tasks) + 1 - 1 = 1
          BY <2>9
        <4>. QED  BY <2>1, <2>2, <2>6, <4>1 DEF At
      <3>2. PICK l : l = Line(IF f = 1 THEN "exit" ELSE "return")
        OBVIOUS
      <3>3. ls = <<l>>
        BY <1>1, <3>1, <3>2 DEF Ending, Emit
      <3>4. l.op = IF f = 1 THEN "exit" ELSE "return"
        BY <3>2 DEF Line
      <3>5. l \in Lines /\ l.op \in Ends
        BY <3>2, <3>4, LineFacts DEF Common, PlainOps, Ends
      <3>6. \E D, h : Shape(b \o <<l>>, D, h) /\ Complete(b \o <<l>>, h)
        <4>1. b \in Seq(Lines) /\ Going(f, b, tasks) /\ \A i \in 1 .. Len(b) : b[i].op \notin Ends
          BY <2>1, <2>2
        <4> HIDE DEF Lines
        <4>. QED  BY ONLY <2>9, <3>5, <4>1, EndGoes
      <3>7. Laid(functions', Current, ts \o Tail(tasks))
        <4>1. ts \o Tail(tasks) = <<>>
          BY <2>4, <2>6, <2>7, <2>9
        <4>. QED  BY <2>2, <2>8, <3>3, <3>6, <4>1 DEF Laid
      <3>8. \A i \in 1 .. Len(ls) :
              Lasting(Current, ls[i]) /\ ls[i].op \notin {"scan", "outer", "get", "set"}
        <4>1. Len(ls) = 1 /\ ls[1] = l /\ \A i \in 1 .. 1 : i = 1
          BY <3>3
        <4>2. Lasting(f, l) /\ l.op \notin {"scan", "outer", "get", "set"}
          BY <3>4 DEF Lasting
        <4>. QED  BY <2>2, <4>1, <4>2
      <3>. QED  BY <1>2, <1>3, <2>1, <3>7, <3>8, TablesKept DEF Quiet
    <2>10. CASE Len(tasks) # 1 /\ Closing(s)
      <3>1. PICK l : l = Line("close")
        OBVIOUS
      <3>2. ls = <<l>> /\ l.op = "close" /\ l \in Lines
        BY <1>1, <2>10, <3>1, LineFacts DEF Closing, Emit, Line, Common, PlainOps
      <3>3. Len(tasks) >= 2
        BY <2>1, <2>6, <2>10
      <3>4. Going(f, b \o <<Line("close")>>, Tail(tasks))
        <4>1. b \in Seq(Lines) /\ Len(b) >= 1 /\ Going(f, b, tasks) /\ Line("close") \in Lines
              /\ Closing(Head(tasks))
          BY <2>1, <2>2, <2>3, <2>10, <3>1, <3>2
        <4> HIDE DEF Lines
        <4>. QED  BY ONLY <2>5, <3>3, <4>1, CloseGoes
      <3>5. \A i \in 1 .. Len(ls) :
              /\ Lasting(Current, ls[i]) /\ ls[i].op \notin {"scan", "outer", "get", "set"}
              /\ ls[i].op \notin Ends
        <4>1. Len(ls) = 1 /\ ls[1] = l /\ \A i \in 1 .. 1 : i = 1
          BY <3>2
        <4>2. Lasting(f, l) /\ l.op \notin {"scan", "outer", "get", "set"} /\ l.op \notin Ends
          BY <3>2 DEF Lasting, Inner, Ends
        <4>. QED  BY <2>2, <4>1, <4>2
      <3>6. Laid(functions', Current, ts \o Tail(tasks))
        <4>1. Going(Current, functions[Current].body \o ls, ts \o Tail(tasks))
          BY <2>2, <2>4, <2>7, <3>1, <3>2, <3>4
        <4>. QED  BY <1>2, <1>3, <1>4, <1>5, <3>3, <3>5, <4>1, GoingLaid
      <3>. QED  BY <1>2, <1>3, <2>1, <3>5, <3>6, TablesKept DEF Quiet
    <2>11. CASE Len(tasks) # 1 /\ ~ Closing(s)
      <3>1. Len(tasks) >= 2
        BY <2>1, <2>6, <2>11
      <3>2. PICK k \in 0 .. MaxArgs : s = Emit(CallLines(k))
        <4>1. Going(f, b, tasks)
          BY <2>1, <2>2
        <4>. QED  BY <2>3, <2>6, <2>11, <3>1, <4>1, EmitIsKnown
      <3>3. ls = CallLines(k)
        BY <1>1, <3>2 DEF Emit
      <3>4. \A i \in 1 .. Len(ls) :
              /\ Lasting(Current, ls[i]) /\ ls[i].op \notin {"scan", "outer", "get", "set"}
              /\ ls[i].op \notin Ends
        BY <3>3, CallLinesLast
      <3>5. Does(Todo, ls, ts)
        BY <1>1, <2>3, <2>11, DoneByEmit
      <3>6. Laid(functions', Current, ts \o Tail(tasks))
        BY <1>2, <1>3, <1>4, <1>5, <3>1, <3>4, <3>5, PlainLaid
      <3>. QED  BY <1>2, <1>3, <2>1, <3>4, <3>6, TablesKept DEF Quiet
    <2>. QED  BY <2>9, <2>10, <2>11
  <1>. QED  BY <1>2, <1>3, <1>4, <1>5, QuietKeeps

-----------------------------------------------------------------------------
(* New functions.                                                          *)

(* The lines that a function begins with.                                  *)
FreshLines(f, b) ==
  /\ Len(b) >= 1 /\ b[1].op = IF f = 1 THEN "env" ELSE "enter"
  /\ \A i \in 1 .. Len(b) :
       Fitting(f, i, b[i]) /\ b[i].op \in {"env", "enter", "prim", "bind", "int"}

(* A function that begins so is as the invariant says.                     *)
LEMMA FreshFunction ==
  ASSUME NEW c, Len(c) \in Nat, NEW f \in 1 .. Len(c), NEW S, NEW b \in Seq(S), b = c[f].body,
         FreshLines(f, b), NEW T, ~ Scanning(T), NEW m, NEW t, FreshTasks(f, T, m, t),
         NEW n, NEW e, PlainLines(b, n, e), e[1] = 0, t[m] <= e[n + 1]
  PROVE  Laid(c, f, T) /\ Placed(c, f) /\ Owned(c, f, T)
  <1>1. /\ Len(b) \in Nat /\ Len(b) >= 1 /\ b[1].op = (IF f = 1 THEN "env" ELSE "enter")
        /\ \A i \in 1 .. Len(b) :
             Fitting(f, i, b[i]) /\ b[i].op \in {"env", "enter", "prim", "bind", "int"}
    BY DEF FreshLines
  <1>2. Placed(c, f)
    BY <1>1 DEF Placed
  <1>3. Laid(c, f, T)
    <2>1. Going(f, b, T)
      BY FreshGoes
    <2>2. T # <<>>
      <3>1. Len(T) \in Nat \ {0}
        BY DEF FreshTasks
      <3>2. Len(<<>>) = 0
        OBVIOUS
      <3>. QED  BY <3>1, <3>2
    <2>. QED  BY <1>1, <2>1, <2>2 DEF Laid, Ends
  <1>4. Owned(c, f, T)
    <2> DEFINE o == [j \in 1 .. Len(b) |-> 0]
    <2>1. o \in [1 .. Len(b) -> 0 .. Len(c)] /\ o[1] = 0 /\ \A j \in 1 .. Len(b) : o[j] = 0
      BY <1>1
    <2> HIDE DEF o
    <2>2. \A j \in 1 .. Len(b) : \A w : After(c, f, w, b[j]) = 0
      BY <1>1 DEF After
    <2>3. \A j \in 2 .. Len(b) : j \in 1 .. Len(b) /\ j - 1 \in 1 .. Len(b)
      BY <1>1
    <2>4. Trail(c, f, o)
      BY <2>1, <2>2, <2>3 DEF Trail
    <2>5. \A j \in 1 .. Len(b) : Finds(c, b[j], o[j])
      BY <1>1 DEF Finds
    <2>. QED  BY <2>4, <2>5 DEF Owned
  <1>. QED  BY <1>2, <1>3, <1>4

(* main begins with the environment and the primitive procedures.          *)
LEMMA GenMainLays == ASSUME IInv, IInv', GenMain PROVE LInv'
  <1>1. PICK N, ps, b, T :
          /\ N = NumPrimitives
          /\ ps = [i \in 1 .. N |->
                     [op |-> "prim", n |-> i - 1, p |-> PrimitiveProcedureFunctions[i]]]
          /\ b = <<Line("env")>> \o ps
          /\ T = <<Gen(program), Emit(<<Line("exit")>>)>>
    OBVIOUS
  <1>2. /\ functions' = <<[parent |-> 0, size |-> N, body |-> b]>>
        /\ envs' = <<[enclosing |-> 0, capacity |-> N, variables |-> PrimitiveProcedureVariables]>>
        /\ tasks' = T /\ UNCHANGED <<program, lambdas>> /\ lambdas = <<>>
    BY <1>1 DEF GenMain, IInv, Printed
  <1>3. N = 18 /\ \A i \in 1 .. 18 : PrimitiveProcedureFunctions[i] \in Primitives
    <2>1. N = 18
      BY <1>1 DEF NumPrimitives, PrimitiveProcedureVariables
    <2>2. \A i \in 1 .. 18 : PrimitiveProcedureFunctions[i] \in Primitives
      BY DEF PrimitiveProcedureFunctions, Primitives, IntBinary, IntUnary
    <2>. QED  BY <2>1, <2>2
  <1>4. /\ Len(b) = 19 /\ b[1].op = "env"
        /\ \A i \in 2 .. 19 : b[i].op = "prim" /\ b[i].p \in Primitives
    <2>1. PICK S, l : S = {l, l} \cup {ps[i] : i \in 1 .. 18} /\ l = Line("env")
      <3>1. PICK l : l = Line("env")
        OBVIOUS
      <3>. QED  BY <3>1
    <2>2. ps \in Seq(S) /\ Len(ps) = 18 /\ l \in S
      <3>1. ps = [i \in 1 .. 18 |->
                    [op |-> "prim", n |-> i - 1, p |-> PrimitiveProcedureFunctions[i]]]
        BY <1>1, <1>3
      <3>2. \A i \in 1 .. 18 : ps[i] \in S
        BY <2>1
      <3>. QED  BY <2>1, <3>1, <3>2
    <2>3. /\ Len(<<l>> \o ps) = 1 + Len(ps) /\ (<<l>> \o ps)[1] = l
          /\ \A i \in 2 .. (1 + Len(ps)) : (<<l>> \o ps)[i] = ps[i - 1]
      <3>1. /\ Len(<<l>> \o ps) = 1 + Len(ps)
            /\ \A i \in 1 .. (1 + Len(ps)) :
                 (<<l>> \o ps)[i] = IF i <= 1 THEN l ELSE ps[i - 1]
        <4>1. PICK u : u = <<l>>
          OBVIOUS
        <4>2. u \in Seq(S) /\ ps \in Seq(S)
          BY <2>2, <4>1
        <4>3. /\ Len(u \o ps) = Len(u) + Len(ps)
              /\ \A i \in 1 .. (Len(u) + Len(ps)) :
                   (u \o ps)[i] = IF i <= Len(u) THEN u[i] ELSE ps[i - Len(u)]
          BY ONLY <4>2
        <4>4. Len(u) = 1 /\ u[1] = l
          BY <4>1
        <4>5. \A i \in 1 .. (1 + Len(ps)) : i <= 1 => i = 1
          OBVIOUS
        <4>. QED  BY <4>1, <4>3, <4>4, <4>5
      <3>2. \A i \in 2 .. 19 : i \in 1 .. 19 /\ ~(i <= 1)
        OBVIOUS
      <3>. QED  BY <2>2, <3>1, <3>2
    <2>4. \A i \in 1 .. 18 :
            ps[i] = [op |-> "prim", n |-> i - 1, p |-> PrimitiveProcedureFunctions[i]]
      BY <1>1, <1>3
    <2>5. \A i \in 1 .. 18 : ps[i].op = "prim" /\ ps[i].p \in Primitives
      BY <1>3, <2>4
    <2>6. \A i \in 2 .. 19 : i - 1 \in 1 .. 18
      OBVIOUS
    <2>7. l.op = "env" /\ b = <<l>> \o ps
      BY <1>1, <2>1 DEF Line
    <2>. QED  BY <2>2, <2>3, <2>5, <2>6, <2>7
  <1>5. Len(functions') = 1 /\ functions'[1].body = b /\ functions'[1].parent = 0
        /\ Current' = 1 /\ envs'[1].enclosing = 0
    BY <1>2 DEF Current
  <1>6. b \in Seq(Lines)
    <2>1. functions' \in Seq([parent : Nat, size : Nat, body : Seq(Lines)])
      BY DEF IInv, Typed
    <2>2. 1 \in 1 .. Len(functions')
      BY <1>5
    <2> HIDE DEF Lines
    <2>3. functions'[1].body \in Seq(Lines)
      BY <2>1, <2>2, FunctionFields
    <2>. QED  BY <1>5, <2>3
  <1>7. FreshLines(1, b)
    <2>1. \A i \in 1 .. 19 : i = 1 \/ i \in 2 .. 19
      OBVIOUS
    <2>. QED  BY <1>4, <2>1 DEF FreshLines, Fitting
  <1>8. Len(T) = 2 /\ T[1] = Gen(program) /\ T[2] = Emit(<<Line("exit")>>) /\ Head(T) = Gen(program)
        /\ T # <<>>
    BY <1>1
  <1>9. ~ Scanning(T)
    BY <1>8 DEF Scanning, Gen
  <1> SUFFICES ASSUME Conventional'
               PROVE  /\ Reached'
                      /\ \A f \in 1 .. Len(functions') :
                           /\ Laid(functions', f, TasksOf(f)')
                           /\ Placed(functions', f)
                           /\ Owned(functions', f, TasksOf(f)')
    BY DEF LInv, Laid, Placed, Owned, Trail, Finds, Fitting, Inner, Scanning, After
  <1>10. Conventional /\ Expressions' = Expressions /\ program \in Nodes
    BY <1>2, ConventionalKept, NodesAssumption DEF Expressions, IInv, Typed
  <1>11. PICK t : FreshTasks(1, T, 2, t) /\ t[2] = 0
    <2> DEFINE t == [p \in 1 .. 2 |-> IF p = 1 THEN 1 ELSE 0]
    <2>1. t \in [1 .. 2 -> Nat] /\ t[1] = 1 /\ t[2] = 0
      OBVIOUS
    <2> HIDE DEF t
    <2>2. At(T, 1) = Ending(1) /\ At(T, 2) = Gen(program)
      BY <1>8 DEF At, Ending
    <2>3. Leaves(program) = 1
      BY <1>10 DEF Conventional, Leaves
    <2>4. Gen(program).do = "gen" /\ Gen(program).exp = program
      BY DEF Gen
    <2>5. /\ ~ Closing(Gen(program)) /\ Gen(program).do # "alternative"
          /\ Leads(Gen(program), 0, 1)
      BY <2>3, <2>4 DEF Closing, Emit, Leads
    <2>6. \A p \in 2 .. 2 : p = 2 /\ p - 1 = 1
      OBVIOUS
    <2>7. FreshTasks(1, T, 2, t)
      BY <1>8, <2>1, <2>2, <2>5, <2>6 DEF FreshTasks
    <2>. QED  BY <2>1, <2>7
  <1>12. PICK e : PlainLines(b, 19, e) /\ e[1] = 0 /\ e[20] = 0
    <2> DEFINE e == [i \in 1 .. 20 |-> 0]
    <2>1. e \in [1 .. (19 + 1) -> Nat] /\ \A i \in 1 .. 20 : e[i] = 0
      OBVIOUS
    <2> HIDE DEF e
    <2>2. \A i \in 1 .. 19 : b[i].op \in {"env", "prim"}
      <3>1. \A i \in 1 .. 19 : i = 1 \/ i \in 2 .. 19
        OBVIOUS
      <3>. QED  BY <1>4, <3>1
    <2>3. \A i \in 1 .. 19 :
            /\ b[i].op \notin Openers \cup {"close"} /\ b[i].op \notin PopOps
            /\ Change(b[i].op) = 0
      BY <2>2 DEF Openers, PopOps, PushOps, Change
    <2>4. \A i \in 1 .. 19 : i \in 1 .. 20 /\ i + 1 \in 1 .. 20
      OBVIOUS
    <2>5. \A i \in 1 .. 19 : e[i] = 0 /\ e[i + 1] = 0
      BY <2>1, <2>4
    <2>6. PlainLines(b, 19, e)
      BY <1>4, <2>1, <2>3, <2>5 DEF PlainLines
    <2>. QED  BY <2>1, <2>6
  <1>13. Laid(functions', 1, T) /\ Placed(functions', 1) /\ Owned(functions', 1, T)
    <2>1. PICK c, f, m, n : c = functions' /\ f = 1 /\ m = 2 /\ n = 19
      OBVIOUS
    <2>2. Len(c) \in Nat /\ f \in 1 .. Len(c) /\ b = c[f].body /\ FreshLines(f, b)
          /\ FreshTasks(f, T, m, t) /\ PlainLines(b, n, e)
      <3>1. Len(c) \in Nat /\ f \in 1 .. Len(c) /\ b = c[f].body
        <4>1. Len(c) = 1 /\ f = 1 /\ c[1].body = b
          BY <1>5, <2>1
        <4>. QED  BY ONLY <4>1
      <3>2. FreshTasks(f, T, m, t) /\ PlainLines(b, n, e) /\ FreshLines(f, b)
        BY <1>7, <1>11, <1>12, <2>1
      <3>. QED  BY <3>1, <3>2
    <2>3. t[m] <= e[n + 1]
      BY <1>11, <1>12, <2>1
    <2>4. b \in Seq(Lines) /\ e[1] = 0
      BY <1>6, <1>12
    <2> HIDE DEF Lines
    <2>5. Laid(c, f, T) /\ Placed(c, f) /\ Owned(c, f, T)
      BY ONLY <1>9, <2>2, <2>3, <2>4, FreshFunction
    <2>. QED  BY <2>1, <2>5
  <1>14. Reached'
    <2>1. Reaches(Gen(program)) /\ Gen(program).do # "scan"
      BY <1>10, ExpressionsClosed DEF Reaches, Gen
    <2>2. Reaches(Emit(<<Line("exit")>>)) /\ Emit(<<Line("exit")>>).do = "emit"
      BY DEF Reaches, Emit
    <2>3. \A i \in 1 .. 2 : i = 1 \/ i = 2
      OBVIOUS
    <2>4. \A i \in 1 .. Len(T) : Reaches(T[i]) /\ T[i].do # "scan"
      BY <1>8, <2>1, <2>2, <2>3
    <2>5. \A i \in 1 .. Len(tasks') : Reaches(tasks[i])' /\ tasks'[i].do # "scan"
      BY <1>2, <1>10, <2>4 DEF Reaches, FormOf
    <2>6. Len(lambdas') = 0 /\ \A k \in 1 .. 0 : FALSE
      BY <1>2
    <2>7. \A f \in 1 .. 1 : f = 1
      OBVIOUS
    <2>. QED  BY <1>5, <2>5, <2>6, <2>7 DEF Reached
  <1>15. TasksOf(1)' = T
    BY <1>2, <1>5 DEF TasksOf
  <1>16. \A f \in 1 .. 1 : f = 1
    OBVIOUS
  <1>. QED  BY <1>5, <1>13, <1>14, <1>15, <1>16

(* T generates the m expressions of the body ys of function f.             *)
BodyTasks(f, T, ys, m) ==
  /\ ~ Scanning(T)
  /\ \E t : FreshTasks(f, T, m + 1, t) /\ t[m + 1] = 1
  /\ Len(T) = m + 1
  /\ \A i \in 1 .. m : T[i] = Gen(ys[i])
  /\ T[m + 1] = Emit(<<Line("return")>>)

(* The body of a lambda expression, which comes to one word for each of    *)
(* its parts at most.                                                      *)
LEMMA BodyLeads ==
  ASSUME NEW S, NEW ys \in Seq(S), NEW f, f # 1,
         NEW T, T = GenAll(ys) \o <<Emit(<<Line("return")>>)>>
  PROVE  BodyTasks(f, T, ys, Len(ys))
  <1>1. PICK m, z, G :
          m = Len(ys) /\ z = Emit(<<Line("return")>>)
          /\ G = {z} \cup {Gen(ys[i]) : i \in 1 .. m}
    OBVIOUS
  <1>2. m \in Nat
    BY <1>1
  <1>3. GenAll(ys) = [i \in 1 .. m |-> Gen(ys[i])]
    BY <1>1 DEF GenAll
  <1>4. PICK u : u = GenAll(ys)
    OBVIOUS
  <1>5. u \in Seq(G) /\ Len(u) = m /\ \A i \in 1 .. m : u[i] = Gen(ys[i])
    <2>1. \A i \in 1 .. m : Gen(ys[i]) \in G
      BY <1>1
    <2>. QED  BY <1>2, <1>3, <1>4, <2>1
  <1>6. z \in G
    BY <1>1
  <1>7. /\ Len(u \o <<z>>) = Len(u) + 1
        /\ \A i \in 1 .. (Len(u) + 1) :
             (u \o <<z>>)[i] = IF i <= Len(u) THEN u[i] ELSE z
    BY ONLY <1>5, <1>6
  <1>8. T = u \o <<z>>
    BY <1>1, <1>4
  <1>9. /\ Len(T) = m + 1
        /\ \A i \in 1 .. m : T[i] = Gen(ys[i])
        /\ T[m + 1] = z
    <2>1. \A i \in 1 .. m : i \in 1 .. (m + 1) /\ i <= m
      BY <1>2
    <2>2. m + 1 \in 1 .. (m + 1) /\ ~(m + 1 <= m)
      BY <1>2
    <2>. QED  BY <1>5, <1>7, <1>8, <2>1, <2>2
  <1>10. ~ Scanning(T)
    <2>1. Head(T) = T[1]
      OBVIOUS
    <2>2. m = 0 \/ 1 \in 1 .. m
      BY <1>2
    <2>3. z.do = "emit" /\ \A y : Gen(y).do = "gen"
      BY <1>1 DEF Emit, Gen
    <2>4. T[1].do \in {"gen", "emit"}
      <3>1. CASE m = 0
        <4>1. m + 1 = 1
          BY <3>1
        <4>2. T[1] = z
          BY <1>9, <4>1
        <4>. QED  BY <2>3, <4>2
      <3>2. CASE 1 \in 1 .. m
        <4>1. T[1] = Gen(ys[1])
          BY <1>9, <3>2
        <4>. QED  BY <2>3, <4>1
      <3>. QED  BY <2>2, <3>1, <3>2
    <2>. QED  BY <2>1, <2>4 DEF Scanning
  <1>11. PICK t : t = [p \in 1 .. (m + 1) |-> 1]
    OBVIOUS
  <1>12. t \in [1 .. (m + 1) -> Nat] /\ \A p \in 1 .. (m + 1) : t[p] = 1
    BY <1>11
  <1>13. At(T, 1) = Ending(f)
    <2>1. Len(T) + 1 - 1 = m + 1
      BY <1>2, <1>9
    <2>2. At(T, 1) = T[Len(T) + 1 - 1]
      BY DEF At
    <2>. QED  BY <1>1, <1>9, <2>1, <2>2 DEF Ending
  <1>14. ASSUME NEW p \in 2 .. (m + 1)
         PROVE  /\ ~ Closing(At(T, p)) /\ At(T, p).do # "alternative"
                /\ Leads(At(T, p), t[p], t[p - 1])
    <2>1. Len(T) + 1 - p \in 1 .. m /\ p \in 1 .. (m + 1) /\ p - 1 \in 1 .. (m + 1)
      BY <1>2, <1>9, <1>14
    <2>2. PICK y : At(T, p) = Gen(y)
      BY <1>9, <2>1 DEF At
    <2>3. Gen(y).do = "gen" /\ Gen(y).exp = y
      BY DEF Gen
    <2>4. Leaves(y) \in {0, 1}
      BY DEF Leaves
    <2>5. t[p - 1] <= t[p] + Leaves(y)
      BY <1>12, <2>1, <2>4
    <2>. QED  BY <2>2, <2>3, <2>5 DEF Leads, Closing, Emit
  <1>15. t[1] >= 1 /\ t[m + 1] = 1
    <2>1. 1 \in 1 .. (m + 1) /\ m + 1 \in 1 .. (m + 1)
      BY <1>2
    <2>. QED  BY <1>12, <2>1
  <1>16. FreshTasks(f, T, m + 1, t)
    <2>1. m + 1 \in Nat \ {0}
      BY <1>2
    <2>. QED  BY <1>9, <1>12, <1>13, <1>14, <1>15, <2>1 DEF FreshTasks
  <1>. QED  BY <1>1, <1>9, <1>10, <1>15, <1>16 DEF BodyTasks

(* The head of a procedure: its environment, the parameters and a word     *)
(* for a body that leaves none.                                            *)
LEMMA ProcedureHead ==
  ASSUME NEW k \in Nat, k <= MaxArgs, NEW f, f # 1,
         NEW b, b = <<Line("enter")>> \o [i \in 1 .. k |-> Numbered("bind", i - 1)]
                      \o <<Numbered("int", 0)>>
  PROVE  /\ FreshLines(f, b) /\ Len(b) = k + 2
         /\ \E e : PlainLines(b, k + 2, e) /\ e[1] = 0 /\ e[k + 3] = 1
  <1>1. PICK l, z, u, S :
          /\ l = Line("enter") /\ z = Numbered("int", 0)
          /\ u = [i \in 1 .. k |-> Numbered("bind", i - 1)]
          /\ S = {l, z} \cup {Numbered("bind", i - 1) : i \in 1 .. k}
    OBVIOUS
  <1>2. u \in Seq(S) /\ Len(u) = k /\ \A i \in 1 .. k : u[i] = Numbered("bind", i - 1)
    <2>1. \A i \in 1 .. k : Numbered("bind", i - 1) \in S
      BY <1>1
    <2>2. u = [i \in 1 .. k |-> Numbered("bind", i - 1)]
      BY <1>1
    <2>3. \A i \in 1 .. k : u[i] = Numbered("bind", i - 1)
      BY <2>2
    <2>4. u \in [1 .. k -> S]
      BY <2>1, <2>2
    <2>5. u \in Seq(S) /\ Len(u) = k
      BY ONLY <2>4, k \in Nat
    <2>. QED  BY <2>3, <2>5
  <1>3. l \in S /\ z \in S
    BY <1>1
  <1>4. /\ Len(<<l>> \o u \o <<z>>) = Len(u) + 2
        /\ \A i \in 1 .. (Len(u) + 2) :
             (<<l>> \o u \o <<z>>)[i] =
                IF i = 1 THEN l ELSE IF i <= Len(u) + 1 THEN u[i - 1] ELSE z
    BY ONLY <1>2, <1>3
  <1>5. b = <<l>> \o u \o <<z>>
    BY <1>1
  <1>6. /\ Len(b) = k + 2 /\ b[1] = l
        /\ \A i \in 2 .. (k + 1) : b[i] = Numbered("bind", i - 2)
        /\ b[k + 2] = z
    <2>1. \A i \in 2 .. (k + 1) :
            i \in 1 .. (k + 2) /\ i # 1 /\ i <= k + 1 /\ i - 1 \in 1 .. k /\ (i - 1) - 1 = i - 2
      OBVIOUS
    <2>2. /\ 1 \in 1 .. (k + 2) /\ k + 2 \in 1 .. (k + 2)
          /\ k + 2 # 1 /\ ~(k + 2 <= k + 1)
      OBVIOUS
    <2>3. \A i \in 1 .. (k + 2) :
            b[i] = IF i = 1 THEN l ELSE IF i <= k + 1 THEN u[i - 1] ELSE z
      BY <1>2, <1>4, <1>5
    <2>4. \A i \in 2 .. (k + 1) : b[i] = u[i - 1]
      BY <2>1, <2>3
    <2>. QED  BY <1>2, <1>4, <1>5, <2>1, <2>2, <2>3, <2>4
  <1>7. l.op = "enter" /\ z.op = "int" /\ z.n = 0
    BY <1>1 DEF Line, Numbered
  <1>8. \A i \in 2 .. (k + 1) : b[i].op = "bind" /\ b[i].n = i - 2
    BY <1>6 DEF Numbered
  <1>9. \A i \in 1 .. (k + 2) : i = 1 \/ i \in 2 .. (k + 1) \/ i = k + 2
    OBVIOUS
  <1>10. FreshLines(f, b)
    <2>1. ASSUME NEW i \in 2 .. (k + 1) PROVE b[i].n < MaxArgs
      <3>1. b[i].n = i - 2
        BY <1>8
      <3>2. MaxArgs \in Nat
        BY ValuesAssumption
      <3>. QED  BY <3>1, <3>2
    <2>2. Inner(z)
      <3>1. IntMax \in Nat
        BY ValuesAssumption
      <3>2. 0 \in LongLong
        BY <3>1 DEF LongLong, IntMin
      <3>. QED  BY <1>7, <3>2 DEF Inner
    <2>3. ASSUME NEW i \in 1 .. (k + 2)
          PROVE  Fitting(f, i, b[i]) /\ b[i].op \in {"env", "enter", "prim", "bind", "int"}
      <3>1. CASE i = 1
        BY <1>6, <1>7, <3>1 DEF Fitting
      <3>2. CASE i \in 2 .. (k + 1)
        BY <1>8, <2>1, <3>2 DEF Fitting
      <3>3. CASE i = k + 2
        BY <1>6, <1>7, <2>2, <3>3 DEF Fitting
      <3>. QED  BY <1>9, <3>1, <3>2, <3>3
    <2>4. k + 2 >= 1
      OBVIOUS
    <2>. QED  BY <1>6, <1>7, <2>3, <2>4 DEF FreshLines
  <1>11. PICK e : e = [i \in 1 .. (k + 3) |-> IF i = k + 3 THEN 1 ELSE 0]
    OBVIOUS
  <1>12. e \in [1 .. ((k + 2) + 1) -> Nat] /\ e[1] = 0 /\ e[k + 3] = 1
         /\ \A i \in 1 .. (k + 2) : e[i] = 0
    <2>1. (k + 2) + 1 = k + 3 /\ 1 \in 1 .. (k + 3) /\ k + 3 \in 1 .. (k + 3) /\ 1 # k + 3
      OBVIOUS
    <2>2. \A i \in 1 .. (k + 2) : i \in 1 .. (k + 3) /\ i # k + 3
      OBVIOUS
    <2>. QED  BY <1>11, <2>1, <2>2
  <1>13. ASSUME NEW i \in 1 .. (k + 2)
         PROVE  /\ b[i].op \notin Openers \cup {"close"}
                /\ b[i].op \in PopOps => e[i] >= 1
                /\ e[i + 1] <= e[i] + Change(b[i].op)
    <2>1. b[i].op \in {"enter", "bind", "int"}
      BY <1>6, <1>7, <1>8, <1>9
    <2>2. CASE i = k + 2
      <3>1. b[i].op = "int" /\ i + 1 = k + 3
        BY <1>6, <1>7, <2>2
      <3>2. Change(b[i].op) = 1
        BY <3>1 DEF Change, PushOps, PopOps
      <3>3. e[i + 1] = 1 /\ e[i] = 0
        BY <1>12, <3>1
      <3>4. e[i + 1] <= e[i] + Change(b[i].op)
        BY <3>1, <3>2, <3>3
      <3>. QED  BY <3>1, <3>4 DEF Openers, PopOps
    <2>3. CASE i # k + 2
      <3>1. i + 1 \in 1 .. (k + 2)
        BY <2>3
      <3>2. e[i] = 0 /\ e[i + 1] = 0
        BY <1>12, <3>1
      <3>3. Change(b[i].op) \in {0, 1}
        BY <2>1 DEF Change, PushOps, PopOps
      <3>4. e[i + 1] <= e[i] + Change(b[i].op)
        BY <3>2, <3>3
      <3>. QED  BY <2>1, <3>4 DEF Openers, PopOps
    <2>. QED  BY <2>2, <2>3
  <1>14. PlainLines(b, k + 2, e)
    <2>1. k + 2 \in Nat
      OBVIOUS
    <2>. QED  BY <1>6, <1>12, <1>13, <2>1 DEF PlainLines
  <1>. QED  BY <1>6, <1>10, <1>12, <1>14

(* The next lambda expression, whose parts belong to the program.          *)
LEMMA NextLambdaFacts ==
  ASSUME IInv, Reached, Conventional, LambdaIsNext, LambdaFormed(NextLambda)
  PROVE  /\ NextLambda \in Expressions
         /\ BodyOf(NextLambda) \in Seq(Nodes)
         /\ Length(Parameters(NextLambda)) \in Nat
         /\ Length(Parameters(NextLambda)) <= MaxArgs
         /\ \A i \in 1 .. Len(BodyOf(NextLambda)) : BodyOf(NextLambda)[i] \in Expressions
         /\ lambdas[Len(functions)].env \in 1 .. Len(functions)
  <1>1. PICK x : x = NextLambda
    OBVIOUS
  <1>2. Typed /\ Matched /\ Printed /\ status = "run" /\ Len(functions) <= Len(lambdas)
    BY DEF IInv, LambdaIsNext
  <1>3. lambdas \in Seq([exp : LambdaNodes, env : Nat]) /\ Len(functions) \in 1 .. Len(lambdas)
    <2>1. lambdas \in Seq([exp : LambdaNodes, env : Nat])
      BY <1>2 DEF Typed
    <2>2. Len(functions) > 0
      BY <1>2 DEF Matched
    <2>3. Len(functions) \in Nat
      BY FunctionFacts
    <2>4. PICK L : L = [exp : LambdaNodes, env : Nat]
      OBVIOUS
    <2>5. lambdas \in Seq(L)
      BY <2>1, <2>4
    <2>6. Len(lambdas) \in Nat
      BY ONLY <2>5
    <2>. QED  BY <1>2, <2>1, <2>2, <2>3, <2>6
  <1>4. x \in LambdaNodes /\ x \in Expressions
    <2>1. lambdas[Len(functions)] \in [exp : LambdaNodes, env : Nat]
      BY <1>3, ElementOfSeq
    <2>2. lambdas[Len(functions)].exp \in Expressions
      BY <1>3 DEF Reached
    <2> HIDE DEF LambdaNodes, Expressions
    <2>. QED  BY <1>1, <2>1, <2>2 DEF NextLambda
  <1>5. BodyOf(x) \in Seq(Nodes) /\ Length(Parameters(x)) \in Nat
    BY <1>1, <1>4, LambdaFacts
  <1>6. Kind(x) = "lambda"
    BY <1>4 DEF LambdaNodes
  <1>7. Length(Parameters(x)) <= MaxArgs
    BY <1>4, <1>6 DEF Conventional
  <1>8. BodyParts(x) = BodyOf(x)
    BY <1>1, <1>6 DEF BodyParts
  <1>9. ASSUME NEW i \in 1 .. Len(BodyOf(x)) PROVE BodyOf(x)[i] \in Expressions
    <2>1. BodyOf(x)[i] \in Range(BodyParts(x))
      BY <1>5, <1>8, Elements
    <2>2. program \in Nodes
      BY NodesAssumption DEF IInv, Typed
    <2>. QED  BY <1>4, <2>1, <2>2, ExpressionsClosed
  <1>10. lambdas[Len(functions)].env \in 1 .. Len(functions)
    BY <1>2, <1>3 DEF Matched
  <1>. QED  BY <1>1, <1>4, <1>5, <1>7, <1>9, <1>10

(* A procedure begins with its environment, the parameters and a word.     *)
LEMMA GenLambdaLays == ASSUME IInv, IInv', LInv, GenLambda PROVE LInv'
  <1> SUFFICES ASSUME Conventional'
               PROVE  /\ Reached'
                      /\ \A f \in 1 .. Len(functions') :
                           /\ Laid(functions', f, TasksOf(f)')
                           /\ Placed(functions', f)
                           /\ Owned(functions', f, TasksOf(f)')
    BY DEF LInv, Laid, Placed, Owned, Trail, Finds, Fitting, Inner, Scanning, After
  <1>1. PICK x, m, k, n, benv, size, params, ys, b, T :
          /\ x = NextLambda /\ k = Length(Parameters(x)) /\ n = Len(functions)
          /\ benv = lambdas[n].env /\ size = NumBindings(x)
          /\ params = [i \in 1 .. k |-> Parameters(x).items[i].identifier]
          /\ ys = BodyOf(x) /\ m = Len(ys)
          /\ b = <<Line("enter")>> \o [i \in 1 .. k |-> Numbered("bind", i - 1)]
                   \o <<Numbered("int", 0)>>
          /\ T = GenAll(ys) \o <<Emit(<<Line("return")>>)>>
    OBVIOUS
  <1>2. /\ LambdaIsNext /\ LambdaFormed(NextLambda) /\ UNCHANGED <<program, lambdas>>
        /\ tasks = <<>> /\ status = "run" /\ n <= Len(lambdas)
    BY <1>1 DEF GenLambda, LambdaIsNext
  <1>3. Conventional /\ Reached /\ Expressions' = Expressions
    BY <1>2, ConventionalKept DEF LInv, Expressions
  <1>4. /\ x \in Expressions /\ ys \in Seq(Nodes) /\ k \in Nat /\ k <= MaxArgs
        /\ \A i \in 1 .. m : ys[i] \in Expressions
        /\ benv \in 1 .. n
    BY <1>1, <1>2, <1>3, NextLambdaFacts
  <1>5. PICK env, fun :
          /\ env = [enclosing |-> benv, capacity |-> size, variables |-> params]
          /\ fun = [parent |-> benv, size |-> size, body |-> b]
    OBVIOUS
  <1>6. Len(params) = k
    BY <1>1, <1>4
  <1>7. envs' = Append(envs, env) /\ functions' = Append(functions, fun) /\ tasks' = T
    <2>1. [i \in 1 .. Len(params) |-> Numbered("bind", i - 1)]
            = [i \in 1 .. k |-> Numbered("bind", i - 1)]
      BY <1>6
    <2>. QED  BY <1>1, <1>5, <2>1 DEF GenLambda
  <1>8. /\ n \in Nat /\ n >= 1 /\ Len(envs) = n
        /\ functions \in Seq([parent : Nat, size : Nat, body : Seq(Lines)])
        /\ envs \in Seq([enclosing : Nat, capacity : Nat, variables : Seq(Variables)])
    <2>1. Typed /\ Matched
      BY DEF IInv
    <2>2. status # "start"
      BY <1>2
    <2>3. n > 0
      BY <1>1, <2>1, <2>2 DEF Matched
    <2>. QED  BY <1>1, <2>1, <2>3, FunctionFacts DEF Typed
  <1>9. /\ Len(functions') = n + 1 /\ functions'[n + 1] = fun
        /\ \A f \in 1 .. n : functions'[f] = functions[f]
        /\ Len(envs') = n + 1 /\ envs'[n + 1] = env
        /\ \A f \in 1 .. n : envs'[f] = envs[f]
    <2>1. PICK F, E :
            /\ F = [parent : Nat, size : Nat, body : Seq(Lines)] \cup {fun}
            /\ E = [enclosing : Nat, capacity : Nat, variables : Seq(Variables)] \cup {env}
      OBVIOUS
    <2>2. functions \in Seq(F) /\ fun \in F /\ envs \in Seq(E) /\ env \in E
      <3>1. PICK A, B :
              /\ A = [parent : Nat, size : Nat, body : Seq(Lines)]
              /\ B = [enclosing : Nat, capacity : Nat, variables : Seq(Variables)]
        OBVIOUS
      <3>2. functions \in Seq(A) /\ envs \in Seq(B)
        BY <1>8, <3>1
      <3>3. F = A \cup {fun} /\ E = B \cup {env}
        BY <2>1, <3>1
      <3>4. A \subseteq F /\ B \subseteq E /\ fun \in F /\ env \in E
        BY ONLY <3>3
      <3>5. functions \in Seq(F)
        BY ONLY <3>2, <3>4, SeqMonotonic, Zenon
      <3>6. envs \in Seq(E)
        BY ONLY <3>2, <3>4, SeqMonotonic, Zenon
      <3>. QED  BY <3>4, <3>5, <3>6
    <2>3. /\ Len(Append(functions, fun)) = Len(functions) + 1
          /\ \A f \in 1 .. (Len(functions) + 1) :
               Append(functions, fun)[f] = IF f = Len(functions) + 1 THEN fun ELSE functions[f]
      BY ONLY <2>2
    <2>4. /\ Len(Append(envs, env)) = Len(envs) + 1
          /\ \A f \in 1 .. (Len(envs) + 1) :
               Append(envs, env)[f] = IF f = Len(envs) + 1 THEN env ELSE envs[f]
      BY ONLY <2>2
    <2>5. n + 1 \in 1 .. (n + 1) /\ \A f \in 1 .. n : f \in 1 .. (n + 1) /\ f # n + 1
      BY <1>8
    <2>6. Len(functions) = n /\ Len(envs) = n
      BY <1>1, <1>8
    <2>. QED  BY <1>7, <2>3, <2>4, <2>5, <2>6
  <1>10. /\ fun.parent = benv /\ fun.size = size /\ fun.body = b /\ env.enclosing = benv
    BY <1>5
  <1>11. Continues(functions, functions')
    <2>1. ASSUME NEW f \in 1 .. n PROVE functions[f].parent \in 0 .. (f - 1)
      BY <1>1, <1>3, FunctionFacts DEF Reached
    <2>2. PICK c, c2 : c = functions /\ c2 = functions'
      OBVIOUS
    <2>3. /\ Len(c) = n /\ Len(c2) = n + 1 /\ n \in Nat
          /\ \A f \in 1 .. n : c2[f] = c[f] /\ c[f].parent \in 0 .. (f - 1)
      BY <1>1, <1>8, <1>9, <2>1, <2>2
    <2>4. Continues(c, c2)
      BY ONLY <2>3 DEF Continues
    <2>. QED  BY <2>2, <2>4
  <1>12. b \in Seq(Lines)
    <2>1. functions' \in Seq([parent : Nat, size : Nat, body : Seq(Lines)])
      BY DEF IInv, Typed
    <2>2. n + 1 \in 1 .. Len(functions')
      BY <1>8, <1>9
    <2> HIDE DEF Lines
    <2>3. functions'[n + 1].body \in Seq(Lines)
      BY <2>1, <2>2, FunctionFields
    <2>. QED  BY <1>9, <1>10, <2>3
  <1>13. n + 1 # 1 /\ n + 1 \in 1 .. (n + 1) /\ n + 1 \in Nat
    BY <1>8
  <1>14. /\ ~ Scanning(T)
         /\ \E t : FreshTasks(n + 1, T, m + 1, t) /\ t[m + 1] = 1
         /\ Len(T) = m + 1
         /\ \A i \in 1 .. m : T[i] = Gen(ys[i])
         /\ T[m + 1] = Emit(<<Line("return")>>)
    <2>1. PICK g : g = n + 1
      OBVIOUS
    <2>2. g # 1 /\ ys \in Seq(Nodes) /\ T = GenAll(ys) \o <<Emit(<<Line("return")>>)>>
      BY <1>1, <1>4, <1>13, <2>1
    <2>3. BodyTasks(g, T, ys, Len(ys))
      BY ONLY <2>2, BodyLeads
    <2>4. Len(ys) = m
      BY <1>1
    <2>5. BodyTasks(n + 1, T, ys, m)
      BY ONLY <2>1, <2>3, <2>4
    <2>. QED  BY ONLY <2>5 DEF BodyTasks
  <1>15. /\ FreshLines(n + 1, b)
         /\ \E e : PlainLines(b, k + 2, e) /\ e[1] = 0 /\ e[k + 3] = 1
    BY <1>1, <1>4, <1>13, ProcedureHead
  <1>16. /\ Laid(functions', n + 1, T) /\ Placed(functions', n + 1)
         /\ Owned(functions', n + 1, T)
    <2>1. PICK c, f, q, w : c = functions' /\ f = n + 1 /\ q = m + 1 /\ w = k + 2
      OBVIOUS
    <2>2. PICK t : FreshTasks(f, T, q, t) /\ t[q] = 1
      BY <1>14, <2>1
    <2>3. w + 1 = k + 3
      BY <1>4, <2>1
    <2>4. PICK e : PlainLines(b, w, e) /\ e[1] = 0 /\ e[w + 1] = 1
      BY <1>15, <2>1, <2>3
    <2>5. t[q] <= e[w + 1]
      BY <2>2, <2>4
    <2>6. /\ Len(c) \in Nat /\ f \in 1 .. Len(c) /\ b = c[f].body /\ FreshLines(f, b)
          /\ b \in Seq(Lines) /\ ~ Scanning(T)
      BY <1>9, <1>10, <1>12, <1>13, <1>14, <1>15, <2>1
    <2> HIDE DEF Lines
    <2>7. Laid(c, f, T) /\ Placed(c, f) /\ Owned(c, f, T)
      BY ONLY <2>2, <2>4, <2>5, <2>6, FreshFunction
    <2>. QED  BY <2>1, <2>7
  <1>17. Current' = n + 1 /\ TasksOf(n + 1)' = T /\ \A f \in 1 .. n : TasksOf(f)' = <<>>
    <2>1. Current' = n + 1
      BY <1>9 DEF Current
    <2>2. \A f \in 1 .. n : f # n + 1
      BY <1>8
    <2>. QED  BY <1>7, <2>1, <2>2 DEF TasksOf
  <1>18. ASSUME NEW f \in 1 .. n
         PROVE  /\ Laid(functions', f, <<>>) /\ Placed(functions', f)
                /\ Owned(functions', f, <<>>)
    <2>1. PICK c, c2 : c = functions /\ c2 = functions'
      OBVIOUS
    <2>2. TasksOf(f) = <<>>
      BY <1>2 DEF TasksOf
    <2>3. f \in 1 .. Len(c) /\ Laid(c, f, <<>>) /\ Placed(c, f) /\ Owned(c, f, <<>>)
      BY <1>1, <1>3, <2>1, <2>2 DEF LInv
    <2>4. c2[f].body = c[f].body /\ Continues(c, c2) /\ c[f].body \in Seq(Lines)
      BY <1>1, <1>9, <1>11, <2>1, FunctionFacts
    <2>5. Placed(c2, f)
      BY <2>3, <2>4 DEF Placed
    <2>6. Len(c[f].body) >= 1
      BY <2>3 DEF Placed
    <2> HIDE DEF Lines
    <2>7. Laid(c2, f, <<>>)
      BY ONLY <2>3, <2>4, OthersLaid
    <2>8. Owned(c2, f, <<>>)
      BY ONLY <2>3, <2>4, <2>6, OwnedKept
    <2>. QED  BY <2>1, <2>5, <2>7, <2>8
  <1>19. Reached'
    <2>1. ASSUME NEW i \in 1 .. (m + 1)
          PROVE  Reaches(T[i]) /\ T[i].do # "scan"
      <3>1. CASE i = m + 1
        <4>1. T[i] = Emit(<<Line("return")>>)
          BY <1>14, <3>1
        <4>2. T[i].do = "emit"
          BY <4>1 DEF Emit
        <4>. QED  BY <4>2 DEF Reaches
      <3>2. CASE i # m + 1
        <4>0. m \in Nat
          BY <1>1, <1>4
        <4>1. i \in 1 .. m
          BY <3>2, <4>0
        <4>2. T[i] = Gen(ys[i]) /\ ys[i] \in Expressions
          BY <1>4, <1>14, <4>1
        <4>3. T[i].do = "gen" /\ T[i].exp = ys[i]
          BY <4>2 DEF Gen
        <4>. QED  BY <4>2, <4>3 DEF Reaches
      <3>. QED  BY <3>1, <3>2
    <2>2. \A i \in 1 .. Len(tasks') : Reaches(tasks[i])' /\ tasks'[i].do # "scan"
      BY <1>3, <1>7, <1>14, <2>1 DEF Reaches, FormOf
    <2>3. \A i \in 1 .. Len(lambdas') : lambdas'[i].exp \in Expressions'
      BY <1>2, <1>3 DEF Reached
    <2>4. ASSUME NEW f \in 1 .. (n + 1) PROVE functions'[f].parent = envs'[f].enclosing
      <3>1. CASE f = n + 1
        BY <1>9, <1>10, <3>1
      <3>2. CASE f # n + 1
        <4>1. f \in 1 .. n
          BY <1>8, <3>2
        <4>. QED  BY <1>1, <1>3, <1>9, <4>1 DEF Reached
      <3>. QED  BY <3>1, <3>2
    <2>. QED  BY <1>9, <2>2, <2>3, <2>4 DEF Reached
  <1>20. \A f \in 1 .. (n + 1) : f = n + 1 \/ f \in 1 .. n
    BY <1>8
  <1>. QED  BY <1>9, <1>16, <1>17, <1>18, <1>19, <1>20

-----------------------------------------------------------------------------
(* The invariant of the output.                                            *)

(* What is not going on has nothing left to do.                            *)
Finished == status = "done" => tasks = <<>>

(* The steps that print nothing and leave nothing else to do.              *)
LEMMA QuietSteps ==
  ASSUME LInv, UNCHANGED <<program, tasks, envs, lambdas, functions>>
  PROVE  LInv'
  <1>1. Conventional' <=> Conventional
    BY ConventionalKept
  <1>2. Reached => Reached'
    BY DEF Reached, Reaches, FormOf, Expressions
  <1>3. \A f : TasksOf(f)' = TasksOf(f)
    BY DEF TasksOf, Current
  <1>4. \A f \in 1 .. Len(functions) :
          /\ Laid(functions', f, TasksOf(f)') <=> Laid(functions, f, TasksOf(f))
          /\ Placed(functions', f) <=> Placed(functions, f)
          /\ Owned(functions', f, TasksOf(f)') <=> Owned(functions, f, TasksOf(f))
    <2>1. functions' = functions
      OBVIOUS
    <2>. QED  BY ONLY <1>3, <2>1
  <1> SUFFICES ASSUME Conventional'
               PROVE  /\ Reached'
                      /\ \A f \in 1 .. Len(functions') :
                           /\ Laid(functions', f, TasksOf(f)')
                           /\ Placed(functions', f)
                           /\ Owned(functions', f, TasksOf(f)')
    BY DEF LInv, Laid, Placed, Owned, Trail, Finds, Fitting, Inner, Scanning, After
  <1>. QED  BY <1>1, <1>2, <1>4 DEF LInv

(* Nothing has been printed yet.                                           *)
LEMMA InitLays == ASSUME Init PROVE LInv /\ Finished
  <1>1. tasks = <<>> /\ lambdas = <<>> /\ functions = <<>> /\ status = "start"
    BY DEF Init
  <1>2. Len(tasks) = 0 /\ Len(lambdas) = 0 /\ Len(functions) = 0 /\ \A i \in 1 .. 0 : FALSE
    BY <1>1
  <1>3. Reached
    BY <1>2 DEF Reached
  <1>. QED  BY <1>1, <1>2, <1>3 DEF LInv, Finished

(* The output that is complete stays as it is.                             *)
LEMMA FinishedKept == ASSUME IInv, Finished, [Next]_vars PROVE Finished'
  <1>1. CASE Next
    <2>1. ASSUME status' = "done"
          PROVE  tasks' = <<>>
      <3>1. CASE AppendStream
        BY <3>1 DEF AppendStream
      <3>2. CASE Ended
        BY <2>1, <3>2 DEF Ended, vars, Finished
      <3>3. CASE Step /\ ~ AppendStream
        <4>1. status # "done"
          BY <3>3 DEF Step, GenMain, GenLambda, LambdaIsNext, EmitLines, GenLiteral,
                      GenVariable, FoundVariable, ScanOutwards, GenDefinition, RebindDefinition,
                      BindDefinition, GenAssignment, SetVariable, GenIf, GenConsequent,
                      GenAlternative, GenProcedure, GenBegin, GenApplication, Doing, Generating,
                      IllegalNodeType, UnboundVariable, Unimplemented, Overrun
        <4>2. status' \in {status, "run", "illegal", "unbound", "unimplemented", "overrun"}
          BY <3>3 DEF Step, GenMain, GenLambda, EmitLines, GenLiteral,
                      GenVariable, FoundVariable, ScanOutwards, GenDefinition, RebindDefinition,
                      BindDefinition, GenAssignment, SetVariable, GenIf, GenConsequent,
                      GenAlternative, GenProcedure, GenBegin, GenApplication,
                      IllegalNodeType, UnboundVariable, Unimplemented, Overrun, Fail
        <4>. QED  BY <2>1, <4>1, <4>2
      <3>. QED  BY <1>1, <3>1, <3>2, <3>3 DEF Next
    <2>. QED  BY <2>1 DEF Finished
  <1>2. CASE UNCHANGED vars
    BY <1>2 DEF vars, Finished
  <1>. QED  BY <1>1, <1>2

(* Every step keeps the code as it must be laid out.                       *)
LEMMA NextLays == ASSUME IInv, LInv, [Next]_vars PROVE LInv'
  <1>0. IInv'
    BY NextKeeps
  <1>1. CASE GenMain  BY <1>0, <1>1, GenMainLays
  <1>2. CASE GenLambda  BY <1>0, <1>2, GenLambdaLays
  <1>3. CASE AppendStream
    BY <1>3, QuietSteps DEF AppendStream
  <1>4. CASE EmitLines  BY <1>0, <1>4, EmitLinesLays
  <1>5. CASE GenLiteral  BY <1>0, <1>5, GenLiteralLays
  <1>6. CASE GenVariable  BY <1>0, <1>6, GenVariableLays
  <1>7. CASE FoundVariable  BY <1>0, <1>7, FoundVariableLays
  <1>8. CASE ScanOutwards  BY <1>0, <1>8, ScanOutwardsLays
  <1>9. CASE GenDefinition  BY <1>0, <1>9, GenDefinitionLays
  <1>10. CASE RebindDefinition  BY <1>0, <1>10, RebindDefinitionLays
  <1>11. CASE BindDefinition  BY <1>0, <1>11, BindDefinitionLays
  <1>12. CASE GenAssignment  BY <1>0, <1>12, GenAssignmentLays
  <1>13. CASE SetVariable  BY <1>0, <1>13, SetVariableLays
  <1>14. CASE GenIf  BY <1>0, <1>14, GenIfLays
  <1>15. CASE GenConsequent  BY <1>0, <1>15, GenConsequentLays
  <1>16. CASE GenAlternative  BY <1>0, <1>16, GenAlternativeLays
  <1>17. CASE GenProcedure  BY <1>0, <1>17, GenProcedureLays
  <1>18. CASE GenBegin  BY <1>0, <1>18, GenBeginLays
  <1>19. CASE GenApplication  BY <1>0, <1>19, GenApplicationLays
  <1>20. CASE IllegalNodeType \/ UnboundVariable \/ Unimplemented \/ Overrun
    <2>1. UNCHANGED <<program, tasks, envs, lambdas, functions>>
      BY <1>20 DEF IllegalNodeType, UnboundVariable, Unimplemented, Overrun, Fail
    <2>. QED  BY <2>1, QuietSteps
  <1>21. CASE Ended \/ UNCHANGED vars
    <2>1. UNCHANGED <<program, tasks, envs, lambdas, functions>>
      BY <1>21 DEF Ended, vars
    <2>. QED  BY <2>1, QuietSteps
  <1>. QED
    BY <1>1, <1>2, <1>3, <1>4, <1>5, <1>6, <1>7, <1>8, <1>9, <1>10, <1>11, <1>12, <1>13,
       <1>14, <1>15, <1>16, <1>17, <1>18, <1>19, <1>20, <1>21 DEF Next, Step

(* Whatever the program, if it is conventional, the code printed so far is *)
(* on the way to a sound layout: each function has its braces matched, its *)
(* stack balanced and its environments known, with what is left to do for  *)
(* the last of them.                                                       *)
THEOREM LayoutInvariance == Spec => [](IInv /\ LInv /\ Finished)
  <1>1. Init => IInv /\ LInv /\ Finished
    BY InitEstablishes, InitLays
  <1>2. IInv /\ LInv /\ Finished /\ [Next]_vars => (IInv /\ LInv /\ Finished)'
    BY NextKeeps, NextLays, FinishedKept
  <1>. QED  BY <1>1, <1>2, PTL DEF Spec

-----------------------------------------------------------------------------
(* The output that is complete.                                            *)

(* What the functions have, their annotated ones have too.                 *)
LEMMA AnnotateFacts ==
  ASSUME NEW c, Len(c) \in Nat
  PROVE  /\ Len(Annotate(c)) = Len(c)
         /\ \A f \in 1 .. Len(c) :
              /\ Annotate(c)[f].parent = c[f].parent /\ Annotate(c)[f].size = c[f].size
              /\ Annotate(c)[f].body = c[f].body
              /\ Annotate(c)[f].depth = DepthNotes(c[f].body)
              /\ Annotate(c)[f].owner = OwnerNotes(c, f)
  <1>1. PICK a : a = Annotate(c)
    OBVIOUS
  <1>2. a = [f \in 1 .. Len(c) |->
               [parent |-> c[f].parent, size |-> c[f].size, body |-> c[f].body,
                depth |-> DepthNotes(c[f].body), owner |-> OwnerNotes(c, f)]]
    BY <1>1 DEF Annotate
  <1>3. Len(a) = Len(c)
    <2>1. PICK S : S = {a[f] : f \in 1 .. Len(c)}
      OBVIOUS
    <2>2. a \in [1 .. Len(c) -> S]
      BY <1>2, <2>1
    <2>3. PICK n \in Nat : n = Len(c)
      OBVIOUS
    <2>4. a \in [1 .. n -> S]
      BY <2>2, <2>3
    <2>5. Len(a) = n
      BY ONLY <2>4, n \in Nat
    <2>. QED  BY <2>3, <2>5
  <1>4. \A f \in 1 .. Len(c) :
          a[f] = [parent |-> c[f].parent, size |-> c[f].size, body |-> c[f].body,
                  depth |-> DepthNotes(c[f].body), owner |-> OwnerNotes(c, f)]
    BY <1>2
  <1>5. \A f \in 1 .. Len(c) :
              /\ a[f].parent = c[f].parent /\ a[f].size = c[f].size
              /\ a[f].body = c[f].body
              /\ a[f].depth = DepthNotes(c[f].body)
              /\ a[f].owner = OwnerNotes(c, f)
    <2> TAKE f \in 1 .. Len(c)
    <2>1. PICK d, o : d = DepthNotes(c[f].body) /\ o = OwnerNotes(c, f)
      OBVIOUS
    <2>2. a[f] = [parent |-> c[f].parent, size |-> c[f].size, body |-> c[f].body,
                  depth |-> d, owner |-> o]
      BY <1>4, <2>1
    <2>. QED  BY <2>1, <2>2
  <1>. QED  BY <1>1, <1>3, <1>5

(* Line l, behind which the environment w is in r0 at place i of function  *)
(* f of c, has operands that are in range.                                 *)
InRange(c, f, i, w, l) ==
  /\ Fitting(f, i, l) /\ Finds(c, l, w) /\ l \in Lines
  /\ l.op = "proc" => l.f \in 2 .. Len(c) /\ c[l.f].parent = f
  /\ l.op \in {"prim", "bind", "def"} => l.n < c[f].size

(* Such a line may stand there.                                            *)
LEMMA OperandsInRange ==
  ASSUME NEW c, NEW f \in 1 .. Len(c), NEW i, NEW w \in Nat, NEW l, InRange(c, f, i, w, l),
         \A g \in {f, w} : g # 0 => c[g].size \in Nat,
         NEW a, Len(a) = Len(c), a[f].body[i] = l, a[f].owner[i] = w,
         \A g \in 1 .. Len(c) : a[g].size = c[g].size /\ a[g].parent = c[g].parent,
         w \in 0 .. Len(c), Len(c) \in Nat
  PROVE  OperandsOK(a, f, i)
  <1>0. a[f].size = c[f].size /\ c[f].size \in Nat
    OBVIOUS
  <1>1. /\ l.op \in {"prim", "bind", "get", "set", "def", "arg"} => l.n \in Nat
        /\ l.op \in Ops
    BY LineOps DEF InRange, Indexed
  <1>2. CASE l.op = "int"
    BY <1>2 DEF InRange, Fitting, Inner, OperandsOK
  <1>3. CASE l.op = "str"
    BY <1>3 DEF InRange, Fitting, Inner, OperandsOK
  <1>4. CASE l.op = "proc"
    <2>1. l.f \in 2 .. Len(c) /\ c[l.f].parent = f
      BY <1>4 DEF InRange
    <2>2. l.f \in 1 .. Len(c)
      BY <2>1
    <2>3. a[l.f].parent = f
      BY <2>1, <2>2
    <2>. QED  BY <1>4, <2>1, <2>3 DEF OperandsOK
  <1>5. CASE l.op = "prim"
    <2>1. l.p \in Primitives /\ l.n < c[f].size
      BY <1>5 DEF InRange, Fitting, Inner
    <2>. QED  BY <1>0, <1>1, <1>5, <2>1 DEF OperandsOK
  <1>6. CASE l.op = "def"
    <2>1. l.n < c[f].size
      BY <1>6 DEF InRange
    <2>. QED  BY <1>0, <1>1, <1>6, <2>1 DEF OperandsOK
  <1>7. CASE l.op = "bind"
    <2>1. l.n < MaxArgs /\ l.n < c[f].size
      BY <1>7 DEF InRange, Fitting, Inner
    <2>. QED  BY <1>0, <1>1, <1>7, <2>1 DEF OperandsOK
  <1>8. CASE l.op = "arg"
    <2>1. l.n < MaxArgs /\ MaxArgs \in Nat
      BY <1>8, ValuesAssumption DEF InRange, Fitting, Inner
    <2>. QED  BY <1>1, <1>8, <2>1 DEF OperandsOK
  <1>9. CASE l.op \in {"get", "set"}
    <2>1. w # 0 /\ l.n < c[w].size
      BY <1>9 DEF InRange, Finds
    <2>2. w \in 1 .. Len(c) /\ c[w].size \in Nat
      BY <2>1
    <2>3. l.n \in 0 .. (a[w].size - 1)
      BY <1>1, <1>9, <2>1, <2>2
    <2>. QED  BY <1>9, <2>1, <2>3 DEF OperandsOK
  <1>10. CASE l.op = "outer"
    BY <1>10 DEF InRange, Finds, OperandsOK
  <1>11. CASE l.op \in {"exit", "return", "env", "enter"}
    BY <1>11 DEF InRange, Fitting, Inner, OperandsOK
  <1>12. CASE l.op \in {"scan", "if", "else", "close", "call", "pushret"}
    BY <1>12 DEF OperandsOK
  <1>. QED
    BY <1>1, <1>2, <1>3, <1>4, <1>5, <1>6, <1>7, <1>8, <1>9, <1>10, <1>11, <1>12 DEF Ops

(* A complete function whose lines find their operands is well formed.     *)
Sound(a, f) ==
  /\ a[f].size \in Nat
  /\ Len(a[f].body) \in Nat \ {0}
  /\ a[f].body[1].op = IF f = 1 THEN "env" ELSE "enter"
  /\ a[f].depth[1] = 0 /\ a[f].owner[1] = 0
  /\ \A i \in 1 .. Len(a[f].body) :
       /\ a[f].depth[i] \in Nat /\ a[f].owner[i] \in 0 .. Len(a)
       /\ a[f].body[i].op \in PopOps => a[f].depth[i] >= 1
       /\ OperandsOK(a, f, i)
       /\ \A j \in Successors(a[f].body, i) : StepOK(a, f, i, j)

(* The lines of function f of c are ones that may stand in it.             *)
Known(c, f) ==
  \A i \in 1 .. Len(c[f].body) :
    LET l == c[f].body[i]
    IN /\ l \in Lines
       /\ l.op = "proc" => l.f \in 2 .. Len(c) /\ c[l.f].parent = f
       /\ l.op \in {"prim", "bind", "def"} => l.n < c[f].size

(* The layout that the invariant keeps is what the machine needs.          *)
LEMMA FunctionIsSound ==
  ASSUME NEW c, Len(c) \in Nat, \A g \in 1 .. Len(c) : c[g].size \in Nat,
         NEW f \in 1 .. Len(c), Len(c[f].body) \in Nat,
         Laid(c, f, <<>>), Placed(c, f), Owned(c, f, <<>>), Known(c, f)
  PROVE  Sound(Annotate(c), f)
  <1>1. PICK a, b : a = Annotate(c) /\ b = c[f].body
    OBVIOUS
  <1>2. /\ Len(a) = Len(c) /\ a[f].body = b /\ a[f].size = c[f].size
        /\ a[f].depth = DepthNotes(b) /\ a[f].owner = OwnerNotes(c, f)
        /\ \A g \in 1 .. Len(c) : a[g].size = c[g].size /\ a[g].parent = c[g].parent
    BY <1>1, AnnotateFacts
  <1>3. Len(b) \in Nat /\ Len(b) >= 1 /\ b[1].op = (IF f = 1 THEN "env" ELSE "enter")
        /\ \A i \in 1 .. Len(b) : Fitting(f, i, b[i])
    BY <1>1 DEF Placed
  <1>4. PICK D, h : Shape(b, D, h) /\ Complete(b, h)
    BY <1>1 DEF Laid
  <1>5. PICK o : Trail(c, f, o) /\ \A j \in 1 .. Len(b) : Finds(c, b[j], o[j])
    BY <1>1 DEF Owned, Scanning
  <1>6. /\ o \in [1 .. Len(b) -> 0 .. Len(c)] /\ o[1] = 0
        /\ \A j \in 2 .. Len(b) : o[j] = After(c, f, o[j - 1], b[j - 1])
    BY <1>1, <1>5 DEF Trail
  <1>7. a[f].owner = o
    <2>1. o \in [1 .. Len(b) -> Nat]
      BY <1>6
    <2>2. /\ Len(c[f].body) \in Nat /\ o \in [1 .. Len(c[f].body) -> Nat]
          /\ Len(c[f].body) > 0 => o[1] = 0
          /\ \A j \in 2 .. Len(c[f].body) : o[j] = After(c, f, o[j - 1], c[f].body[j - 1])
      BY <1>1, <1>6, <2>1
    <2>3. OwnerNotes(c, f) = o
      BY ONLY <2>2, OwnerNotesFacts
    <2>. QED  BY <1>2, <2>3
  <1>8. PICK d :
          /\ d = a[f].depth /\ d \in [1 .. Len(b) -> Nat] /\ d[1] = 0
          /\ \A i \in 1 .. Len(b) :
               /\ d[i] >= D[i]
               /\ \A j \in Successors(b, i) : d[j] <= d[i] + Change(b[i].op)
    BY <1>2, <1>3, <1>4, DepthNotesFacts
  <1>9. ASSUME NEW i \in 1 .. Len(b), b[i].op \in PopOps
        PROVE  d[i] >= 1
    <2>1. D[i] >= 1 /\ D[i] \in Nat
      <3>1. LineShape(b, D, h, i) /\ D \in [1 .. (Len(b) + 1) -> Nat]
        BY <1>4 DEF Shape
      <3>2. i \in 1 .. (Len(b) + 1)
        BY <1>3
      <3>. QED  BY <1>9, <3>1, <3>2 DEF LineShape
    <2>2. d[i] >= D[i] /\ d[i] \in Nat
      BY <1>8
    <2>. QED  BY <2>1, <2>2
  <1>10. ASSUME NEW i \in 1 .. Len(b) PROVE OperandsOK(a, f, i)
    <2>1. PICK l, w : l = b[i] /\ w = o[i]
      OBVIOUS
    <2>2. w \in 0 .. Len(c) /\ w \in Nat
      <3>1. o[i] \in 0 .. Len(c)
        BY <1>6
      <3>. QED  BY <2>1, <3>1
    <2>3. InRange(c, f, i, w, l)
      BY <1>1, <1>3, <1>5, <2>1 DEF InRange, Known
    <2>4. \A g \in {f, w} : g # 0 => c[g].size \in Nat
      <3>1. w # 0 => w \in 1 .. Len(c)
        BY <2>2
      <3>. QED  BY <3>1
    <2>5. a[f].body[i] = l /\ a[f].owner[i] = w
      BY <1>2, <1>7, <2>1
    <2>. QED  BY <1>2, <2>2, <2>3, <2>4, <2>5, OperandsInRange
  <1>11. ASSUME NEW i \in 1 .. Len(b), NEW j \in Successors(b, i)
         PROVE  StepOK(a, f, i, j)
    <2>1. j \in (i + 1) .. Len(b) /\ (j # i + 1 => b[j - 1].op \in {"close", "else"})
      BY <1>3, <1>4, SuccessorsForward
    <2>2. j \in 2 .. Len(b)
      BY <1>3, <2>1
    <2>3. d[j] <= d[i] + Change(b[i].op)
      BY <1>8
    <2>4. o[j] = After(c, f, o[j - 1], b[j - 1])
      BY <1>6, <2>2
    <2>5. o[j] \in {0, OwnerAfter(a, f, i)}
      <3>1. CASE j # i + 1
        <4>1. b[j - 1].op \in {"close", "else"}
          BY <2>1, <3>1
        <4>. QED  BY <2>4, <4>1 DEF After
      <3>2. CASE j = i + 1
        <4>1. o[j] = After(c, f, o[i], b[i])
          <5>1. j - 1 = i
            BY <1>3, <3>2
          <5>. QED  BY <2>4, <5>1
        <4>2. CASE b[i].op = "scan"
          BY <1>2, <4>1, <4>2 DEF After, OwnerAfter
        <4>3. CASE b[i].op = "outer"
          <5>1. o[i] > 1 /\ o[i] \in 0 .. Len(c)
            BY <1>5, <1>6, <4>3 DEF Finds
          <5>2. o[i] \in 1 .. Len(c) /\ o[i] # 0
            BY <5>1
          <5>3. o[j] = c[o[i]].parent
            BY <4>1, <4>3, <5>2 DEF After
          <5>4. OwnerAfter(a, f, i) = a[o[i]].parent
            BY <1>2, <1>7, <4>3 DEF OwnerAfter
          <5>. QED  BY <1>2, <5>2, <5>3, <5>4
        <4>4. CASE b[i].op \notin {"scan", "outer"}
          BY <4>1, <4>4 DEF After
        <4>. QED  BY <4>2, <4>3, <4>4
      <3>. QED  BY <3>1, <3>2
    <2>. QED  BY <1>2, <1>7, <1>8, <2>2, <2>3, <2>5 DEF StepOK
  <1>12. Len(a[f].body) \in Nat \ {0}
    BY <1>2, <1>3
  <1>13. \A i \in 1 .. Len(b) : d[i] \in Nat /\ o[i] \in 0 .. Len(a)
    BY <1>2, <1>6, <1>8
  <1>. QED
    BY <1>1, <1>2, <1>3, <1>6, <1>7, <1>8, <1>9, <1>10, <1>11, <1>12, <1>13 DEF Sound

(* The output for a conventional program is laid out as the machine needs  *)
(* it: every line finds the words that it pops and the environment that it *)
(* reads, whatever way control takes to it.  It is what the output's lines *)
(* and its run time agree on, and what FrameDiscipline assumes.            *)
THEOREM LayoutIsSound == Spec => []LayoutSound
  <1>1. ASSUME IInv, LInv, Finished PROVE LayoutSound
    <2> SUFFICES ASSUME status = "done", Conventional
                 PROVE  WellFormed(Annotate(functions))
      BY DEF LayoutSound
    <2>1. PICK c, a : c = functions /\ a = Annotate(c)
      OBVIOUS
    <2>2. Typed /\ Matched /\ Printed /\ Reached /\ tasks = <<>>
      BY <1>1 DEF IInv, LInv, Finished
    <2>3. Len(c) \in Nat /\ Len(c) >= 1 /\ Len(envs) = Len(c)
          /\ Len(lambdas) \in Nat /\ Len(lambdas) < Len(c)
      <3>1. Len(functions) \in Nat /\ Len(functions) > 0
        BY <1>1, <2>2, FunctionFacts DEF Matched
      <3>2. PICK L : L = [exp : LambdaNodes, env : Nat]
        OBVIOUS
      <3>3. lambdas \in Seq(L)
        BY <2>2, <3>2 DEF Typed
      <3>4. Len(lambdas) \in Nat
        BY ONLY <3>3
      <3>. QED  BY <1>1, <2>1, <2>2, <3>1, <3>4, FunctionFacts DEF Printed
    <2>4. ASSUME NEW f \in 1 .. Len(c)
          PROVE  /\ c[f].size \in Nat /\ Len(c[f].body) \in Nat
                 /\ Laid(c, f, <<>>) /\ Placed(c, f) /\ Owned(c, f, <<>>)
      <3>1. TasksOf(f) = <<>>
        BY <2>2 DEF TasksOf
      <3>2. Laid(c, f, <<>>) /\ Placed(c, f) /\ Owned(c, f, <<>>)
        BY <1>1, <2>1, <3>1 DEF LInv
      <3>3. functions \in Seq([parent : Nat, size : Nat, body : Seq(Lines)])
        BY <2>2 DEF Typed
      <3> HIDE DEF Lines
      <3>4. c[f].size \in Nat
        BY <2>1, <3>3, FunctionFields
      <3>. QED  BY <1>1, <2>1, <3>2, <3>4, FunctionFacts
    <2>5. ASSUME NEW f \in 1 .. Len(c) PROVE Known(c, f)
      <3> SUFFICES ASSUME NEW i \in 1 .. Len(c[f].body)
                   PROVE  LET l == c[f].body[i]
                          IN /\ l \in Lines
                             /\ l.op = "proc" => l.f \in 2 .. Len(c) /\ c[l.f].parent = f
                             /\ l.op \in {"prim", "bind", "def"} => l.n < c[f].size
        BY DEF Known
      <3>1. PICK l : l = c[f].body[i]
        OBVIOUS
      <3>2. l \in LinesOf(f) /\ l \in Lines
        <4>1. functions[f].body \in Seq(LinesOf(f))
          BY <2>1, <2>2 DEF Matched
        <4>2. l \in LinesOf(f)
          <5> HIDE DEF LinesOf
          <5>. QED  BY <2>1, <3>1, <4>1
        <4>. QED  BY <4>2 DEF LinesOf
      <3>3. l.op \in {"prim", "bind", "def"} => l.n < c[f].size
        <4>1. functions[f].size = envs[f].capacity
          BY <2>1, <2>2 DEF Matched
        <4>. QED  BY <2>1, <3>2, <4>1 DEF LinesOf
      <3>4. ASSUME l.op = "proc" PROVE l.f \in 2 .. Len(c) /\ c[l.f].parent = f
        <4>1. l.f - 1 \in 1 .. Len(lambdas) /\ lambdas[l.f - 1].env = f
          BY <3>2, <3>4 DEF LinesOf
        <4>2. l.f \in Nat
          BY <3>2, <3>4 DEF Lines, PlainOps
        <4>3. l.f \in 2 .. Len(c)
          BY <2>3, <4>1, <4>2
        <4>. QED  BY <2>1, <2>2, <4>1, <4>3 DEF Matched
      <3>. QED  BY <3>1, <3>2, <3>3, <3>4
    <2>6. \A f \in 1 .. Len(c) : Sound(a, f)
      <3> TAKE f \in 1 .. Len(c)
      <3>1. \A g \in 1 .. Len(c) : c[g].size \in Nat
        BY <2>4
      <3>2. /\ Len(c) \in Nat /\ Len(c[f].body) \in Nat
            /\ Laid(c, f, <<>>) /\ Placed(c, f) /\ Owned(c, f, <<>>) /\ Known(c, f)
        BY <2>3, <2>4, <2>5
      <3>3. Sound(Annotate(c), f)
        BY ONLY <3>1, <3>2, f \in 1 .. Len(c), FunctionIsSound
      <3>. QED  BY <2>1, <3>3
    <2>7. Len(a) = Len(c) /\ \A f \in 1 .. Len(c) : a[f].parent = c[f].parent
      BY <2>1, <2>3, AnnotateFacts
    <2>8. a[1].parent = 0
      <3>1. 1 \in 1 .. Len(c)
        BY <2>3
      <3>2. c[1].parent = envs[1].enclosing
        BY <2>1, <2>2, <3>1 DEF Reached
      <3>3. envs[1].enclosing \in 0 .. (1 - 1)
        BY <2>1, <2>2, <3>1 DEF Matched
      <3>4. c[1].parent = 0
        BY <3>2, <3>3
      <3>. QED  BY <2>7, <3>1, <3>4
    <2>9. ASSUME NEW f \in 2 .. Len(c) PROVE a[f].parent \in 1 .. (f - 1)
      <3>1. f \in 1 .. Len(c) /\ f - 1 \in 1 .. Len(lambdas)
        <4>1. Len(c) <= Len(lambdas) + 1
          BY <2>1, <2>2 DEF Matched
        <4>. QED  BY <2>3, <4>1
      <3>2. c[f].parent = lambdas[f - 1].env
        BY <2>1, <2>2 DEF Matched
      <3>3. lambdas[f - 1].env \in 1 .. Len(c)
        BY <2>1, <2>2, <3>1 DEF Matched
      <3>4. c[f].parent \in 0 .. (f - 1)
        <4>1. c[f].parent = envs[f].enclosing
          BY <2>1, <2>2, <3>1 DEF Reached
        <4>2. envs[f].enclosing \in 0 .. (f - 1)
          BY <2>1, <2>2, <3>1 DEF Matched
        <4>. QED  BY <4>1, <4>2
      <3>5. c[f].parent \in 1 .. (f - 1)
        BY <2>3, <3>2, <3>3, <3>4
      <3>. QED  BY <2>7, <3>1, <3>5
    <2>10. WellFormed(a)
      <3>1. Len(a) \in Nat \ {0}
        BY <2>3, <2>7
      <3>2. \A f \in 1 .. Len(a) : Sound(a, f)
        BY <2>6, <2>7
      <3>3. \A f \in 2 .. Len(a) : a[f].parent \in 1 .. (f - 1)
        BY <2>7, <2>9
      <3>. QED  BY <2>8, <3>1, <3>2, <3>3 DEF WellFormed, Sound
    <2>. QED  BY <2>1, <2>10
  <1>. QED  BY <1>1, LayoutInvariance, PTL

=============================================================================
