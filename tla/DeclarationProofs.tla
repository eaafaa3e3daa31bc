-------------------------- MODULE DeclarationProofs --------------------------
(***************************************************************************)
(* What ends up in the symbol table, for every file: all its declarations, *)
(* under the keys that they have in the tree, whatever was open when they  *)
(* were registered (ast_build.c:409 and 514, context.c).                   *)
(***************************************************************************)
EXTENDS ParserProofs

-----------------------------------------------------------------------------
(* Joined sequences. *)

\* The n parts q and one more, x, are r.
Grows(q, r, n, x) ==
  /\ n \in Nat /\ Len(q) = n /\ Len(r) = n + 1
  /\ \A i \in 1..n : r[i] = q[i]
  /\ n = 0 => FlattenSeq(q) = <<>>
  /\ r[n + 1] = x /\ <<>> \o x = x

\* One more part is joined at the end.
LEMMA FlattenMore ==
  ASSUME NEW q, NEW r, NEW n, NEW x, Grows(q, r, n, x)
  PROVE  FlattenSeq(r) = FlattenSeq(q) \o x
<1> USE DEF Grows
<1> DEFINE g == CHOOSE h : Joins(q, n, h)
           k == CHOOSE h : Joins(r, n + 1, h)
<1>1. Joins(r, n + 1, k)
  <2>1. n + 1 \in Nat \ {0}
    OBVIOUS
  <2>2. \E h : Joins(r, n + 1, h)
    BY <2>1, JoinExists
  <2> QED
    BY <2>2
<1>2. FlattenSeq(r) = k[n + 1]
  BY DEF FlattenSeq, Joins
<1> HIDE DEF k
<1>3. \A i \in 1..n + 1 : k[i] = IF i = 1 THEN r[i] ELSE k[i - 1] \o r[i]
  BY <1>1 DEF Joins
<1>4. CASE n = 0
  <2>1. FlattenSeq(q) = <<>>
    BY <1>4
  <2>2. k[n + 1] = r[n + 1]
    BY <1>3, <1>4
  <2> QED
    BY <1>2, <2>1, <2>2
<1>5. CASE n # 0
  <2>1. Joins(q, n, g)
    BY <1>5, JoinExists
  <2>2. FlattenSeq(q) = g[n]
    BY <1>5 DEF FlattenSeq, Joins
  <2> HIDE DEF g
  <2>3. \A i \in 1..n : g[i] = IF i = 1 THEN q[i] ELSE g[i - 1] \o q[i]
    BY <2>1 DEF Joins
  <2> DEFINE Bad == {i \in 1..n : g[i] # k[i]}
  <2>4. ASSUME Bad # {} PROVE FALSE
    <3>1. PICK i \in Bad : \A y \in Bad : i <= y
      <4> Bad \in SUBSET Nat
        OBVIOUS
      <4> HIDE DEF Bad
      <4> QED
        BY <2>4, MinFacts
    <3>2. i \in 1..n /\ i \in 1..n + 1 /\ r[i] = q[i]
      OBVIOUS
    <3>3. CASE i = 1
      BY <1>3, <2>3, <3>1, <3>2, <3>3
    <3>4. CASE i # 1
      <4>1. i - 1 \in 1..n /\ i - 1 \notin Bad
        BY <3>1, <3>2, <3>4
      <4>2. g[i - 1] = k[i - 1]
        BY <4>1
      <4> QED
        BY <1>3, <2>3, <3>1, <3>2, <3>4, <4>2
    <3> QED
      BY <3>3, <3>4
  <2>5. g[n] = k[n]
    BY <1>5, <2>4
  <2>6. k[n + 1] = k[n] \o r[n + 1]
    <3> DEFINE m == n + 1
    <3>1. m \in 1..m /\ m # 1 /\ m - 1 = n
      BY <1>5
    <3>2. \A i \in 1..m : k[i] = IF i = 1 THEN r[i] ELSE k[i - 1] \o r[i]
      BY <1>3
    <3> HIDE DEF m
    <3>3. k[m] = k[m - 1] \o r[m]
      BY <3>1, <3>2
    <3> QED
      BY <3>1, <3>3, Zenon DEF m
  <2> QED
    BY <1>2, <2>2, <2>5, <2>6
<1> QED
  BY <1>4, <1>5

\* Sequences of names.
Names2 == Seq(Seq(STRING))

\* The keys of nothing, ...
LEMMA NoKeys ==
  ASSUME NEW name
  PROVE  KeysOf(<<>>) = <<>> /\ LocalKeys(name, <<>>) = <<>>
<1>1. DOMAIN <<>> = {}
  OBVIOUS
<1>2. [i \in DOMAIN <<>> |-> Keys(<<>>[i])] = <<>>
  BY <1>1
<1>3. [i \in DOMAIN <<>> |-> LocalKey(name, <<>>[i])] = <<>>
  BY <1>1
<1>4. FlattenSeq(<<>>) = <<>>
  BY DEF FlattenSeq
<1> QED
  BY <1>2, <1>3, <1>4 DEF KeysOf, LocalKeys

\* What a sequence of any shape keeps when it gets longer.
LEMMA LongerSeq ==
  ASSUME NEW s, IsSequence(s), NEW x
  PROVE  /\ IsSequence(Append(s, x)) /\ Len(s) \in Nat
         /\ DOMAIN s = 1..Len(s) /\ DOMAIN Append(s, x) = 1..Len(s) + 1
         /\ \A i \in 1..Len(s) : Append(s, x)[i] = s[i]
         /\ Append(s, x)[Len(s) + 1] = x
         /\ Len(s) = 0 => s = <<>>
<1>1. PICK S : s \in Seq(S)
  BY DEF IsSequence
<1> DEFINE U == S \union {x}
<1>2. s \in Seq(U) /\ x \in U
  BY <1>1, WiderSeq
<1> HIDE DEF U
<1>3. /\ Append(s, x) \in Seq(U) /\ Len(Append(s, x)) = Len(s) + 1
      /\ \A i \in 1..Len(s) : Append(s, x)[i] = s[i]
      /\ Append(s, x)[Len(s) + 1] = x
  BY <1>2, AppendProperties
<1> QED
  BY <1>2, <1>3, SequenceFacts DEF IsSequence

\* ... of one more declaration of the file, ...
LEMMA MoreKeys ==
  ASSUME NEW nodes, IsSequence(nodes), NEW d, Keys(d) \in Names2
  PROVE  KeysOf(Append(nodes, d)) = KeysOf(nodes) \o Keys(d)
<1> DEFINE n == Len(nodes)
           q == [i \in DOMAIN nodes |-> Keys(nodes[i])]
           more == Append(nodes, d)
           r == [i \in DOMAIN more |-> Keys(more[i])]
<1>1. /\ n \in Nat /\ DOMAIN nodes = 1..n /\ DOMAIN more = 1..n + 1
      /\ \A i \in 1..n : more[i] = nodes[i]
      /\ more[n + 1] = d /\ (n = 0 => nodes = <<>>)
  BY LongerSeq
<1> HIDE DEF n, more
<1>2. Len(q) = n /\ Len(r) = n + 1
  BY <1>1
<1>3. \A i \in 1..n : r[i] = q[i]
  BY <1>1
<1>4. r[n + 1] = Keys(d)
  BY <1>1
<1>5. <<>> \o Keys(d) = Keys(d)
  BY ConcatEmptySeq DEF Names2
<1>6. n = 0 => FlattenSeq(q) = <<>>
  <2>1. FlattenSeq(<<>>) = <<>>
    BY DEF FlattenSeq
  <2>2. n = 0 => q = <<>>
    BY <1>1
  <2> QED
    BY <2>1, <2>2
<1> HIDE DEF q, r
<1>7. FlattenSeq(r) = FlattenSeq(q) \o Keys(d)
  <2>1. Grows(q, r, n, Keys(d))
    BY ONLY <1>1, <1>2, <1>3, <1>4, <1>5, <1>6 DEF Grows
  <2> QED
    BY ONLY <2>1, FlattenMore
<1>8. KeysOf(nodes) = FlattenSeq(q)
  BY Zenon DEF KeysOf, q
<1>9. KeysOf(more) = FlattenSeq(r)
  BY Zenon DEF KeysOf, r
<1> QED
  BY <1>7, <1>8, <1>9, Zenon DEF more

\* ... and of one more statement of a function.
LEMMA MoreLocals ==
  ASSUME NEW stmts, IsSequence(stmts), NEW name, NEW s, LocalKey(name, s) \in Names2
  PROVE  LocalKeys(name, Append(stmts, s)) = LocalKeys(name, stmts) \o LocalKey(name, s)
<1> DEFINE x == LocalKey(name, s)
           n == Len(stmts)
           q == [i \in DOMAIN stmts |-> LocalKey(name, stmts[i])]
           more == Append(stmts, s)
           r == [i \in DOMAIN more |-> LocalKey(name, more[i])]
<1>1. /\ n \in Nat /\ DOMAIN stmts = 1..n /\ DOMAIN more = 1..n + 1
      /\ \A i \in 1..n : more[i] = stmts[i]
      /\ more[n + 1] = s /\ (n = 0 => stmts = <<>>)
  BY LongerSeq
<1> HIDE DEF n, more
<1>2. Len(q) = n /\ Len(r) = n + 1
  BY <1>1
<1>3. \A i \in 1..n : r[i] = q[i]
  BY <1>1
<1>4. r[n + 1] = x
  BY <1>1
<1>5. <<>> \o x = x
  BY ConcatEmptySeq DEF Names2
<1>6. n = 0 => FlattenSeq(q) = <<>>
  <2>1. FlattenSeq(<<>>) = <<>>
    BY DEF FlattenSeq
  <2>2. n = 0 => q = <<>>
    BY <1>1
  <2> QED
    BY <2>1, <2>2
<1> HIDE DEF q, r, x
<1>7. FlattenSeq(r) = FlattenSeq(q) \o x
  <2>1. Grows(q, r, n, x)
    BY ONLY <1>1, <1>2, <1>3, <1>4, <1>5, <1>6 DEF Grows
  <2> QED
    BY ONLY <2>1, FlattenMore
<1>8. LocalKeys(name, stmts) = FlattenSeq(q)
  BY Zenon DEF LocalKeys, q
<1>9. LocalKeys(name, more) = FlattenSeq(r)
  BY Zenon DEF LocalKeys, r
<1> QED
  BY <1>7, <1>8, <1>9, Zenon DEF x, more

-----------------------------------------------------------------------------
(* Operators in front of an expression. *)

IsChain(ops, e, n, g) ==
  g = [i \in 0..n |->
         IF i = 0 THEN e
         ELSE IF ops[Len(ops) - i + 1] = "*" THEN Deref(g[i - 1]) ELSE Ref(g[i - 1])]

\* There is a function that puts the operators in front one by one.
LEMMA ChainExists ==
  ASSUME NEW ops, NEW e, NEW n \in Nat
  PROVE  \E g : IsChain(ops, e, n, g)
<1> DEFINE Bad == {m \in Nat : ~ \E g : IsChain(ops, e, m, g)}
           Step(i, c) == IF ops[Len(ops) - i + 1] = "*" THEN Deref(c) ELSE Ref(c)
<1> SUFFICES ASSUME Bad # {} PROVE FALSE
  OBVIOUS
<1>1. PICK m \in Bad : \A y \in Bad : m <= y
  <2> Bad \in SUBSET Nat
    OBVIOUS
  <2> HIDE DEF Bad
  <2> QED
    BY MinFacts
<1>2. CASE m = 0
  <2> DEFINE g == [i \in 0..m |-> e]
  <2>1. \A i \in 0..m : i = 0
    BY <1>2
  <2>2. IsChain(ops, e, m, g)
    BY <2>1 DEF IsChain
  <2> QED
    BY <2>2
<1>3. CASE m # 0
  <2>1. m - 1 \in Nat /\ m - 1 \notin Bad
    BY <1>1, <1>3
  <2>2. PICK g : IsChain(ops, e, m - 1, g)
    BY <2>1
  <2>3. \A i \in 0..m - 1 : g[i] = IF i = 0 THEN e ELSE Step(i, g[i - 1])
    BY <2>2 DEF IsChain
  <2> HIDE DEF Step
  <2> DEFINE h == [i \in 0..m |-> IF i = m THEN Step(m, g[m - 1]) ELSE g[i]]
  <2>4. ASSUME NEW i \in 0..m
        PROVE  h[i] = IF i = 0 THEN e ELSE Step(i, h[i - 1])
    <3>1. CASE i = m
      <4>1. i - 1 \in 0..m /\ i - 1 # m
        BY <1>3, <2>1, <3>1
      <4> QED
        BY <1>3, <3>1, <4>1
    <3>2. CASE i # m /\ i # 0
      <4>1. i \in 0..m - 1 /\ i - 1 \in 0..m /\ i - 1 # m
        BY <3>2
      <4> QED
        BY <2>3, <3>2, <4>1
    <3>3. CASE i # m /\ i = 0
      BY <2>1, <2>3, <3>3
    <3> QED
      BY <3>1, <3>2, <3>3
  <2>5. IsChain(ops, e, m, h)
    <3>1. h = [i \in 0..m |-> h[i]]
      OBVIOUS
    <3> HIDE DEF h
    <3>2. h = [i \in 0..m |-> IF i = 0 THEN e ELSE Step(i, h[i - 1])]
      BY <2>4, <3>1
    <3> QED
      BY <3>2 DEF IsChain, Step
  <2> QED
    BY <2>5
<1> QED
  BY <1>2, <1>3

\* What parse_unary returns is no declaration.
LEMMA PrefixedOp ==
  ASSUME NEW ops, IsSequence(ops), NEW e, e.op # "var"
  PROVE  Prefixed(ops, e).op # "var"
<1> DEFINE n == Len(ops)
           g == CHOOSE h : IsChain(ops, e, n, h)
<1>1. n \in Nat
  BY SequenceFacts
<1>2. IsChain(ops, e, n, g)
  BY <1>1, ChainExists
<1>3. Prefixed(ops, e) = g[n]
  BY DEF Prefixed, IsChain
<1> HIDE DEF g, n
<1>4. g[n] = IF n = 0 THEN e
             ELSE IF ops[Len(ops) - n + 1] = "*" THEN Deref(g[n - 1]) ELSE Ref(g[n - 1])
  BY <1>1, <1>2 DEF IsChain
<1> QED
  BY <1>3, <1>4 DEF Deref, Ref

-----------------------------------------------------------------------------
(* Which call has made which, and what their frames hold. *)

Chains == {"operators", "sum", "product", "assign"}
Operands == {"unary", "call", "args", "got_arg"}
Deep == Chains \union Operands \union {"type"}
Declares == {"var", "init"}
ParamPlaces == {"params", "got_param", "comma"}

\* A function at place p may be waiting for one at place q.
Calls(p, q) ==
  \/ q \in FunPlaces \union {"decl", "fun"} /\ p \in {"declared", "stmt"}
  \/ q \in Declares /\ p \in {"declared", "stmt", "got_param"}
  \/ q = "param" /\ p = "got_param"
  \/ q = "type" /\ p \in {"decl", "param"}
  \/ q \in Chains /\ p \in {"stmt", "init", "returned", "got_arg", "sum", "assign"}
  \/ q \in Operands /\ p \in {"operators", "product"}

FieldsOK(f) ==
  /\ f.at \in {"module", "declared"} => "nodes" \in DOMAIN f /\ IsSequence(f.nodes)
  /\ InFun(f) =>
       /\ "params" \in DOMAIN f /\ IsSequence(f.params)
       /\ "nodes" \in DOMAIN f /\ IsSequence(f.nodes)
       /\ f.at \in ParamPlaces => f.nodes = <<>>
  /\ f.at \in Operands => "ops" \in DOMAIN f /\ IsSequence(f.ops)

Shape ==
  /\ \A i \in 1..Len(calls) : FieldsOK(calls[i])
  /\ \A i \in 2..Len(calls) : Calls(calls[i - 1].at, calls[i].at)

\* What has been read and returned where a function goes on.
Ends == Stops \union {"end"}
AfterName == {"=", ";"}
TopOK ==
  verdict = "parsing" =>
    /\ Top.at \in {"init", "sum", "assign"} => cur.idx \in Stops
    /\ Top.at = "declared" => cur.idx \in Ends
    /\ Top.at = "module" => read = <<>> \/ cur.idx \in Ends
    /\ Top.at = "var" /\ calls[Len(calls) - 1].at = "declared" => cur.idx \in AfterName
    /\ Top.at = "operators" => value.op # "var"
    /\ Top.at = "file" => read = <<>> /\ made = 0 /\ symbols = <<>>

\* Place r may follow place q in one call.
After(q, r) == \A p \in Places : Calls(p, q) => Calls(p, r)

\* The places a function goes through, and what it may be called from all along.
LEMMA Successors ==
  /\ \A q \in FunPlaces \union {"fun"}, r \in FunPlaces : After(q, r)
  /\ \A r \in {"var", "fun"} : After("decl", r)
  /\ \A q, r \in Declares : After(q, r)
  /\ After("param", "var") /\ After("type", "type")
  /\ \A q, r \in Chains : After(q, r)
  /\ \A q, r \in Operands : After(q, r)
  /\ \A q \in Roots : \A r : After(q, r)
<1>1. \A q \in FunPlaces \union {"fun"}, r \in FunPlaces : After(q, r)
  BY DEF After, Calls, FunPlaces, Declares, Chains, Operands
<1>2. (\A r \in {"var", "fun"} : After("decl", r)) /\ After("param", "var") /\ After("type", "type")
  BY DEF After, Calls, FunPlaces, Declares, Chains, Operands
<1>3. \A q, r \in Declares : After(q, r)
  BY DEF After, Calls, FunPlaces, Declares, Chains, Operands
<1>4. \A q, r \in Chains : After(q, r)
  BY DEF After, Calls, FunPlaces, Declares, Chains, Operands
<1>5. \A q, r \in Operands : After(q, r)
  BY DEF After, Calls, FunPlaces, Declares, Chains, Operands
<1>6. \A q \in Roots : \A r : After(q, r)
  BY DEF After, Calls, FunPlaces, Declares, Chains, Operands, Roots
<1> QED
  BY <1>1, <1>2, <1>3, <1>4, <1>5, <1>6

\* The frames t may take the place of frame f.
Piece(f, t) ==
  /\ IsSequence(t)
  /\ \A i \in 1..Len(t) : FieldsOK(t[i])
  /\ \A i \in 2..Len(t) : Calls(t[i - 1].at, t[i].at)
  /\ t # <<>> => After(f.at, t[1].at)

\* What the calls are after a step.
LEMMA PieceFacts ==
  ASSUME CallsOK, CallsOK', Shape, NEW t, Piece(Top, t), Becomes(t)
  PROVE  /\ Shape'
         /\ Len(calls) \in Nat \ {0} /\ Len(t) \in Nat /\ Len(calls') \in Nat \ {0}
         /\ Replaced(calls, t, calls')
         /\ Top = calls[Len(calls)]
         /\ t # <<>> => Top' = t[Len(t)]
         /\ t = <<>> => /\ Len(calls) > 1 /\ Top' = calls[Len(calls) - 1]
                        /\ Calls(Top'.at, Top.at)
<1> DEFINE n == Len(calls)
           r == calls'
           k == Len(t)
<1>1. /\ IsSequence(calls) /\ calls # <<>> /\ IsSequence(t) /\ IsSequence(r) /\ r # <<>>
      /\ \A i \in 1..n : calls[i].at \in Places
  BY DEF CallsOK, Piece, FrameOK
<1>2. /\ n \in Nat \ {0} /\ k \in Nat /\ Len(r) \in Nat \ {0} /\ (t # <<>> <=> k > 0)
      /\ Top = calls[n] /\ Top' = r[Len(r)]
  BY <1>1, SequenceFacts DEF Top, Last
<1>3. Replaced(calls, t, r)
  BY <1>1, ReplaceLast DEF Becomes
<1>4. /\ Len(r) = n - 1 + k
      /\ \A i \in 1..n - 1 : r[i] = calls[i]
      /\ \A i \in 1..k : r[n - 1 + i] = t[i]
  BY <1>3 DEF Replaced
<1>5. /\ \A i \in 1..n : FieldsOK(calls[i])
      /\ \A i \in 2..n : Calls(calls[i - 1].at, calls[i].at)
      /\ \A i \in 1..k : FieldsOK(t[i])
      /\ \A i \in 2..k : Calls(t[i - 1].at, t[i].at)
      /\ t # <<>> => After(calls[n].at, t[1].at)
  BY <1>2 DEF Shape, Piece
<1> HIDE DEF n, r, k
<1>6. ASSUME NEW i \in 1..Len(r) PROVE FieldsOK(r[i])
  <2>1. CASE i <= n - 1
    BY <1>2, <1>4, <1>5, <2>1
  <2>2. CASE ~(i <= n - 1)
    <3> DEFINE j == i - (n - 1)
    <3>1. j \in 1..k /\ n - 1 + j = i
      BY <1>2, <1>4, <2>2
    <3> QED
      BY <1>4, <1>5, <3>1
  <2> QED
    BY <2>1, <2>2
<1>7. ASSUME NEW i \in 2..Len(r) PROVE Calls(r[i - 1].at, r[i].at)
  <2>1. CASE i <= n - 1
    <3>1. i \in 2..n /\ i - 1 \in 1..n - 1 /\ i \in 1..n - 1
      BY <1>2, <2>1
    <3> QED
      BY <1>4, <1>5, <3>1
  <2>2. CASE i = n
    <3>1. n \in 2..n /\ n - 1 \in 1..n - 1 /\ n - 1 \in 1..n /\ 1 \in 1..k
      BY <1>2, <1>4, <2>2
    <3>2. r[n - 1] = calls[n - 1] /\ r[n] = t[1] /\ t # <<>>
      <4>1. n - 1 + 1 = n
        BY <1>2
      <4> QED
        BY <1>2, <1>4, <3>1, <4>1
    <3> QED
      BY <1>1, <1>5, <2>2, <3>1, <3>2 DEF After
  <2>3. CASE i > n
    <3> DEFINE j == i - (n - 1)
    <3>1. j \in 2..k /\ n - 1 + j = i /\ j - 1 \in 1..k /\ j \in 1..k /\ n - 1 + (j - 1) = i - 1
      BY <1>2, <1>4, <2>3
    <3> QED
      BY <1>4, <1>5, <3>1
  <2> QED
    BY <1>2, <2>1, <2>2, <2>3
<1>8. Shape'
  BY <1>6, <1>7 DEF Shape, r
<1>9. ASSUME t # <<>> PROVE Top' = t[k]
  <2>1. k \in 1..k
    BY <1>2, <1>9
  <2> QED
    BY <1>2, <1>4, <2>1
<1>10. ASSUME t = <<>>
       PROVE  n > 1 /\ Top' = calls[n - 1] /\ Calls(Top'.at, Top.at)
  <2>1. k = 0 /\ n > 1 /\ Len(r) = n - 1
    BY <1>2, <1>4, <1>10
  <2>2. n - 1 \in 1..n - 1 /\ n \in 2..n
    BY <1>2, <2>1
  <2> QED
    BY <1>2, <1>4, <1>5, <2>1, <2>2
<1> QED
  BY <1>2, <1>3, <1>8, <1>9, <1>10 DEF n, r, k

\* One frame in the place of another one.
LEMMA GotoPiece ==
  ASSUME NEW f, NEW g, FieldsOK(g), After(f.at, g.at)
  PROVE  /\ Piece(f, <<g>>) /\ <<g>> # <<>> /\ Len(<<g>>) = 1
         /\ <<g>>[1] = g /\ <<g>>[Len(<<g>>)] = g
<1>1. IsSequence(<<g>>) /\ Len(<<g>>) = 1 /\ <<g>>[1] = g /\ <<g>> # <<>>
  BY Lists
<1>2. 1..1 = {1} /\ 2..1 = {}
  OBVIOUS
<1> QED
  BY <1>1, <1>2 DEF Piece

\* A function that returns leaves nothing on the stack.
LEMMA NoPiece ==
  ASSUME NEW f
  PROVE  Piece(f, <<>>)
<1> DEFINE e == <<>>
<1>1. IsSequence(e) /\ Len(e) = 0 /\ e = <<>>
  BY Lists
<1>2. 1..0 = {} /\ 2..0 = {}
  OBVIOUS
<1> HIDE DEF e
<1> QED
  BY <1>1, <1>2 DEF Piece

\* What the actions open above place p.
Callee(p, u) ==
  /\ IsSequence(u) /\ u # <<>>
  /\ \A i \in 1..Len(u) : FieldsOK(u[i])
  /\ \A i \in 2..Len(u) : Calls(u[i - 1].at, u[i].at)
  /\ Calls(p, u[1].at)
  /\ \A i \in 1..Len(u) : u[i].at \in {"type", "decl", "param", "unary", "operators"}
  /\ u[Len(u)].at \in {"type", "unary"}

\* The calls that the steps of the parser open.
LEMMA CalleesOK ==
  /\ Callee("declared", DeclCall) /\ Callee("stmt", DeclCall)
  /\ Callee("got_param", <<[at |-> "param"]>> \o TypeCall)
  /\ Callee("product", UnaryCall)
  /\ \A p \in {"stmt", "init", "returned", "got_arg", "sum", "assign"} : Callee(p, ExprCall)
<1> DEFINE type == [at |-> "type", refc |-> 0]
           decl == [at |-> "decl"]
           unary == [at |-> "unary", ops |-> <<>>]
           operators == [at |-> "operators"]
           param == [at |-> "param"]
<1>1. /\ type.at = "type" /\ decl.at = "decl" /\ unary.at = "unary"
      /\ operators.at = "operators" /\ param.at = "param"
  OBVIOUS
<1>2. FieldsOK(type) /\ FieldsOK(decl) /\ FieldsOK(unary) /\ FieldsOK(operators) /\ FieldsOK(param)
  BY Lists DEF FieldsOK, InFun, FunPlaces, Operands
<1> HIDE DEF type, decl, unary, operators, param
<1>3. /\ DeclCall = <<decl, type>> /\ UnaryCall = <<unary>> /\ ExprCall = <<operators, unary>>
      /\ <<[at |-> "param"]>> \o TypeCall = <<param, type>>
  <2>1. TypeCall = <<type>> /\ UnaryCall = <<unary>> /\ param = [at |-> "param"]
    BY DEF TypeCall, UnaryCall, type, unary, param
  <2>2. DeclCall = <<decl>> \o TypeCall /\ ExprCall = <<operators>> \o UnaryCall
    BY DEF DeclCall, ExprCall, decl, operators
  <2> QED
    BY <2>1, <2>2, Pairs
<1>4. ASSUME NEW p, NEW f, FieldsOK(f), Calls(p, f.at), f.at = "unary"
      PROVE  Callee(p, <<f>>)
  <2>1. Len(<<f>>) = 1 /\ <<f>>[1] = f /\ IsSequence(<<f>>) /\ <<f>> # <<>>
    BY Lists
  <2>2. 1..1 = {1} /\ 2..1 = {}
    OBVIOUS
  <2> QED
    BY <1>4, <2>1, <2>2 DEF Callee
<1>5. ASSUME NEW p, NEW f, NEW g, FieldsOK(f), FieldsOK(g), Calls(p, f.at), Calls(f.at, g.at),
             f.at \in {"decl", "param", "operators"}, g.at \in {"type", "unary"}
      PROVE  Callee(p, <<f, g>>)
  <2>1. /\ Len(<<f, g>>) = 2 /\ <<f, g>>[1] = f /\ <<f, g>>[2] = g
        /\ IsSequence(<<f, g>>) /\ <<f, g>> # <<>>
    BY Lists
  <2>2. 1..2 = {1, 2} /\ 2..2 = {2} /\ 2 - 1 = 1
    OBVIOUS
  <2> QED
    BY <1>5, <2>1, <2>2 DEF Callee
<1>6. /\ \A p \in {"declared", "stmt"} : Calls(p, "decl")
      /\ Calls("decl", "type") /\ Calls("param", "type") /\ Calls("got_param", "param")
      /\ Calls("operators", "unary") /\ Calls("product", "unary")
      /\ \A p \in {"stmt", "init", "returned", "got_arg", "sum", "assign"} : Calls(p, "operators")
  BY DEF Calls, Chains, Operands
<1>7. Callee("product", UnaryCall)
  BY <1>1, <1>2, <1>3, <1>4, <1>6
<1>8. \A p \in {"declared", "stmt"} : Callee(p, DeclCall)
  BY <1>1, <1>2, <1>3, <1>5, <1>6
<1>9. Callee("got_param", <<[at |-> "param"]>> \o TypeCall)
  BY <1>1, <1>2, <1>3, <1>5, <1>6
<1>10. \A p \in {"stmt", "init", "returned", "got_arg", "sum", "assign"} : Callee(p, ExprCall)
  BY <1>1, <1>2, <1>3, <1>5, <1>6
<1> QED
  BY <1>7, <1>8, <1>9, <1>10

\* The frames t take the place of f: g with calls above it.
Entered(f, g, t) ==
  /\ Piece(f, t) /\ t # <<>> /\ Len(t) \in Nat /\ Len(t) > 1 /\ t[1] = g
  /\ \A i \in 2..Len(t) : t[i].at \in {"type", "decl", "param", "unary", "operators"}
  /\ t[Len(t)].at \in {"type", "unary"}

\* One frame in the place of another one, and calls above it.
LEMMA EnterPiece ==
  ASSUME NEW f, NEW g, FieldsOK(g), After(f.at, g.at), NEW u, Callee(g.at, u)
  PROVE  Entered(f, g, <<g>> \o u)
<1> DEFINE t == <<g>> \o u
           k == Len(u)
<1>1. PICK S : u \in Seq(S)
  BY DEF Callee, IsSequence
<1> DEFINE U == {g} \union S
<1>2. u \in Seq(U) /\ <<g>> \in Seq(U)
  BY <1>1, WiderSeq
<1> HIDE DEF U
<1>3. /\ t \in Seq(U) /\ Len(t) = 1 + k /\ k \in Nat /\ t[1] = g
      /\ \A i \in 2..Len(t) : i - 1 \in 1..k /\ t[i] = u[i - 1]
  BY <1>2, ConcatProperties
<1>4. k > 0
  BY SequenceFacts DEF Callee
<1>5. /\ \A i \in 1..k : FieldsOK(u[i])
      /\ \A i \in 2..k : Calls(u[i - 1].at, u[i].at)
      /\ Calls(g.at, u[1].at) /\ u[k].at \in {"type", "unary"}
      /\ \A i \in 1..k : u[i].at \in {"type", "decl", "param", "unary", "operators"}
  BY DEF Callee
<1> HIDE DEF t, k
<1>6. IsSequence(t) /\ t # <<>> /\ Len(t) > 1
  BY <1>3, <1>4 DEF IsSequence
<1>7. \A i \in 1..Len(t) : FieldsOK(t[i])
  <2>1. \A i \in 1..Len(t) : i = 1 \/ i \in 2..Len(t)
    BY <1>3
  <2> QED
    BY <1>3, <1>5, <2>1
<1>8. ASSUME NEW i \in 2..Len(t) PROVE Calls(t[i - 1].at, t[i].at)
  <2>1. CASE i = 2
    BY <1>3, <1>5, <2>1
  <2>2. CASE i # 2
    <3>1. i - 1 \in 2..k /\ i - 1 \in 2..Len(t)
      BY <1>3, <2>2
    <3> QED
      BY <1>3, <1>5, <3>1
  <2> QED
    BY <2>1, <2>2
<1>9. t[Len(t)] = u[k]
  <2>1. Len(t) \in 2..Len(t) /\ Len(t) - 1 = k
    BY <1>3, <1>4
  <2> QED
    BY <1>3, <2>1
<1>10. Piece(f, t)
  BY <1>3, <1>6, <1>7, <1>8 DEF Piece
<1>11. Entered(f, g, t)
  BY <1>3, <1>5, <1>6, <1>9, <1>10 DEF Entered
<1> QED
  BY <1>11 DEF t

-----------------------------------------------------------------------------
(* Steps inside a type or an expression. *)

\* The facts on which all that follows rests.
Sure == IInv /\ IInv' /\ Shape /\ TopOK /\ verdict = "parsing"

\* ... and where the step leads.
DeepStep ==
  /\ Top.at \in Deep
  /\ \E t : Piece(Top, t) /\ Becomes(t) /\ (t # <<>> => t[1].at \in Deep)
  /\ UNCHANGED <<made, symbols>>
  /\ Top'.at = "stmt" => value'.op # "var"
  /\ TopOK'

\* At these places a function takes what comes.
LEMMA CalmTop ==
  ASSUME Top'.at \notin Roots \union Declares \union {"sum", "assign", "operators"}
  PROVE  TopOK'
  BY DEF TopOK, Roots, Declares

\* What is known of the call on top.
LEMMA SureFacts ==
  ASSUME Sure
  PROVE  /\ CallsOK /\ CallsOK' /\ FrameOK(Top, made) /\ FieldsOK(Top) /\ Top.at \in Places
         /\ made \in Nat
<1>1. CallsOK /\ CallsOK' /\ Len(calls) \in Nat \ {0} /\ Top = calls[Len(calls)]
  BY TopFacts DEF Sure, IInv
<1>2. FieldsOK(Top)
  BY <1>1 DEF Sure, Shape
<1> QED
  BY <1>1, <1>2, TopFacts DEF FrameOK, Sure, IInv

\* A type or an expression goes on, ...
LEMMA DeepGoesOn ==
  ASSUME Sure, Top.at \in Deep, UNCHANGED <<made, symbols>>,
         NEW t, Piece(Top, t), Becomes(t), t # <<>>, t[1].at \in Deep,
         t[Len(t)].at \in Operands \union {"type"}
  PROVE  DeepStep
<1>1. Top' = t[Len(t)]
  BY SureFacts, PieceFacts DEF Sure
<1>2. Top'.at # "stmt" /\ TopOK'
  BY <1>1, CalmTop DEF Operands, Roots, Declares
<1> QED
  BY <1>2 DEF DeepStep

\* ... at another place, ...
LEMMA DeepGoto ==
  ASSUME Sure, UNCHANGED <<made, symbols>>, NEW g, Goto(g), FieldsOK(g),
         \E P \in {Operands, {"type"}} : Top.at \in P /\ g.at \in P
  PROVE  DeepStep
<1>1. After(Top.at, g.at) /\ Top.at \in Deep /\ g.at \in Deep /\ g.at \in Operands \union {"type"}
  BY Successors DEF Deep
<1>2. /\ Piece(Top, <<g>>) /\ <<g>> # <<>> /\ <<g>>[1] = g /\ <<g>>[Len(<<g>>)] = g
  BY <1>1, GotoPiece
<1> DEFINE t == <<g>>
<1>3. Becomes(t)
  BY DEF Goto
<1> HIDE DEF t
<1>4. Piece(Top, t) /\ t # <<>> /\ t[1] = g /\ t[Len(t)] = g
  BY <1>2 DEF t
<1> QED
  BY <1>1, <1>3, <1>4, DeepGoesOn

\* ... with calls above it, ...
LEMMA DeepEnter ==
  ASSUME Sure, UNCHANGED <<made, symbols>>, NEW g, NEW u, Becomes(<<g>> \o u),
         FieldsOK(g), Callee(g.at, u),
         \E P \in {Operands, Chains} : Top.at \in P /\ g.at \in P
  PROVE  DeepStep
<1>1. After(Top.at, g.at) /\ Top.at \in Deep /\ g.at \in Deep
  BY Successors DEF Deep
<1> DEFINE t == <<g>> \o u
<1>2. Entered(Top, g, t)
  BY <1>1, EnterPiece
<1>3. Becomes(t)
  OBVIOUS
<1> HIDE DEF t
<1> QED
  BY <1>1, <1>2, <1>3, DeepGoesOn DEF Operands, Entered

\* ... or returns.
LEMMA DeepReturns ==
  ASSUME Sure, UNCHANGED <<made, symbols>>, Becomes(<<>>), Top.at \in Deep,
         Top.at \in Chains => cur'.idx \in Stops /\ value'.op # "var",
         Top.at \in Operands => value'.op # "var"
  PROVE  DeepStep
<1> DEFINE t == <<>>
<1>1. Piece(Top, t) /\ Becomes(t) /\ t = <<>>
  BY NoPiece
<1> HIDE DEF t
<1>2. Calls(Top'.at, Top.at)
  BY <1>1, SureFacts, PieceFacts DEF Sure
<1>3. CASE Top.at = "type"
  <2>1. Top'.at \in {"decl", "param"}
    BY <1>2, <1>3 DEF Calls, FunPlaces, Declares, Chains, Operands
  <2>2. Top'.at # "stmt" /\ TopOK'
    BY <2>1, CalmTop DEF Roots, Declares
  <2> QED
    BY <1>1, <2>2 DEF DeepStep
<1>4. CASE Top.at \in Operands
  <2>1. Top'.at \in {"operators", "product"}
    BY <1>2, <1>4 DEF Calls, FunPlaces, Declares, Chains, Operands
  <2>2. Top'.at # "stmt" /\ TopOK'
    BY <1>4, <2>1 DEF TopOK
  <2> QED
    BY <1>1, <2>2 DEF DeepStep
<1>5. CASE Top.at \in Chains
  <2>1. Top'.at \in {"stmt", "init", "returned", "got_arg", "sum", "assign"}
    BY <1>2, <1>5 DEF Calls, FunPlaces, Declares, Chains, Operands
  <2>2. TopOK'
    BY <1>5, <2>1 DEF TopOK
  <2> QED
    BY <1>1, <1>5, <2>2 DEF DeepStep
<1> QED
  BY <1>3, <1>4, <1>5 DEF Deep

\* parse_type and what reads an operand.
LEMMA DeepValues ==
  ASSUME Sure,
         \/ TypeRef \/ TypeBase \/ Prefix \/ ValueLit \/ ValueIdent
         \/ CallOpen \/ ArgNext \/ GotArg \/ ArgsEnd
  PROVE  DeepStep
<1>1. /\ "at" \in DOMAIN Top
      /\ Top.at \in Operands => "ops" \in DOMAIN Top /\ IsSequence(Top.ops)
  BY SureFacts DEF FrameOK, FieldsOK
<1>2. /\ "unary" \in Operands /\ "call" \in Operands /\ "args" \in Operands /\ "got_arg" \in Operands
      /\ Operands \subseteq Deep /\ "type" \in Deep /\ "type" \notin Operands \union Chains
      /\ Operands \intersect Chains = {}
      /\ \A p \in Operands \union {"type"} : p \notin FunPlaces \union {"module", "declared"}
  BY DEF Operands, Chains, Deep, FunPlaces
<1>3. ASSUME NEW g, g.at \in Operands, IsSequence(g.ops), "ops" \in DOMAIN g
      PROVE  FieldsOK(g)
  BY <1>2, <1>3 DEF FieldsOK, InFun
<1>4. ASSUME TypeRef PROVE DeepStep
  <2> DEFINE g == [Top EXCEPT !.refc = @ + 1]
  <2>1. Goto(g) /\ UNCHANGED <<made, symbols>> /\ Top.at = "type"
    BY <1>4 DEF TypeRef, At
  <2>2. g.at = "type"
    BY <1>1, <2>1
  <2> HIDE DEF g
  <2>3. FieldsOK(g)
    BY <1>2, <2>2 DEF FieldsOK, InFun
  <2> QED
    BY <2>1, <2>2, <2>3, DeepGoto
<1>5. ASSUME TypeBase PROVE DeepStep
  BY <1>2, <1>5, DeepReturns DEF TypeBase, At, Returns
<1>6. ASSUME Prefix PROVE DeepStep
  <2> DEFINE g == [Top EXCEPT !.ops = Append(@, cur.idx)]
  <2>1. Goto(g) /\ UNCHANGED <<made, symbols>> /\ Top.at = "unary"
    BY <1>6 DEF Prefix, At
  <2>2. g.at = "unary" /\ g.ops = Append(Top.ops, cur.idx) /\ "ops" \in DOMAIN g
    BY <1>1, <1>2, <2>1
  <2> HIDE DEF g
  <2>3. IsSequence(g.ops)
    <3>1. IsSequence(Top.ops)
      BY <1>1, <1>2, <2>1
    <3>2. IsSequence(Append(Top.ops, cur.idx))
      BY <3>1, LongerSeq
    <3> QED
      BY <2>2, <3>2
  <2>4. FieldsOK(g)
    BY <1>2, <1>3, <2>2, <2>3
  <2> QED
    BY <1>2, <2>1, <2>2, <2>4, DeepGoto
<1>7. ASSUME ValueLit PROVE DeepStep
  <2>1. /\ Top.at = "unary" /\ UNCHANGED <<made, symbols>> /\ Becomes(<<>>)
        /\ value' = Prefixed(Top.ops, LitOf(cur.idx)) /\ cur.idx \in Constants
    BY <1>7 DEF ValueLit, At, Returns
  <2>2. LitOf(cur.idx).op # "var"
    BY <2>1 DEF LitOf, Constants, IntLit, CharLit, StrLit, Lit
  <2>3. value'.op # "var"
    BY <1>1, <1>2, <2>1, <2>2, PrefixedOp
  <2> QED
    BY <1>2, <2>1, <2>3, DeepReturns
<1>8. ASSUME ValueIdent PROVE DeepStep
  <2> DEFINE g == [at |-> "call", name |-> cur.text, ops |-> Top.ops]
  <2>1. /\ Top.at = "unary" /\ UNCHANGED <<made, symbols>>
        /\ Goto(g) \/ (Becomes(<<>>) /\ value' = Prefixed(Top.ops, Ident(cur.text)))
    BY <1>8 DEF ValueIdent, At, Returns
  <2>2. g.at = "call" /\ g.ops = Top.ops /\ "ops" \in DOMAIN g
    OBVIOUS
  <2> HIDE DEF g
  <2>3. FieldsOK(g)
    BY <1>1, <1>2, <1>3, <2>1, <2>2
  <2>4. Ident(cur.text).op # "var"
    BY DEF Ident
  <2>5. Prefixed(Top.ops, Ident(cur.text)).op # "var"
    BY <1>1, <1>2, <2>1, <2>4, PrefixedOp
  <2>6. CASE Goto(g)
    BY <1>2, <2>1, <2>2, <2>3, <2>6, DeepGoto
  <2>7. CASE Becomes(<<>>) /\ value' = Prefixed(Top.ops, Ident(cur.text))
    BY <1>2, <2>1, <2>5, <2>7, DeepReturns
  <2> QED
    BY <2>1, <2>6, <2>7
<1>9. ASSUME CallOpen PROVE DeepStep
  <2> DEFINE g == [at |-> "args", name |-> Top.name, ops |-> Top.ops, args |-> <<>>]
  <2>1. Goto(g) /\ UNCHANGED <<made, symbols>> /\ Top.at = "call"
    BY <1>9 DEF CallOpen, At
  <2>2. g.at = "args" /\ g.ops = Top.ops /\ "ops" \in DOMAIN g
    OBVIOUS
  <2> HIDE DEF g
  <2>3. FieldsOK(g)
    BY <1>1, <1>2, <1>3, <2>1, <2>2
  <2> QED
    BY <1>2, <2>1, <2>2, <2>3, DeepGoto
<1>10. ASSUME ArgNext PROVE DeepStep
  <2> DEFINE g == [Top EXCEPT !.at = "got_arg"]
  <2>1. Becomes(<<g>> \o ExprCall) /\ UNCHANGED <<made, symbols>> /\ Top.at = "args"
    BY <1>10 DEF ArgNext, At, Enter
  <2>2. g.at = "got_arg" /\ g.ops = Top.ops /\ "ops" \in DOMAIN g
    BY <1>1, <1>2, <2>1
  <2> HIDE DEF g
  <2>3. FieldsOK(g)
    BY <1>1, <1>2, <1>3, <2>1, <2>2
  <2>4. Callee(g.at, ExprCall)
    BY <2>2, CalleesOK
  <2> QED
    BY <1>2, <2>1, <2>2, <2>3, <2>4, DeepEnter
<1>11. ASSUME GotArg PROVE DeepStep
  <2> DEFINE g == [Top EXCEPT !.at = "args", !.args = Append(@, value)]
  <2>1. Goto(g) /\ UNCHANGED <<made, symbols>> /\ Top.at = "got_arg"
    BY <1>11 DEF GotArg, At
  <2>2. g.at = "args" /\ g.ops = Top.ops /\ "ops" \in DOMAIN g
    BY <1>1, <1>2, <2>1
  <2> HIDE DEF g
  <2>3. FieldsOK(g)
    BY <1>1, <1>2, <1>3, <2>1, <2>2
  <2> QED
    BY <1>2, <2>1, <2>2, <2>3, DeepGoto
<1>12. ASSUME ArgsEnd PROVE DeepStep
  <2>1. /\ Top.at = "args" /\ UNCHANGED <<made, symbols>> /\ Becomes(<<>>)
        /\ value' = Prefixed(Top.ops, Call(Top.name, Top.args))
    BY <1>12 DEF ArgsEnd, At, Returns
  <2>2. Call(Top.name, Top.args).op # "var"
    BY DEF Call
  <2>3. value'.op # "var"
    BY <1>1, <1>2, <2>1, <2>2, PrefixedOp
  <2> QED
    BY <1>2, <2>1, <2>3, DeepReturns
<1> QED
  BY <1>4, <1>5, <1>6, <1>7, <1>8, <1>9, <1>10, <1>11, <1>12

\* parse_expr.
LEMMA DeepChains ==
  ASSUME Sure,
         \/ SumOpen \/ ProductOpen \/ AssignOpen
         \/ SumEnd \/ ProductEnd \/ AssignEnd \/ ExprEnd
  PROVE  DeepStep
<1>1. /\ "operators" \in Chains /\ "sum" \in Chains /\ "product" \in Chains /\ "assign" \in Chains
      /\ Chains \subseteq Deep /\ Operands \intersect Chains = {} /\ "type" \notin Chains
  BY DEF Operands, Chains, Deep
<1>2. ASSUME NEW g, g.at \in Chains PROVE FieldsOK(g)
  BY <1>2 DEF FieldsOK, InFun, FunPlaces, Operands, Chains
<1>3. ASSUME NEW op, NEW place, NEW u, Operand(op, place, u), place \in Chains, Callee(place, u)
      PROVE  DeepStep
  <2> DEFINE g == [at |-> place, lhs |-> value]
  <2>1. Becomes(<<g>> \o u) /\ UNCHANGED <<made, symbols>> /\ Top.at = "operators"
    BY <1>3 DEF Operand, At
  <2>2. g.at = place
    OBVIOUS
  <2> HIDE DEF g
  <2>3. FieldsOK(g) /\ Callee(g.at, u)
    BY <1>2, <1>3, <2>2
  <2> QED
    BY <1>1, <1>3, <2>1, <2>2, <2>3, DeepEnter
<1>4. CASE SumOpen \/ ProductOpen \/ AssignOpen
  BY <1>1, <1>3, <1>4, CalleesOK DEF SumOpen, ProductOpen, AssignOpen
<1>5. ASSUME ProductEnd PROVE DeepStep
  <2> DEFINE g == [at |-> "operators"]
             t == <<g>>
  <2>1. /\ Becomes(t) /\ UNCHANGED <<made, symbols>> /\ Top.at = "product"
        /\ value' = Mul(Top.lhs, value)
    BY <1>5 DEF ProductEnd, At, Goto
  <2>2. g.at = "operators"
    OBVIOUS
  <2> HIDE DEF g
  <2>3. FieldsOK(g) /\ After(Top.at, g.at)
    BY <1>1, <1>2, <2>1, <2>2, Successors
  <2>4. Piece(Top, t) /\ t # <<>> /\ t[1] = g /\ t[Len(t)] = g
    BY <2>3, GotoPiece
  <2> HIDE DEF t
  <2>5. Top' = g
    BY <2>1, <2>4, SureFacts, PieceFacts DEF Sure
  <2>6. TopOK' /\ Top'.at # "stmt"
    BY <2>1, <2>2, <2>5 DEF TopOK, Mul
  <2> QED
    BY <1>1, <2>1, <2>2, <2>4, <2>6 DEF DeepStep
<1>6. ASSUME SumEnd \/ AssignEnd \/ ExprEnd PROVE DeepStep
  <2>1. /\ UNCHANGED <<cur, made, symbols>> /\ Becomes(<<>>)
        /\ \/ Top.at = "sum" /\ value' = Add(Top.lhs, value)
           \/ Top.at = "assign" /\ value' = Assign(Top.lhs, value)
           \/ Top.at = "operators" /\ value' = value /\ cur.idx \in Stops
    BY <1>6 DEF SumEnd, AssignEnd, ExprEnd, At, Returns
  <2>2. cur'.idx \in Stops
    BY <2>1 DEF Sure, TopOK
  <2>3. value'.op # "var"
    <3>1. Top.at = "operators" => value.op # "var"
      BY DEF Sure, TopOK
    <3>2. Add(Top.lhs, value).op = "add" /\ Assign(Top.lhs, value).op = "assign"
      BY DEF Add, Assign
    <3> QED
      BY <2>1, <3>1, <3>2
  <2> QED
    BY <1>1, <2>1, <2>2, <2>3, DeepReturns
<1> QED
  BY <1>4, <1>5, <1>6 DEF SumOpen, ProductOpen, AssignOpen

-----------------------------------------------------------------------------
(* The declarations so far, as keys in the order their nodes were made. *)

OpenKeys(s, v) ==
  IF Len(s) = 1 THEN (IF s[1].at = "declared" THEN Keys(v) ELSE <<>>)
  ELSE IF InFun(s[2]) THEN FunKeys(s[2].name, s[2].params, s[2].nodes)
  ELSE IF s[2].at \in Declares THEN <<s[2].name>> ELSE <<>>
InnerKeys(s, v) ==
  IF Len(s) = 1 \/ ~InFun(s[2]) THEN <<>>
  ELSE IF Len(s) = 2
       THEN (IF s[2].at \in {"stmt", "got_param"} THEN LocalKey(s[2].name, v) ELSE <<>>)
  ELSE IF s[3].at \in Declares THEN <<s[2].name \o s[3].name>> ELSE <<>>
KeysNow(s, v) == KeysOf(s[1].nodes) \o (OpenKeys(s, v) \o InnerKeys(s, v))

\* The nodes that are not in the symbol table yet.
Bare(f) == f.at \notin Declares /\ ~InFun(f)
NodeAt(s, i) == IF Len(s) < i \/ Bare(s[i]) THEN {} ELSE {s[i].node}
Unbound(s) == NodeAt(s, 2) \union NodeAt(s, 3)

\* The table t has the keys of the nodes R, each with the first node of its key.
Bound(K, R, t) ==
  /\ DOMAIN t = {K[n] : n \in R}
  /\ \A n \in R : t[K[n]] \in R /\ K[t[K[n]]] = K[n] /\ t[K[n]] <= n

\* All keys are sequences of names.
Typed(s, v) ==
  /\ KeysOf(s[1].nodes) \in Names2 /\ OpenKeys(s, v) \in Names2 /\ InnerKeys(s, v) \in Names2
  /\ Len(s) > 1 /\ InFun(s[2]) => /\ LocalKeys(s[2].name, s[2].params) \in Names2
                                  /\ LocalKeys(s[2].name, s[2].nodes) \in Names2

\* The nodes of the open declarations: m is the last one made. No key inside an
\* open function is the function's own, so that registering it last is no clash.
NodesOK(s, v, m) ==
  /\ Len(s) > 1 /\ s[2].at \in Declares => s[2].node = m
  /\ Len(s) > 1 /\ InFun(s[2]) =>
       /\ s[2].node = Len(KeysOf(s[1].nodes)) + 1
       /\ \A n \in s[2].node + 1..m : KeysNow(s, v)[n] # s[2].name
       /\ Len(s) > 2 /\ s[3].at \in Declares => s[3].node = m

\* What is in the books: m keys so far, those of the nodes that are bound in t.
Booked(s, v, m, t) ==
  /\ Typed(s, v) /\ NodesOK(s, v, m)
  /\ Len(KeysNow(s, v)) = m
  /\ Bound(KeysNow(s, v), 1..m \ Unbound(s), t)

\* While the file may still be accepted: no function is nested in another (its
\* "end" is no ";"), and a statement is closed as it should.
Closed == Top.at = "stmt" => cur.idx = ";"
Live ==
  /\ verdict = "parsing" /\ ~AtEnd /\ calls[1].at # "file"
  /\ \A i \in 3..Len(calls) : ~InFun(calls[i])
  /\ Closed

Booking == Live => Booked(calls, value, made, symbols)

-----------------------------------------------------------------------------
(* What a step does to the books. *)

\* Sequences of names may be joined in any order.
LEMMA Joining ==
  ASSUME NEW a \in Names2, NEW b \in Names2, NEW c \in Names2
  PROVE  /\ a \o b \in Names2 /\ (a \o b) \o c = a \o (b \o c)
         /\ a \o <<>> = a /\ <<>> \o a = a /\ <<>> \in Names2
         /\ Len(a \o b) = Len(a) + Len(b) /\ Len(a) \in Nat
         /\ \A i \in 1..Len(a) : (a \o b)[i] = a[i]
<1> DEFINE S == Seq(STRING)
<1>1. a \in Seq(S) /\ b \in Seq(S) /\ c \in Seq(S)
  BY DEF Names2
<1> HIDE DEF S
<1>2. (a \o b) \o c = a \o (b \o c) /\ a \o <<>> = a /\ <<>> \o a = a
  BY <1>1, ConcatAssociative, ConcatEmptySeq
<1>3. /\ a \o b \in Seq(S) /\ Len(a \o b) = Len(a) + Len(b) /\ Len(a) \in Nat /\ Len(b) \in Nat
      /\ \A i \in 1..Len(a) + Len(b) : (a \o b)[i] = IF i <= Len(a) THEN a[i] ELSE b[i - Len(a)]
  BY <1>1, ConcatProperties
<1>4. \A i \in 1..Len(a) : (a \o b)[i] = a[i]
  BY <1>3
<1>5. <<>> \in Seq(S)
  OBVIOUS
<1> QED
  BY <1>2, <1>3, <1>4, <1>5 DEF Names2, S

\* One more key.
LEMMA OneName ==
  ASSUME NEW a \in Names2, NEW x \in Seq(STRING)
  PROVE  /\ <<x>> \in Names2 /\ Len(<<x>>) = 1
         /\ Len(a \o <<x>>) = Len(a) + 1 /\ (a \o <<x>>)[Len(a) + 1] = x
         /\ \A i \in 1..Len(a) : (a \o <<x>>)[i] = a[i]
<1>1. <<x>> \in Names2 /\ Len(<<x>>) = 1 /\ <<x>>[1] = x
  BY DEF Names2
<1> QED
  BY <1>1, ConcatProperties DEF Names2

\* The keys are a sequence of names.
LEMMA KeysNowType ==
  ASSUME NEW s, NEW v, Typed(s, v)
  PROVE  KeysNow(s, v) \in Names2 /\ OpenKeys(s, v) \o InnerKeys(s, v) \in Names2
<1>1. OpenKeys(s, v) \o InnerKeys(s, v) \in Names2
  BY Joining DEF Typed
<1> QED
  BY <1>1, Joining DEF KeysNow, Typed

\* A node is made for a new key, ...
LEMMA NewBooks ==
  ASSUME NEW s, NEW v, NEW m \in Nat, NEW t, Booked(s, v, m, t),
         NEW r, NEW w, NEW x \in Seq(STRING), KeysNow(r, w) = KeysNow(s, v) \o <<x>>,
         Unbound(r) = Unbound(s) \union {m + 1}, Typed(r, w), NodesOK(r, w, m + 1)
  PROVE  Booked(r, w, m + 1, t)
<1> DEFINE K == KeysNow(s, v)
           L == KeysNow(r, w)
           R == 1..m \ Unbound(s)
<1>1. K \in Names2 /\ Len(K) = m /\ Bound(K, R, t)
  BY KeysNowType DEF Booked
<1>2. Len(L) = m + 1 /\ \A i \in 1..m : L[i] = K[i]
  BY <1>1, OneName
<1>3. 1..m + 1 \ Unbound(r) = R
  OBVIOUS
<1> HIDE DEF K, L
<1>4. Bound(L, R, t)
  <2> USE <1>1, <1>2 DEF Bound
  <2>1. DOMAIN t = {L[n] : n \in R}
    OBVIOUS
  <2>2. ASSUME NEW n \in R PROVE t[L[n]] \in R /\ L[t[L[n]]] = L[n] /\ t[L[n]] <= n
    <3>1. L[n] = K[n] /\ t[K[n]] \in R /\ K[t[K[n]]] = K[n] /\ t[K[n]] <= n
      OBVIOUS
    <3> QED
      BY <3>1
  <2> QED
    BY <2>1, <2>2
<1> QED
  BY <1>2, <1>3, <1>4 DEF Booked, L

\* ... or registered under its key, ...
LEMMA BindBooks ==
  ASSUME NEW s, NEW v, NEW m \in Nat, Booked(s, v, m, symbols),
         NEW r, NEW w, KeysNow(r, w) = KeysNow(s, v),
         NEW p \in 1..m, Unbound(r) = Unbound(s) \ {p}, p \in Unbound(s),
         \A n \in p + 1..m : KeysNow(s, v)[n] # KeysNow(s, v)[p],
         add_symbol(KeysNow(s, v)[p], p), Typed(r, w), NodesOK(r, w, m)
  PROVE  Booked(r, w, m, symbols')
<1> DEFINE K == KeysNow(s, v)
           R == 1..m \ Unbound(s)
           P == R \union {p}
           t == symbols
           u == symbols'
<1>1. Len(K) = m /\ Bound(K, R, t) /\ \A n \in p + 1..m : K[n] # K[p]
  BY DEF Booked
<1>2. u = [k \in DOMAIN t \union {K[p]} |-> IF k \in DOMAIN t THEN t[k] ELSE p]
  BY DEF add_symbol
<1>3. 1..m \ Unbound(r) = P /\ p \in P /\ p \notin R /\ R \subseteq 1..m
  OBVIOUS
<1>4. KeysNow(r, w) = K
  OBVIOUS
<1> HIDE DEF K, R, t, u
<1>5. DOMAIN t = {K[n] : n \in R}
      /\ \A n \in R : t[K[n]] \in R /\ K[t[K[n]]] = K[n] /\ t[K[n]] <= n
  BY <1>1 DEF Bound
<1>6. DOMAIN u = {K[n] : n \in P}
  BY <1>2, <1>5
<1>7. ASSUME NEW n \in P PROVE u[K[n]] \in P /\ K[u[K[n]]] = K[n] /\ u[K[n]] <= n
  <2>1. CASE n \in R
    BY <1>2, <1>5, <2>1
  <2>2. CASE n = p /\ K[p] \in DOMAIN t
    <3>1. PICK k \in R : K[k] = K[p]
      BY <1>5, <2>2
    <3>2. k <= p
      <4>1. k \in 1..m /\ k \notin p + 1..m
        BY <1>1, <1>3, <3>1
      <4> QED
        BY <4>1
    <3>3. u[K[p]] = t[K[k]] /\ t[K[k]] \in R /\ K[t[K[k]]] = K[k] /\ t[K[k]] <= k
      BY <1>2, <1>5, <2>2, <3>1
    <3>4. t[K[k]] \in 1..m /\ k \in 1..m
      BY <1>3, <3>3
    <3> QED
      BY <2>2, <3>1, <3>2, <3>3, <3>4
  <2>3. CASE n = p /\ K[p] \notin DOMAIN t
    BY <1>2, <2>3
  <2> QED
    BY <2>1, <2>2, <2>3
<1>8. Bound(K, P, u)
  BY <1>6, <1>7 DEF Bound
<1> QED
  BY <1>1, <1>3, <1>4, <1>8 DEF Booked, u

\* ... or nothing happens to them.
LEMMA KeptBooks ==
  ASSUME NEW s, NEW v, NEW m, NEW t, Booked(s, v, m, t),
         NEW r, NEW w, KeysNow(r, w) = KeysNow(s, v), Unbound(r) = Unbound(s),
         Typed(r, w), NodesOK(r, w, m)
  PROVE  Booked(r, w, m, t)
  BY DEF Booked

\* Frames that are the same to the books.
Alike(f, g) ==
  /\ f.at \in Declares <=> g.at \in Declares
  /\ InFun(f) <=> InFun(g)
  /\ f.at \in Declares \/ InFun(f) => f.name = g.name /\ f.node = g.node
  /\ InFun(f) => f.params = g.params /\ f.nodes = g.nodes

\* Where s has no third frame of a declaration, and nothing returned to a function.
NoInner(s, v) ==
  /\ Len(s) > 2 => Bare(s[3])
  /\ Len(s) = 2 /\ s[2].at \in {"stmt", "got_param"} => LocalKey(s[2].name, v) = <<>>

\* Lengths.
LEMMA Longer ==
  ASSUME NEW n \in Nat
  PROVE  /\ n > 2 => n # 1 /\ n # 2
         /\ n > 1 /\ ~(n > 2) => n = 2 /\ n # 1
         /\ n >= 2 <=> n > 1
         /\ n >= 3 <=> n > 2
         /\ \A i \in Nat : n < i <=> ~(n >= i)
  OBVIOUS

\* What the third frame and the value add.
LEMMA InnerLong ==
  ASSUME NEW s, NEW v, Len(s) \in Nat, Len(s) > 2
  PROVE  InnerKeys(s, v) = IF InFun(s[2]) /\ s[3].at \in Declares
                           THEN <<s[2].name \o s[3].name>> ELSE <<>>
<1>1. Len(s) # 1 /\ Len(s) # 2
  BY Longer
<1> QED
  BY <1>1, Zenon DEF InnerKeys

\* Nothing inside the open declaration has a key yet.
LEMMA InnerNone ==
  ASSUME NEW s, NEW v, Len(s) \in Nat, Len(s) > 1, NoInner(s, v)
  PROVE  InnerKeys(s, v) = <<>>
<1>1. CASE Len(s) > 2
  BY <1>1, InnerLong, Zenon DEF NoInner, Bare
<1>2. CASE ~(Len(s) > 2)
  <2>1. Len(s) = 2 /\ Len(s) # 1
    BY <1>2, Longer
  <2> QED
    BY <2>1, Zenon DEF InnerKeys, NoInner
<1> QED
  BY <1>1, <1>2

\* Frames for one declaration have one node.
LEMMA SameNode ==
  ASSUME NEW s, NEW r, NEW i,
         \/ Len(s) >= i /\ Len(r) >= i /\ Alike(s[i], r[i])
         \/ (Len(s) >= i => Bare(s[i])) /\ (Len(r) >= i => Bare(r[i])),
         i \in Nat, Len(s) \in Nat, Len(r) \in Nat
  PROVE  NodeAt(r, i) = NodeAt(s, i)
<1>1. (Len(s) < i <=> ~(Len(s) >= i)) /\ (Len(r) < i <=> ~(Len(r) >= i))
  BY Longer
<1> QED
  BY <1>1, Zenon DEF NodeAt, Alike, Bare

\* The books stay as they are when the frames stand for the same declarations.
LEMMA AlikeBooks ==
  ASSUME NEW s, NEW v, NEW m, NEW t, Booked(s, v, m, t), Len(s) \in Nat, Len(s) > 1,
         NEW r, NEW w, Len(r) \in Nat, Len(r) > 1,
         KeysOf(r[1].nodes) = KeysOf(s[1].nodes), Alike(s[2], r[2]),
         \/ Len(s) > 2 /\ Len(r) > 2 /\ Alike(s[3], r[3])
         \/ NoInner(s, v) /\ NoInner(r, w)
  PROVE  Booked(r, w, m, t)
<1>1. OpenKeys(r, w) = OpenKeys(s, v)
  BY DEF OpenKeys, Alike
<1>2. InnerKeys(r, w) = InnerKeys(s, v)
  <2>1. CASE Len(s) > 2 /\ Len(r) > 2 /\ Alike(s[3], r[3])
    <3>1. /\ InnerKeys(s, v) = IF InFun(s[2]) /\ s[3].at \in Declares
                              THEN <<s[2].name \o s[3].name>> ELSE <<>>
          /\ InnerKeys(r, w) = IF InFun(r[2]) /\ r[3].at \in Declares
                              THEN <<r[2].name \o r[3].name>> ELSE <<>>
      BY <2>1, InnerLong
    <3>2. /\ InFun(s[2]) /\ s[3].at \in Declares <=> InFun(r[2]) /\ r[3].at \in Declares
          /\ InFun(s[2]) /\ s[3].at \in Declares => s[2].name = r[2].name /\ s[3].name = r[3].name
      BY <2>1, Zenon DEF Alike
    <3>3. CASE InFun(s[2]) /\ s[3].at \in Declares
      <4>1. InnerKeys(s, v) = <<s[2].name \o s[3].name>>
        BY <3>1, <3>3, Zenon
      <4>2. InnerKeys(r, w) = <<r[2].name \o r[3].name>>
        BY <3>1, <3>2, <3>3, Zenon
      <4> QED
        BY <3>2, <3>3, <4>1, <4>2, Zenon
    <3>4. CASE ~(InFun(s[2]) /\ s[3].at \in Declares)
      BY <3>1, <3>2, <3>4, Zenon
    <3> QED
      BY <3>3, <3>4
  <2>2. CASE NoInner(s, v) /\ NoInner(r, w)
    BY <2>2, InnerNone
  <2> QED
    BY <2>1, <2>2
<1>3. KeysNow(r, w) = KeysNow(s, v)
  BY <1>1, <1>2 DEF KeysNow
<1>4. Unbound(r) = Unbound(s)
  <2>1. NodeAt(r, 2) = NodeAt(s, 2)
    <3>1. Len(s) >= 2 /\ Len(r) >= 2 /\ 2 \in Nat
      BY Longer
    <3> QED
      BY <3>1, SameNode, Zenon
  <2>2. NodeAt(r, 3) = NodeAt(s, 3)
    <3>1. (Len(s) >= 3 <=> Len(s) > 2) /\ (Len(r) >= 3 <=> Len(r) > 2) /\ 3 \in Nat
      BY Longer
    <3> QED
      BY <3>1, SameNode, Zenon DEF NoInner
  <2> QED
    BY <2>1, <2>2 DEF Unbound
<1>5. Typed(r, w)
  BY <1>1, <1>2 DEF Booked, Typed, Alike
<1>6. NodesOK(r, w, m)
  BY <1>3 DEF Booked, NodesOK, Alike, NoInner, Bare
<1> QED
  BY <1>3, <1>4, <1>5, <1>6, KeptBooks

-----------------------------------------------------------------------------
(* What is open while the file may still be accepted. *)

\* A step of the parser that keeps all the facts.
Good == (\E t : Piece(Top, t) /\ Becomes(t)) /\ TopOK' /\ Booking'

\* Which frames are open: the file, at most one declaration of it, and in a
\* function at most one more.
LEMMA Structure ==
  ASSUME Sure, Live
  PROVE  /\ Len(calls) \in Nat \ {0} /\ Top = calls[Len(calls)]
         /\ calls[1].at \in {"module", "declared"}
         /\ Len(calls) > 1 =>
              /\ calls[1].at = "declared"
              /\ calls[2].at \in FunPlaces \union {"decl", "fun"} \union Declares
         /\ Len(calls) > 2 =>
              /\ calls[3].at \in Deep \union {"decl", "fun", "param"} \union Declares
              /\ calls[3].at \notin Deep => calls[2].at \in {"stmt", "got_param"}
              /\ calls[2].at = "got_param" => calls[3].at \in {"param"} \union Declares
         /\ Len(calls) > 3 => Top.at \in Deep
<1> DEFINE n == Len(calls)
<1>1. /\ n \in Nat \ {0} /\ Top = calls[n]
      /\ calls[1].at \in Roots /\ \A i \in 2..n : calls[i].at \notin Roots
  BY TopFacts DEF Sure, IInv, CallsOK
<1>2. \A i \in 2..n : Calls(calls[i - 1].at, calls[i].at)
  BY DEF Sure, Shape
<1>3. calls[1].at # "file" /\ \A i \in 3..n : calls[i].at \notin FunPlaces
  BY DEF Live, InFun
<1> HIDE DEF n
<1>4. calls[1].at \in {"module", "declared"}
  BY <1>1, <1>3 DEF Roots
<1>5. ASSUME n > 1
      PROVE  /\ calls[1].at = "declared"
             /\ calls[2].at \in FunPlaces \union {"decl", "fun"} \union Declares
  <2>1. 2 \in 2..n /\ 2 - 1 = 1
    BY <1>1, <1>5
  <2>2. Calls(calls[1].at, calls[2].at)
    BY <1>2, <2>1
  <2> QED
    BY <1>4, <2>2 DEF Calls
<1>6. ASSUME n > 2
      PROVE  /\ calls[3].at \in Deep \union {"decl", "fun", "param"} \union Declares
             /\ calls[3].at \notin Deep => calls[2].at \in {"stmt", "got_param"}
             /\ calls[2].at = "got_param" => calls[3].at \in {"param"} \union Declares
  <2>1. 3 \in 2..n /\ 3 - 1 = 2 /\ 2 \in 2..n /\ 3 \in 3..n
    BY <1>1, <1>6
  <2>2. Calls(calls[2].at, calls[3].at) /\ calls[2].at \notin Roots /\ calls[3].at \notin FunPlaces
    BY <1>1, <1>2, <1>3, <2>1
  <2>3. n > 1
    BY <1>1, <1>6
  <2>4. calls[2].at \in FunPlaces \union {"decl", "fun"} \union Declares
    BY <1>5, <2>3
  <2> QED
    BY <2>2, <2>4 DEF Calls, Deep, Roots, Declares, FunPlaces
<1>7. ASSUME n > 3 PROVE Top.at \in Deep
  <2>1. n \in 2..n /\ n - 1 \in 3..n /\ n - 1 \in 2..n
    BY <1>1, <1>7
  <2>2. /\ Calls(calls[n - 1].at, calls[n].at)
        /\ calls[n - 1].at \notin Roots /\ calls[n - 1].at \notin FunPlaces
    BY <1>1, <1>2, <1>3, <2>1
  <2> QED
    BY <1>1, <2>2 DEF Calls, Deep, Roots, FunPlaces
<1> QED
  BY <1>1, <1>4, <1>5, <1>6, <1>7 DEF n

\* What is accepted after a step may have been accepted before it: a function
\* that was opened in another one ends before a token that is no semicolon.
LEMMA LiveBefore ==
  ASSUME Sure, NEW t, Piece(Top, t), Becomes(t), Top.at # "file", Reads, Live',
         Closed,
         InFun(Top) => IF t = <<>> THEN cur'.idx = "end" ELSE InFun(t[1])
  PROVE  Live
<1> DEFINE n == Len(calls)
           r == calls'
<1>1. /\ n \in Nat \ {0} /\ Top = calls[n] /\ calls[1].at # "file"
      /\ \A i \in 2..n : calls[i].at \notin Roots
  BY TopFacts DEF Sure, IInv, CallsOK
<1>2. /\ Replaced(calls, t, r) /\ Len(t) \in Nat /\ IsSequence(t)
      /\ t = <<>> => Top' = calls[n - 1] /\ Calls(Top'.at, Top.at)
  BY SureFacts, PieceFacts DEF Sure, Piece
<1>3. /\ Len(r) = n - 1 + Len(t)
      /\ \A i \in 1..n - 1 : r[i] = calls[i]
      /\ \A i \in 1..Len(t) : r[n - 1 + i] = t[i]
  BY <1>2 DEF Replaced
<1>4. \A i \in 3..Len(r) : ~InFun(r[i])
  BY DEF Live
<1>5. ~AtEnd
  BY DEF Live, Reads, AtEnd, next_token, NextTokens
<1> DEFINE k == Len(t)
           l == Len(r)
<1>6. n \in Nat \ {0} /\ k \in Nat /\ l = n - 1 + k /\ (t # <<>> <=> k > 0)
  BY <1>1, <1>2, <1>3, SequenceFacts
<1>7. /\ \A i \in 1..k : r[n - 1 + i] = t[i]
      /\ \A i \in 3..l : ~InFun(r[i])
  BY <1>3, <1>4
<1> HIDE DEF n, r, k, l
<1>8. ASSUME NEW i \in 3..n, InFun(calls[i]) PROVE FALSE
  <2>1. CASE i # n
    <3>1. i \in 1..n - 1 /\ i \in 3..l
      BY <1>6, <2>1
    <3> QED
      BY <1>3, <1>7, <1>8, <3>1
  <2>2. CASE i = n /\ t # <<>>
    <3>1. 1 \in 1..k /\ n - 1 + 1 = n /\ n \in 3..l
      BY <1>6, <2>2
    <3>2. r[n] = t[1]
      BY <1>7, <3>1
    <3> QED
      BY <1>1, <1>7, <1>8, <2>2, <3>1, <3>2
  <2>3. CASE i = n /\ t = <<>>
    <3>1. InFun(Top) /\ cur'.idx = "end"
      BY <1>1, <1>8, <2>3
    <3>2. Calls(Top'.at, Top.at) /\ Top'.at \notin Roots
      <4>1. n - 1 \in 2..n
        BY <1>6, <2>3
      <4> QED
        BY <1>1, <1>2, <2>3, <4>1
    <3>3. Top'.at = "stmt"
      BY <3>1, <3>2 DEF Calls, InFun, FunPlaces, Roots, Declares, Chains, Operands
    <3>4. cur'.idx = ";"
      BY <3>3 DEF Live, Closed
    <3> QED
      BY <3>1, <3>4, Zenon
  <2> QED
    BY <2>1, <2>2, <2>3
<1> QED
  BY <1>1, <1>5, <1>8 DEF Live, Sure, n

\* What the first three calls are after a step.
LEMMA FirstCalls ==
  ASSUME Sure, NEW t, Piece(Top, t), Becomes(t)
  PROVE  /\ Len(calls) \in Nat \ {0} /\ Len(t) \in Nat /\ (t # <<>> <=> Len(t) > 0)
         /\ Len(calls') = Len(calls) - 1 + Len(t)
         /\ Len(calls) > 1 => calls'[1] = calls[1]
         /\ Len(calls) > 2 => calls'[2] = calls[2]
         /\ Len(calls) > 3 => calls'[3] = calls[3]
         /\ Len(calls) = 1 => /\ Len(t) > 0 => calls'[1] = t[1]
                              /\ Len(t) > 1 => calls'[2] = t[2]
                              /\ Len(t) > 2 => calls'[3] = t[3]
         /\ Len(calls) = 2 => /\ Len(t) > 0 => calls'[2] = t[1]
                              /\ Len(t) > 1 => calls'[3] = t[2]
         /\ Len(calls) = 3 /\ Len(t) > 0 => calls'[3] = t[1]
<1> DEFINE n == Len(calls)
           r == calls'
<1>1. n \in Nat \ {0} /\ Replaced(calls, t, r) /\ Len(t) \in Nat /\ IsSequence(t)
  BY SureFacts, PieceFacts DEF Sure, Piece
<1>2. /\ Len(r) = n - 1 + Len(t)
      /\ \A i \in 1..n - 1 : r[i] = calls[i]
      /\ \A i \in 1..Len(t) : r[n - 1 + i] = t[i]
  BY <1>1 DEF Replaced
<1> HIDE DEF n, r
<1>3. t # <<>> <=> Len(t) > 0
  BY <1>1, SequenceFacts
<1>4. /\ n > 1 => 1 \in 1..n - 1
      /\ n > 2 => 2 \in 1..n - 1
      /\ n > 3 => 3 \in 1..n - 1
      /\ Len(t) > 0 => 1 \in 1..Len(t)
      /\ Len(t) > 1 => 2 \in 1..Len(t)
      /\ Len(t) > 2 => 3 \in 1..Len(t)
  BY <1>1
<1>5. ASSUME n = 1 PROVE \A i \in 1..Len(t) : r[i] = t[i]
  BY <1>2, <1>5
<1>6. ASSUME n = 2 PROVE /\ Len(t) > 0 => r[2] = t[1]
                         /\ Len(t) > 1 => r[3] = t[2]
  <2>1. n - 1 + 1 = 2 /\ n - 1 + 2 = 3
    BY <1>6
  <2> QED
    BY <1>2, <1>4, <2>1
<1>7. ASSUME n = 3 PROVE Len(t) > 0 => r[3] = t[1]
  <2>1. n - 1 + 1 = 3
    BY <1>7
  <2> QED
    BY <1>2, <1>4, <2>1
<1> QED
  BY <1>1, <1>2, <1>3, <1>4, <1>5, <1>6, <1>7 DEF n, r

-----------------------------------------------------------------------------
(* The books are kept by a step inside a type or an expression, ... *)

\* Inside a type or an expression no declaration is open.
LEMMA DeepPlaces ==
  /\ \A f : f.at \in Deep => Bare(f)
  /\ \A f : f.at \in {"type", "decl", "param", "unary", "operators", "fun"} => Bare(f)
  BY DEF Deep, Chains, Operands, Bare, Declares, InFun, FunPlaces

\* The frames of the declarations are below, and stay.
LEMMA DeepBooks ==
  ASSUME Sure, Live, Booking, DeepStep
  PROVE  Booked(calls', value', made', symbols')
<1> DEFINE n == Len(calls)
           r == calls'
<1>1. PICK t : Piece(Top, t) /\ Becomes(t) /\ (t # <<>> => t[1].at \in Deep)
  BY DEF DeepStep
<1>2. Booked(calls, value, made, symbols) /\ UNCHANGED <<made, symbols>>
  BY DEF Booking, DeepStep
<1>3. n \in Nat /\ n > 2 /\ Top = calls[n]
  <2>1. Top.at \in Deep /\ n \in Nat \ {0} /\ Top = calls[n]
    BY Structure DEF DeepStep
  <2>2. calls[1].at \notin Deep
    BY Structure DEF Deep, Chains, Operands
  <2>3. n > 1 => calls[2].at \notin Deep
    BY Structure DEF Deep, Chains, Operands, FunPlaces, Declares
  <2> HIDE DEF n
  <2>4. n # 1 /\ n # 2
    BY <2>1, <2>2, <2>3
  <2> QED
    BY <2>1, <2>4
<1>4. Len(r) \in Nat /\ Len(r) > 1 /\ r[1] = calls[1] /\ r[2] = calls[2]
  BY <1>1, <1>3, FirstCalls
<1>5. Alike(calls[2], r[2]) /\ KeysOf(r[1].nodes) = KeysOf(calls[1].nodes)
  BY <1>4 DEF Alike
<1>6. CASE n > 3
  <2>1. Len(r) > 2 /\ r[3] = calls[3]
    BY <1>1, <1>3, <1>6, FirstCalls
  <2>2. Alike(calls[3], r[3])
    BY <2>1 DEF Alike
  <2> QED
    BY <1>2, <1>3, <1>4, <1>5, <2>1, <2>2, AlikeBooks
<1>7. CASE ~(n > 3)
  <2>1. n = 3 /\ n # 2 /\ n > 2
    <3> HIDE DEF n
    <3> QED
      BY <1>3, <1>7
  <2>2. Bare(calls[3])
    BY <1>3, <2>1, DeepPlaces DEF DeepStep
  <2>3. NoInner(calls, value)
    BY <2>1, <2>2 DEF NoInner
  <2>4. NoInner(r, value')
    <3>1. CASE t = <<>>
      <4>1. Len(r) = 2 /\ Top' = r[2] /\ Calls(Top'.at, Top.at) /\ Top.at \in Deep
        <5>1. Top' = calls[n - 1] /\ Calls(Top'.at, Top.at) /\ Top.at \in Deep
          BY <1>1, <3>1, SureFacts, PieceFacts DEF Sure, DeepStep
        <5>2. Len(r) = n - 1 + Len(t) /\ Len(t) = 0
          BY <1>1, <3>1, FirstCalls
        <5>3. Len(r) = 2 /\ n - 1 = 2
          <6> HIDE DEF n, r
          <6> QED
            BY <2>1, <5>2
        <5> QED
          BY <1>4, <5>1, <5>3
      <4>2. r[2].at # "got_param"
        BY <4>1 DEF Calls, Deep, Chains, Operands, FunPlaces, Declares
      <4>3. r[2].at = "stmt" => LocalKey(r[2].name, value') = <<>>
        BY <4>1 DEF DeepStep, LocalKey
      <4>4. ~(Len(r) > 2)
        <5> HIDE DEF r
        <5> QED
          BY <4>1
      <4> QED
        BY <4>2, <4>3, <4>4 DEF NoInner
    <3>2. CASE t # <<>>
      <4>1. Len(r) = n - 1 + Len(t) /\ Len(t) > 0 /\ Len(t) \in Nat /\ r[3] = t[1]
        BY <1>1, <2>1, <3>2, FirstCalls
      <4>3. Len(r) > 2 /\ Len(r) # 2
        <5> HIDE DEF n, r
        <5> QED
          BY <2>1, <4>1
      <4>2. Bare(r[3])
        BY <1>1, <3>2, <4>1, DeepPlaces
      <4> QED
        BY <4>2, <4>3 DEF NoInner
    <3> QED
      BY <3>1, <3>2
  <2> QED
    BY <1>2, <1>3, <1>4, <1>5, <2>3, <2>4, AlikeBooks
<1> QED
  BY <1>6, <1>7

\* A step inside a type or an expression keeps all the facts.
LEMMA DeepGood ==
  ASSUME Sure, Booking, DeepStep, Reads
  PROVE  Good
<1>1. PICK t : Piece(Top, t) /\ Becomes(t)
  BY DEF DeepStep
<1>2. ASSUME Live' PROVE Booked(calls', value', made', symbols')
  <2>1. Top.at # "file" /\ Closed /\ ~InFun(Top)
    BY DEF DeepStep, Deep, Chains, Operands, InFun, FunPlaces, Closed
  <2>2. Live
    BY <1>1, <1>2, <2>1, LiveBefore
  <2> QED
    BY <2>2, DeepBooks
<1>3. Booking'
  BY <1>2 DEF Booking
<1> QED
  BY <1>1, <1>3 DEF DeepStep, Good

-----------------------------------------------------------------------------
(* ... and by one from place to place in a function, ... *)

\* A step that goes on in the frame on top, for the same declaration.
LEMMA StayGood ==
  ASSUME Sure, Booking, Reads, UNCHANGED <<made, symbols>>,
         Top.at \notin Roots \union {"stmt", "got_param"},
         NEW t, Piece(Top, t), Becomes(t), t # <<>>, Alike(Top, t[1]),
         t[Len(t)].at \notin Roots \union Declares \union {"sum", "assign", "operators"},
         IF Len(t) > 1 THEN Bare(t[2]) ELSE t[1].at \notin {"stmt", "got_param"}
  PROVE  Good
<1> DEFINE n == Len(calls)
           r == calls'
<1>1. Top' = t[Len(t)]
  BY SureFacts, PieceFacts DEF Sure
<1>2. TopOK'
  BY <1>1, CalmTop
<1>3. ASSUME Live' PROVE Booked(r, value', made', symbols')
  <2>1. Top.at # "file" /\ Closed /\ (InFun(Top) => InFun(t[1]))
    BY DEF Roots, Closed, Alike
  <2>2. Live
    BY <1>3, <2>1, LiveBefore
  <2>3. n \in Nat \ {0} /\ Top = calls[n]
    BY <2>2, Structure
  <2>4. n > 1
    <3>1. n # 1
      BY <2>2, <2>3, Structure DEF Roots
    <3> HIDE DEF n
    <3> QED
      BY <2>3, <3>1
  <2>5. Booked(calls, value, made, symbols)
    BY <2>2 DEF Booking
  <2>6. Len(r) = n - 1 + Len(t) /\ Len(t) \in Nat /\ Len(t) > 0 /\ r[1] = calls[1]
    BY <2>4, FirstCalls
  <2>7. /\ Len(r) \in Nat /\ Len(r) > 1 /\ n \in Nat
        /\ n > 2 => Len(r) > 2 /\ (n = 3 \/ n > 3)
        /\ ~(n > 2) => n = 2 /\ (Len(r) > 2 <=> Len(t) > 1) /\ (Len(r) = 2 => ~(Len(t) > 1))
    <3> HIDE DEF n, r
    <3> QED
      BY <2>3, <2>4, <2>6
  <2>8. KeysOf(r[1].nodes) = KeysOf(calls[1].nodes)
    BY <2>6
  <2>9. CASE n > 2
    <3>1. r[2] = calls[2] /\ Alike(calls[3], r[3])
      <4>1. r[2] = calls[2]
        BY <2>9, FirstCalls
      <4>2. CASE n = 3
        BY <2>3, <2>6, <4>2, FirstCalls
      <4>3. CASE n > 3
        BY <4>3, FirstCalls DEF Alike
      <4> QED
        BY <2>7, <2>9, <4>1, <4>2, <4>3
    <3>2. Alike(calls[2], r[2])
      BY <3>1 DEF Alike
    <3> QED
      BY <2>4, <2>5, <2>7, <2>8, <2>9, <3>1, <3>2, AlikeBooks
  <2>10. CASE ~(n > 2)
    <3>1. n = 2 /\ r[2] = t[1] /\ (Len(t) > 1 => r[3] = t[2])
      BY <2>6, <2>7, <2>10, FirstCalls
    <3>2. Alike(calls[2], r[2])
      BY <2>3, <3>1
    <3>3. NoInner(calls, value)
      BY <2>3, <2>10, <3>1 DEF NoInner
    <3>4. NoInner(r, value')
      BY <2>7, <2>10, <3>1 DEF NoInner
    <3> QED
      BY <2>4, <2>5, <2>7, <2>8, <3>2, <3>3, <3>4, AlikeBooks
  <2> QED
    BY <2>9, <2>10
<1> QED
  BY <1>2, <1>3 DEF Booking, Good

\* The frame of a function at another place.
LEMMA PlaceFrame ==
  ASSUME Sure, InFun(Top), NEW p \in FunPlaces, p \in ParamPlaces => Top.at \in ParamPlaces
  PROVE  /\ [Top EXCEPT !.at = p].at = p
         /\ FieldsOK([Top EXCEPT !.at = p]) /\ After(Top.at, p)
         /\ Alike(Top, [Top EXCEPT !.at = p])
<1> DEFINE g == [Top EXCEPT !.at = p]
<1>1. "at" \in DOMAIN Top /\ FieldsOK(Top) /\ Top.at \in FunPlaces
  BY SureFacts DEF FrameOK, InFun
<1>2. /\ {"name", "node", "params", "nodes"} \subseteq DOMAIN Top
      /\ IsSequence(Top.params) /\ IsSequence(Top.nodes)
      /\ Top.at \in ParamPlaces => Top.nodes = <<>>
  BY <1>1, SureFacts DEF FrameOK, FieldsOK, InFun
<1>3. /\ DOMAIN g = DOMAIN Top /\ g.at = p /\ g.name = Top.name /\ g.node = Top.node
      /\ g.params = Top.params /\ g.nodes = Top.nodes
  BY <1>1, <1>2
<1> HIDE DEF g
<1>4. InFun(g) /\ p \notin Operands \union Declares \union {"module", "declared"}
      /\ Top.at \notin Declares
  BY <1>1, <1>3 DEF InFun, FunPlaces, Operands, Declares
<1>5. FieldsOK(g)
  BY <1>2, <1>3, <1>4 DEF FieldsOK
<1>6. Alike(Top, g)
  BY <1>3, <1>4 DEF Alike
<1>7. After(Top.at, p)
  BY <1>1, Successors
<1> QED
  BY <1>3, <1>5, <1>6, <1>7 DEF g

\* A function goes to another of its places, ...
LEMMA PlaceGoto ==
  ASSUME Sure, Booking, Reads, UNCHANGED <<made, symbols>>,
         InFun(Top), Top.at \notin {"stmt", "got_param"},
         NEW p \in FunPlaces \ {"stmt", "got_param"}, p \in ParamPlaces => Top.at \in ParamPlaces,
         GotoPlace(p)
  PROVE  Good
<1> DEFINE g == [Top EXCEPT !.at = p]
           t == <<g>>
<1>1. g.at = p /\ FieldsOK(g) /\ After(Top.at, g.at) /\ Alike(Top, g)
  BY PlaceFrame
<1>2. Becomes(t)
  BY DEF GotoPlace, Goto
<1> HIDE DEF g
<1>3. Piece(Top, t) /\ t # <<>> /\ Len(t) = 1 /\ t[1] = g /\ t[Len(t)] = g
  BY <1>1, GotoPiece
<1> HIDE DEF t
<1>4. /\ g.at \notin Roots \union Declares \union {"sum", "assign", "operators"}
      /\ Top.at \notin Roots
  BY <1>1 DEF Roots, Declares, FunPlaces, InFun
<1>5. IF Len(t) > 1 THEN Bare(t[2]) ELSE t[1].at \notin {"stmt", "got_param"}
  BY <1>1, <1>3
<1> QED
  BY <1>1, <1>2, <1>3, <1>4, <1>5, StayGood

\* ... or calls something from there.
LEMMA PlaceEnter ==
  ASSUME Sure, Booking, Reads, UNCHANGED <<made, symbols>>,
         InFun(Top), Top.at \notin {"stmt", "got_param"},
         NEW p \in FunPlaces, p \in ParamPlaces => Top.at \in ParamPlaces,
         NEW u, Callee(p, u), Enter(p, u)
  PROVE  Good
<1> DEFINE g == [Top EXCEPT !.at = p]
           t == <<g>> \o u
<1>1. g.at = p /\ FieldsOK(g) /\ After(Top.at, g.at) /\ Alike(Top, g)
  BY PlaceFrame
<1>2. Becomes(t)
  BY DEF Enter
<1> HIDE DEF g
<1>3. Entered(Top, g, t)
  <2>1. Callee(g.at, u)
    BY <1>1
  <2> QED
    BY ONLY <1>1, <2>1, EnterPiece
<1> HIDE DEF t
<1> USE DEF Entered
<1>4. /\ t[Len(t)].at \notin Roots \union Declares \union {"sum", "assign", "operators"}
      /\ Top.at \notin Roots
  BY <1>3 DEF Roots, Declares, FunPlaces, InFun
<1>5. Bare(t[2])
  <2>1. 2 \in 2..Len(t)
    BY <1>3
  <2> QED
    BY <1>3, <2>1, DeepPlaces
<1> QED
  BY <1>1, <1>2, <1>3, <1>4, <1>5, StayGood

\* These are the steps of parameters, bodies and return.
LEMMA PlaceSteps ==
  ASSUME Sure, Booking,
         \/ ParamNext \/ ParamComma \/ ParamsEnd
         \/ BodyDecl \/ BodyExpr \/ BodyReturn \/ ReturnNext
  PROVE  Good
<1>1. Reads /\ UNCHANGED <<made, symbols>>
  <2>1. QuietStep
    BY ParamSteps, BodySteps DEF Sure
  <2> QED
    BY <2>1 DEF QuietStep, ParamNext, ParamComma, ParamsEnd, BodyDecl, BodyExpr, BodyReturn,
                ReturnNext
<1>2. /\ \A f : f.at \in FunPlaces => InFun(f)
      /\ {"params", "got_param", "comma", "body", "stmt", "return", "returned"} \subseteq FunPlaces
      /\ ParamPlaces = {"params", "got_param", "comma"}
  BY DEF InFun, FunPlaces, ParamPlaces
<1>3. CASE ParamNext
  <2>1. Top.at = "params" /\ Enter("got_param", <<[at |-> "param"]>> \o TypeCall)
    BY <1>3 DEF ParamNext, At
  <2>2. Callee("got_param", <<[at |-> "param"]>> \o TypeCall)
    BY CalleesOK
  <2> QED
    BY <1>1, <1>2, <2>1, <2>2, PlaceEnter
<1>4. CASE ParamComma
  <2>1. Top.at = "comma" /\ GotoPlace("params")
    BY <1>4 DEF ParamComma, At
  <2> QED
    BY <1>1, <1>2, <2>1, PlaceGoto
<1>5. CASE ParamsEnd
  <2>1. Top.at = "params" /\ GotoPlace("body")
    BY <1>5 DEF ParamsEnd, At
  <2> QED
    BY <1>1, <1>2, <2>1, PlaceGoto
<1>6. CASE BodyDecl
  <2>1. Top.at = "body" /\ Enter("stmt", DeclCall) /\ Callee("stmt", DeclCall)
    BY <1>6, CalleesOK DEF BodyDecl, At
  <2> QED
    BY <1>1, <1>2, <2>1, PlaceEnter
<1>7. CASE BodyExpr
  <2>1. Top.at = "body" /\ Enter("stmt", ExprCall) /\ Callee("stmt", ExprCall)
    BY <1>7, CalleesOK DEF BodyExpr, At
  <2> QED
    BY <1>1, <1>2, <2>1, PlaceEnter
<1>8. CASE BodyReturn
  <2>1. Top.at = "body" /\ GotoPlace("return")
    BY <1>8 DEF BodyReturn, At
  <2> QED
    BY <1>1, <1>2, <2>1, PlaceGoto
<1>9. CASE ReturnNext
  <2>1. Top.at = "return" /\ Enter("returned", ExprCall) /\ Callee("returned", ExprCall)
    BY <1>9, CalleesOK DEF ReturnNext, At
  <2> QED
    BY <1>1, <1>2, <2>1, PlaceEnter
<1> QED
  BY <1>3, <1>4, <1>5, <1>6, <1>7, <1>8, <1>9

-----------------------------------------------------------------------------
(* Names and the contexts they are joined with. *)

\* A name is a sequence of pieces and is not empty.
LEMMA NamesType ==
  ASSUME NEW x \in Names
  PROVE  x \in Seq(STRING) /\ x # <<>>
  BY TokensAssumption DEF Names

\* The key of a variable of a function is not the name of the function.
LEMMA LocalName ==
  ASSUME NEW f \in Names, NEW x \in Names
  PROVE  f \o x \in Seq(STRING) /\ f \o x # f /\ <<>> \o x = x
<1>1. f \in Seq(STRING) /\ x \in Seq(STRING) /\ x # <<>>
  BY NamesType
<1>2. f \o x \in Seq(STRING) /\ Len(f \o x) = Len(f) + Len(x) /\ Len(f) \in Nat /\ Len(x) \in Nat
  BY <1>1, ConcatProperties
<1>3. Len(x) # 0 /\ <<>> \o x = x
  BY <1>1, EmptySeq, ConcatEmptySeq
<1>4. Len(f \o x) # Len(f)
  BY <1>2, <1>3
<1> QED
  BY <1>2, <1>3, <1>4

\* The prefix of the file, and of a function in the file.
LEMMA CurrName ==
  ASSUME NEW c, NEW C, c \in Seq(C), c[1] = FileFrame(0)
  PROVE  /\ Len(c) = 1 => ctx_currname(c) = <<>>
         /\ Len(c) = 2 /\ c[2].name \in Seq(STRING) => ctx_currname(c) = c[2].name
<1> DEFINE e == <<>>
           p == [i \in 1..1 |-> c[i].name]
           r == [i \in 1..2 |-> c[i].name]
           x == c[2].name
<1>1. c[1].name = <<>> /\ DOMAIN c = 1..Len(c)
  BY DEF FileFrame
<1>2. FlattenSeq(p) = <<>>
  <2> DEFINE z == 0
  <2>1. Len(e) = z /\ Len(p) = z + 1 /\ p[z + 1] = <<>> /\ z \in Nat
    BY <1>1
  <2>2. FlattenSeq(e) = <<>>
    BY DEF FlattenSeq
  <2>3. <<>> \o <<>> = <<>>
    OBVIOUS
  <2>4. \A i \in 1..z : p[i] = e[i]
    OBVIOUS
  <2> HIDE DEF p, e, z
  <2>5. FlattenSeq(p) = FlattenSeq(e) \o <<>>
    <3>1. Grows(e, p, z, <<>>)
      BY ONLY <2>1, <2>2, <2>3, <2>4 DEF Grows
    <3> QED
      BY ONLY <3>1, FlattenMore
  <2> QED
    BY <2>2, <2>3, <2>5
<1>3. ASSUME x \in Seq(STRING) PROVE FlattenSeq(r) = x
  <2>1. Len(p) = 1 /\ Len(r) = 1 + 1 /\ r[1 + 1] = x /\ \A i \in 1..1 : r[i] = p[i]
    OBVIOUS
  <2>2. <<>> \o x = x
    BY <1>3, ConcatEmptySeq
  <2> HIDE DEF p, r, x
  <2>3. FlattenSeq(r) = FlattenSeq(p) \o x
    <3>1. Grows(p, r, 1, x)
      BY ONLY <2>1, <2>2 DEF Grows
    <3> QED
      BY ONLY <3>1, FlattenMore
  <2> QED
    BY <1>2, <2>2, <2>3
<1>4. Len(c) = 1 => ctx_currname(c) = FlattenSeq(p)
  BY <1>1 DEF ctx_currname
<1>5. Len(c) = 2 => ctx_currname(c) = FlattenSeq(r)
  BY <1>1 DEF ctx_currname
<1> QED
  BY <1>2, <1>3, <1>4, <1>5

\* The contexts of calls that are not nested.
LEMMA Nesting ==
  ASSUME NEW s, NEW c, Follows(s, c), ~InFun(s[1])
  PROVE  /\ Len(s) = 1 => Len(c) = 1
         /\ Len(s) = 2 /\ ~InFun(s[2]) => Len(c) = 1
         /\ Len(s) = 3 /\ InFun(s[2]) /\ ~InFun(s[3]) => Len(c) = 2 /\ c[2].name = s[2].name
<1>1. OpenFuns(s, 0) = 0
  BY OpenFunsCounts
<1>2. OpenFuns(s, 0 + 1) = OpenFuns(s, 0)
  BY OpenFunsCounts
<1>3. OpenFuns(s, 1 + 1) = IF InFun(s[2]) THEN OpenFuns(s, 1) + 1 ELSE OpenFuns(s, 1)
  <2>1. 1 \in Nat /\ 1 + 1 = 2
    OBVIOUS
  <2> QED
    BY <2>1, OpenFunsCounts, Zenon
<1>4. OpenFuns(s, 2 + 1) = IF InFun(s[3]) THEN OpenFuns(s, 2) + 1 ELSE OpenFuns(s, 2)
  <2>1. 2 \in Nat /\ 2 + 1 = 3
    OBVIOUS
  <2> QED
    BY <2>1, OpenFunsCounts, Zenon
<1>5. OpenFuns(s, 1) = 0
  BY <1>1, <1>2
<1>6. /\ ~InFun(s[2]) => OpenFuns(s, 2) = 0
      /\ InFun(s[2]) => OpenFuns(s, 2) = 1
      /\ InFun(s[2]) /\ ~InFun(s[3]) => OpenFuns(s, 3) = 1
  BY <1>3, <1>4, <1>5
<1>7. /\ Len(c) = 1 + OpenFuns(s, Len(s))
      /\ \A i \in 1..Len(s) : InFun(s[i]) =>
           c[1 + OpenFuns(s, i)] = FunFrame(s[i].name, s[i].node)
  BY DEF Follows
<1>8. ASSUME Len(s) = 3, InFun(s[2]), ~InFun(s[3])
      PROVE  Len(c) = 2 /\ c[2].name = s[2].name
  <2>1. c[2] = FunFrame(s[2].name, s[2].node)
    BY <1>6, <1>7, <1>8
  <2> QED
    BY <1>6, <1>7, <1>8, <2>1 DEF FunFrame
<1> QED
  BY <1>5, <1>6, <1>7, <1>8

-----------------------------------------------------------------------------
(* The parts of Joining. *)

\* Keys joined are keys.
LEMMA JoinType ==
  ASSUME NEW a \in Names2, NEW b \in Names2
  PROVE  a \o b \in Names2 /\ Len(a \o b) = Len(a) + Len(b) /\ Len(a) \in Nat /\ Len(b) \in Nat
  BY Joining

\* The order of the joins does not matter.
LEMMA JoinAgain ==
  ASSUME NEW a \in Names2, NEW b \in Names2, NEW c \in Names2
  PROVE  (a \o b) \o c = a \o (b \o c)
<1> DEFINE S == Seq(STRING)
<1>1. a \in Seq(S) /\ b \in Seq(S) /\ c \in Seq(S)
  BY DEF Names2
<1> HIDE DEF S
<1> QED
  BY <1>1, ConcatAssociative

\* The empty sequence joined behind.
LEMMA JoinNone ==
  ASSUME NEW a \in Names2
  PROVE  a \o <<>> = a /\ <<>> \in Names2
  BY Joining

-----------------------------------------------------------------------------
(* How the books change: a declaration of the file is opened, ... *)

\* The new node is the last one, and not in the table yet.
LEMMA OpenGlobal ==
  ASSUME NEW s, NEW v, NEW m \in Nat, NEW t, Booked(s, v, m, t), Len(s) = 2, Bare(s[2]),
         NEW r, NEW w, Len(r) = 2, r[1] = s[1], r[2].node = m + 1, r[2].name \in Names,
         \/ r[2].at \in Declares
         \/ InFun(r[2]) /\ r[2].at \notin {"stmt", "got_param"}
            /\ r[2].params = <<>> /\ r[2].nodes = <<>>
  PROVE  Booked(r, w, m + 1, t)
<1> DEFINE A == KeysOf(s[1].nodes)
           x == r[2].name
           E == <<>>
<1>1. OpenKeys(s, v) = E /\ InnerKeys(s, v) = E
  BY DEF OpenKeys, InnerKeys, Bare
<1>2. A \in Names2 /\ E \in Names2 /\ <<x>> \in Names2 /\ x \in Seq(STRING)
  <2>1. x \in Seq(STRING) /\ <<>> \in Seq(STRING)
    BY NamesType
  <2> HIDE DEF x
  <2> QED
    BY <2>1, OneName DEF Booked, Typed, Names2
<1>3. r[2].at \in Declares => ~InFun(r[2])
  BY DEF Declares, InFun, FunPlaces
<1>4. InFun(r[2]) /\ r[2].at \notin Declares => /\ LocalKeys(x, r[2].params) = E
                                                /\ LocalKeys(x, r[2].nodes) = E
  BY NoKeys
<1> HIDE DEF A, x, E
<1>5. /\ E \o E = E /\ <<x>> \o E = <<x>> /\ A \o E = A
      /\ A \o (<<x>> \o E) = (A \o (E \o E)) \o <<x>>
  BY <1>2, Joining DEF E
<1>6. OpenKeys(r, w) = <<x>> /\ InnerKeys(r, w) = E
  <2>1. CASE r[2].at \in Declares
    <3>1. Len(r) # 1 /\ ~InFun(r[2])
      BY <1>3, <2>1
    <3> QED
      BY <2>1, <3>1, Zenon DEF OpenKeys, InnerKeys, x, E
  <2>2. CASE r[2].at \notin Declares
    <3>1. OpenKeys(r, w) = FunKeys(x, r[2].params, r[2].nodes) /\ InnerKeys(r, w) = E
      BY <2>2 DEF OpenKeys, InnerKeys, x, E
    <3>2. FunKeys(x, r[2].params, r[2].nodes) = <<x>> \o (E \o E)
      BY <1>4, <2>2 DEF FunKeys
    <3> QED
      BY <1>5, <3>1, <3>2
  <2> QED
    BY <2>1, <2>2
<1>7. KeysNow(s, v) = A /\ KeysNow(r, w) = A \o <<x>>
  BY <1>1, <1>5, <1>6 DEF KeysNow, A
<1>8. Unbound(s) = {} /\ Unbound(r) = {m + 1}
  <2>1. ~Bare(r[2])
    BY DEF Bare
  <2> QED
    BY <2>1 DEF Unbound, NodeAt
<1>9. Typed(r, w)
  BY <1>2, <1>4, <1>6, <1>3 DEF Typed, A, x
<1>10. NodesOK(r, w, m + 1)
  <2>1. Len(A) = m
    BY <1>7 DEF Booked
  <2>2. m + 1 + 1..m + 1 = {}
    OBVIOUS
  <2> QED
    BY <2>1, <2>2 DEF NodesOK, A
<1> QED
  BY <1>2, <1>7, <1>8, <1>9, <1>10, NewBooks

\* ... a variable of a function is opened, ...
LEMMA OpenLocal ==
  ASSUME NEW s, NEW v, NEW m \in Nat, NEW t, Booked(s, v, m, t), Len(s) = 3,
         InFun(s[2]), Bare(s[3]), s[2].name \in Names,
         NEW r, NEW w, Len(r) = 3, r[1] = s[1], r[2] = s[2],
         r[3].at \in Declares, r[3].node = m + 1, r[3].name \in Names
  PROVE  Booked(r, w, m + 1, t)
<1> DEFINE A == KeysOf(s[1].nodes)
           O == OpenKeys(s, v)
           f == s[2].name
           x == f \o r[3].name
           E == <<>>
           K == KeysNow(s, v)
<1>1. Len(s) # 1 /\ Len(s) # 2 /\ Len(r) # 1 /\ Len(r) # 2
  OBVIOUS
<1>2. InnerKeys(s, v) = E /\ InnerKeys(r, w) = <<x>> /\ OpenKeys(r, w) = O
  BY <1>1 DEF InnerKeys, OpenKeys, Bare
<1>3. x \in Seq(STRING) /\ x # f
  BY LocalName
<1>4. /\ A \in Names2 /\ O \in Names2 /\ E \in Names2
      /\ LocalKeys(f, s[2].params) \in Names2 /\ LocalKeys(f, s[2].nodes) \in Names2
      /\ Len(K) = m /\ s[2].node = Len(A) + 1
      /\ \A n \in s[2].node + 1..m : K[n] # f
  BY <1>1, <1>2 DEF Booked, Typed, NodesOK
<1>5. K = A \o (O \o E) /\ KeysNow(r, w) = A \o (O \o <<x>>)
  BY <1>2 DEF KeysNow
<1> HIDE DEF A, O, f, x, E, K
<1>6. <<x>> \in Names2
  BY <1>3, <1>4, OneName
<1>7. KeysNow(r, w) = K \o <<x>>
  <2>1. O \o E = O
    BY <1>4, JoinNone, Zenon DEF E
  <2>2. (A \o O) \o <<x>> = A \o (O \o <<x>>)
    <3> DEFINE y == <<x>>
    <3>1. A \in Names2 /\ O \in Names2 /\ y \in Names2
      BY <1>4, <1>6
    <3> HIDE DEF y
    <3>2. (A \o O) \o y = A \o (O \o y)
      BY ONLY <3>1, JoinAgain
    <3> QED
      BY <3>2 DEF y
  <2> QED
    BY <1>5, <2>1, <2>2
<1>8. K \in Names2
  BY KeysNowType DEF Booked, K
<1> DEFINE L == KeysNow(r, w)
<1>9. L[m + 1] = x /\ \A i \in 1..m : L[i] = K[i]
  BY <1>3, <1>4, <1>7, <1>8, OneName
<1>10. Len(A) \in Nat
  BY <1>4, Joining
<1> DEFINE d == s[2].node
<1>11. \A n \in d + 1..m + 1 : L[n] # f
  <2> HIDE DEF L
  <2>1. d \in Nat
    BY <1>4, <1>10
  <2> HIDE DEF d
  <2>2. \A n \in d + 1..m + 1 : n = m + 1 \/ n \in d + 1..m
    BY <2>1
  <2>3. \A n \in d + 1..m : n \in 1..m
    BY <2>1
  <2>4. \A n \in d + 1..m : K[n] # f
    BY <1>4 DEF d
  <2> QED
    BY <1>3, <1>9, <2>2, <2>3, <2>4
<1>12. Unbound(r) = Unbound(s) \union {m + 1}
  <2>1. ~Bare(r[3])
    BY DEF Bare
  <2> QED
    BY <2>1 DEF Unbound, NodeAt
<1>13. Typed(r, w)
  BY <1>2, <1>4, <1>6 DEF Typed, A, f
<1>14. NodesOK(r, w, m + 1)
  <2>1. r[2].at \notin Declares
    BY DEF InFun, FunPlaces, Declares
  <2> QED
    BY <1>4, <1>11, <2>1 DEF NodesOK, A, f
<1> QED
  BY <1>3, <1>7, <1>12, <1>13, <1>14, NewBooks DEF K

\* ... the variable is registered and returned, ...
LEMMA CloseLocal ==
  ASSUME NEW s, NEW v, NEW m \in Nat, Booked(s, v, m, symbols), Len(s) = 3,
         InFun(s[2]), s[3].at \in Declares, s[2].name \in Names, s[3].name \in Names,
         add_symbol(s[2].name \o s[3].name, s[3].node),
         NEW r, NEW w, Len(r) = 2, r[1] = s[1], r[2] = s[2],
         s[2].at \in {"stmt", "got_param"}, w.op = "var", w.name = s[3].name
  PROVE  Booked(r, w, m, symbols')
<1> DEFINE A == KeysOf(s[1].nodes)
           O == OpenKeys(s, v)
           f == s[2].name
           x == f \o s[3].name
           K == KeysNow(s, v)
           d == s[2].node
           B == LocalKeys(f, s[2].params)
           D == LocalKeys(f, s[2].nodes)
<1>1. Len(s) # 1 /\ Len(s) # 2 /\ Len(r) # 1
  OBVIOUS
<1>2. /\ InnerKeys(s, v) = <<x>> /\ InnerKeys(r, w) = <<x>> /\ OpenKeys(r, w) = O
      /\ O = <<f>> \o (B \o D)
  BY <1>1 DEF InnerKeys, OpenKeys, LocalKey, FunKeys
<1>3. x \in Seq(STRING) /\ f \in Seq(STRING)
  BY LocalName, NamesType
<1>4. /\ A \in Names2 /\ O \in Names2 /\ B \in Names2 /\ D \in Names2
      /\ Len(K) = m /\ d = Len(A) + 1 /\ s[3].node = m
      /\ \A n \in d + 1..m : K[n] # f
  BY <1>1 DEF Booked, Typed, NodesOK
<1>5. K = A \o (O \o <<x>>) /\ KeysNow(r, w) = K
  BY <1>2 DEF KeysNow
<1> HIDE DEF A, O, f, x, K, d, B, D
<1>6. <<x>> \in Names2 /\ <<f>> \in Names2 /\ Len(<<f>>) = 1
  BY <1>3, <1>4, OneName
<1>7. K[m] = x /\ d \in 1..m - 1 /\ m \in 1..m
  <2> DEFINE AO == A \o O
  <2>1. K = AO \o <<x>> /\ AO \in Names2 /\ Len(AO) = Len(A) + Len(O) /\ Len(A) \in Nat
    <3>1. (A \o O) \o <<x>> = A \o (O \o <<x>>)
      <4> DEFINE X == <<x>>
      <4>1. A \in Names2 /\ O \in Names2 /\ X \in Names2
        BY <1>4, <1>6
      <4> HIDE DEF X
      <4>2. (A \o O) \o X = A \o (O \o X)
        BY <4>1, JoinAgain
      <4> QED
        BY <4>2 DEF X
    <3>2. /\ A \o O \in Names2 /\ Len(A \o O) = Len(A) + Len(O) /\ Len(A) \in Nat
      BY <1>4, JoinType
    <3> QED
      BY <1>5, <3>1, <3>2
  <2>2. Len(O) = 1 + Len(B \o D) /\ Len(B \o D) \in Nat
    <3>1. B \o D \in Names2
      BY <1>4, Joining
    <3> QED
      BY <1>2, <1>6, <3>1, Joining
  <2> HIDE DEF AO
  <2>3. Len(K) = Len(AO) + 1 /\ K[Len(AO) + 1] = x
    BY <1>3, <2>1, OneName
  <2> DEFINE a == Len(A)
             o == Len(O)
             ao == Len(AO)
             b == Len(B \o D)
  <2>4. /\ ao = a + o /\ a \in Nat /\ o = 1 + b /\ b \in Nat /\ m = ao + 1 /\ d = a + 1
        /\ K[ao + 1] = x
    BY <1>4, <2>1, <2>2, <2>3
  <2> HIDE DEF a, o, ao, b
  <2> QED
    BY <2>4
<1>8. Unbound(s) = {d, m} /\ Unbound(r) = {d}
  <2>1. ~Bare(s[2]) /\ ~Bare(s[3])
    BY DEF Bare
  <2>2. NodeAt(s, 2) = {d} /\ NodeAt(r, 2) = {d} /\ NodeAt(s, 3) = {m} /\ NodeAt(r, 3) = {}
    BY <1>4, <2>1 DEF NodeAt, d
  <2> QED
    BY <2>2 DEF Unbound
<1>9. Unbound(r) = Unbound(s) \ {m} /\ m \in Unbound(s)
  BY <1>7, <1>8
<1>10. Typed(r, w)
  BY <1>2, <1>4, <1>6 DEF Typed, A, f, B, D
<1>11. NodesOK(r, w, m)
  <2>1. r[2].at \notin Declares
    BY DEF InFun, FunPlaces, Declares
  <2> QED
    BY <1>4, <1>5, <2>1 DEF NodesOK, A, f, d
<1>12. \A n \in m + 1..m : K[n] # K[m]
  OBVIOUS
<1>13. add_symbol(K[m], m)
  BY <1>4, <1>7 DEF x, f
<1> QED
  BY <1>5, <1>7, <1>9, <1>10, <1>11, <1>12, <1>13, BindBooks DEF K

\* ... a variable of the file is, ...
LEMMA CloseGlobal ==
  ASSUME NEW s, NEW v, NEW m \in Nat, Booked(s, v, m, symbols), Len(s) = 2,
         s[2].at \in Declares, s[2].name \in Names, add_symbol(s[2].name, s[2].node),
         NEW r, NEW w, Len(r) = 1, r[1] = s[1], s[1].at = "declared",
         w.op = "var", w.name = s[2].name
  PROVE  Booked(r, w, m, symbols')
<1> DEFINE A == KeysOf(s[1].nodes)
           x == s[2].name
           E == <<>>
           K == KeysNow(s, v)
<1>1. ~InFun(s[2]) /\ Len(s) # 1
  BY DEF Declares, InFun, FunPlaces
<1>2. /\ OpenKeys(s, v) = <<x>> /\ InnerKeys(s, v) = E
      /\ OpenKeys(r, w) = <<x>> /\ InnerKeys(r, w) = E
  BY <1>1 DEF InnerKeys, OpenKeys, Keys
<1>3. x \in Seq(STRING)
  BY NamesType
<1>4. /\ A \in Names2 /\ E \in Names2 /\ <<x>> \in Names2
      /\ Len(K) = m /\ s[2].node = m
  BY <1>1, <1>2 DEF Booked, Typed, NodesOK
<1>5. K = A \o (<<x>> \o E) /\ KeysNow(r, w) = K
  BY <1>2 DEF KeysNow
<1> HIDE DEF A, x, K, E
<1>6. K[m] = x /\ m \in 1..m
  <2>1. K = A \o <<x>> /\ Len(A) \in Nat
    BY <1>4, <1>5, Joining DEF E
  <2>2. Len(K) = Len(A) + 1 /\ K[Len(A) + 1] = x
    BY <1>3, <1>4, <2>1, OneName
  <2> QED
    BY <1>4, <2>1, <2>2
<1>7. Unbound(r) = {} /\ Unbound(s) = {m}
  <2>1. ~Bare(s[2])
    BY DEF Bare
  <2>2. NodeAt(s, 2) = {m} /\ NodeAt(r, 2) = {} /\ NodeAt(s, 3) = {} /\ NodeAt(r, 3) = {}
    BY <1>4, <2>1 DEF NodeAt
  <2> QED
    BY <2>2 DEF Unbound
<1>8. Unbound(r) = Unbound(s) \ {m} /\ m \in Unbound(s)
  BY <1>7
<1>9. Typed(r, w)
  BY <1>2, <1>4 DEF Typed, A
<1>10. NodesOK(r, w, m)
  BY DEF NodesOK
<1>11. \A n \in m + 1..m : K[n] # K[m]
  OBVIOUS
<1>12. add_symbol(K[m], m)
  BY <1>4, <1>6 DEF x
<1> QED
  BY <1>5, <1>6, <1>8, <1>9, <1>10, <1>11, <1>12, BindBooks DEF K

\* ... and a function is.
LEMMA CloseFunction ==
  ASSUME NEW s, NEW v, NEW m \in Nat, Booked(s, v, m, symbols), Len(s) = 2,
         InFun(s[2]), s[2].at \notin {"stmt", "got_param"}, s[2].name \in Names,
         add_symbol(s[2].name, s[2].node),
         NEW r, NEW w, Len(r) = 1, r[1] = s[1], s[1].at = "declared",
         w.op # "var", w.name = s[2].name, w.params = s[2].params, w.body = s[2].nodes
  PROVE  Booked(r, w, m, symbols')
<1> DEFINE A == KeysOf(s[1].nodes)
           O == OpenKeys(s, v)
           f == s[2].name
           E == <<>>
           K == KeysNow(s, v)
           d == s[2].node
           B == LocalKeys(f, s[2].params)
           D == LocalKeys(f, s[2].nodes)
<1>1. Len(s) # 1
  OBVIOUS
<1>2. /\ InnerKeys(s, v) = E /\ InnerKeys(r, w) = E /\ OpenKeys(r, w) = O
      /\ O = <<f>> \o (B \o D)
  BY <1>1 DEF InnerKeys, OpenKeys, Keys, FunKeys
<1>3. f \in Seq(STRING)
  BY NamesType
<1>4. /\ A \in Names2 /\ O \in Names2 /\ B \in Names2 /\ D \in Names2 /\ E \in Names2
      /\ Len(K) = m /\ d = Len(A) + 1
      /\ \A n \in d + 1..m : K[n] # f
  BY <1>1, <1>2 DEF Booked, Typed, NodesOK
<1>5. K = A \o (O \o E) /\ KeysNow(r, w) = K
  BY <1>2 DEF KeysNow
<1> HIDE DEF A, O, f, K, d, B, D, E
<1>6. K[d] = f /\ d \in 1..m
  <2> DEFINE Z == B \o D
             Y == A \o <<f>>
  <2>1. Z \in Names2 /\ <<f>> \in Names2
    BY <1>3, <1>4, Joining, OneName
  <2>2. K = Y \o Z /\ Y \in Names2
    <3>1. O \o E = O /\ O = <<f>> \o Z /\ Y \in Names2
      BY <1>2, <1>4, <2>1, JoinNone, JoinType DEF E
    <3>2. A \o (<<f>> \o Z) = Y \o Z
      <4> DEFINE X == <<f>>
      <4>1. A \in Names2 /\ X \in Names2 /\ Z \in Names2 /\ Y = A \o X
        BY <1>4, <2>1
      <4> HIDE DEF Z, X, Y
      <4>2. (A \o X) \o Z = A \o (X \o Z)
        BY <4>1, JoinAgain
      <4> QED
        BY <4>1, <4>2 DEF X
    <3> QED
      BY <1>5, <3>1, <3>2
  <2>3. Len(Y) = Len(A) + 1 /\ Y[Len(A) + 1] = f /\ Len(A) \in Nat
    BY <1>3, <1>4, Joining, OneName
  <2> HIDE DEF Z, Y
  <2>4. Len(K) = Len(Y) + Len(Z) /\ Len(Z) \in Nat /\ \A i \in 1..Len(Y) : K[i] = Y[i]
    BY <2>1, <2>2, Joining
  <2> DEFINE a == Len(A)
             z == Len(Z)
             y == Len(Y)
  <2>5. /\ y = a + 1 /\ a \in Nat /\ m = y + z /\ z \in Nat /\ d = a + 1 /\ Y[d] = f
        /\ \A i \in 1..y : K[i] = Y[i]
    BY <1>4, <2>3, <2>4
  <2> HIDE DEF a, z, y
  <2>6. d \in 1..y /\ d \in 1..m
    BY <2>5
  <2> QED
    BY <2>5, <2>6
<1>7. Unbound(r) = {} /\ Unbound(s) = {d}
  <2>1. ~Bare(s[2])
    BY DEF Bare
  <2>2. NodeAt(s, 2) = {d} /\ NodeAt(r, 2) = {} /\ NodeAt(s, 3) = {} /\ NodeAt(r, 3) = {}
    BY <2>1 DEF NodeAt, d
  <2> QED
    BY <2>2 DEF Unbound
<1>8. Unbound(r) = Unbound(s) \ {d} /\ d \in Unbound(s)
  BY <1>7
<1>9. Typed(r, w)
  BY <1>2, <1>4 DEF Typed, A
<1>10. NodesOK(r, w, m)
  BY DEF NodesOK
<1>11. \A n \in d + 1..m : K[n] # K[d]
  BY <1>4, <1>6
<1>12. add_symbol(K[d], d)
  BY <1>6 DEF f, d
<1> QED
  BY <1>5, <1>6, <1>8, <1>9, <1>10, <1>11, <1>12, BindBooks DEF K

\* A parameter or a statement joins those of its function.
LEMMA JoinInner ==
  ASSUME NEW s, NEW v, NEW m \in Nat, NEW t, Booked(s, v, m, t), Len(s) = 2, InFun(s[2]),
         s[2].name \in Names, NEW x, LocalKey(s[2].name, x) = InnerKeys(s, v),
         NEW r, NEW w, Len(r) = 2, r[1] = s[1], InFun(r[2]), r[2].at \notin {"stmt", "got_param"},
         r[2].name = s[2].name, r[2].node = s[2].node,
         \/ /\ IsSequence(s[2].params) /\ r[2].params = Append(s[2].params, x)
            /\ s[2].nodes = <<>> /\ r[2].nodes = <<>>
         \/ /\ IsSequence(s[2].nodes) /\ r[2].nodes = Append(s[2].nodes, x)
            /\ r[2].params = s[2].params
  PROVE  Booked(r, w, m, t)
<1> DEFINE A == KeysOf(s[1].nodes)
           f == s[2].name
           E == <<>>
           I == InnerKeys(s, v)
           B == LocalKeys(f, s[2].params)
           D == LocalKeys(f, s[2].nodes)
           F == LocalKeys(f, r[2].params)
           G == LocalKeys(f, r[2].nodes)
<1>1. /\ Len(s) # 1 /\ Len(r) # 1 /\ Len(s) > 1
      /\ InFun(s[2]) /\ InFun(r[2]) /\ r[2].name = s[2].name
  <2>1. Len(s) = 2 /\ Len(r) = 2
    BY Zenon
  <2>2. Len(s) # 1 /\ Len(r) # 1 /\ Len(s) > 1
    BY ONLY <2>1
  <2> QED
    BY <2>2, Zenon
<1>2. /\ InnerKeys(r, w) = E /\ OpenKeys(s, v) = <<f>> \o (B \o D)
      /\ OpenKeys(r, w) = <<f>> \o (F \o G)
  <2>1. InnerKeys(r, w) = E
    BY Zenon DEF InnerKeys
  <2>2. OpenKeys(s, v) = <<f>> \o (B \o D)
    BY ONLY <1>1, Zenon DEF OpenKeys, FunKeys
  <2>3. OpenKeys(r, w) = <<f>> \o (F \o G)
    BY ONLY <1>1, Zenon DEF OpenKeys, FunKeys
  <2> QED
    BY <2>1, <2>2, <2>3
<1>3. /\ A \in Names2 /\ <<f>> \o (B \o D) \in Names2 /\ B \in Names2 /\ D \in Names2
      /\ I \in Names2
  <2>1. Typed(s, v)
    BY Zenon DEF Booked
  <2>2. A \in Names2 /\ OpenKeys(s, v) \in Names2 /\ I \in Names2 /\ B \in Names2 /\ D \in Names2
    BY ONLY <1>1, <2>1, Zenon DEF Typed
  <2> QED
    BY <1>2, <2>2
<1>4. \/ F = B \o I /\ D = E /\ G = E
      \/ F = B /\ G = D \o I
  <2>1. CASE /\ IsSequence(s[2].params) /\ r[2].params = Append(s[2].params, x)
             /\ s[2].nodes = <<>> /\ r[2].nodes = <<>>
    <3>1. LocalKeys(f, Append(s[2].params, x)) = B \o LocalKey(f, x)
      <4>1. LocalKey(f, x) \in Names2 /\ IsSequence(s[2].params)
        BY <1>3, <2>1, Zenon
      <4> QED
        BY ONLY <4>1, MoreLocals
    <3>2. LocalKeys(f, <<>>) = <<>> /\ LocalKey(f, x) = I
      BY NoKeys, Zenon
    <3> QED
      BY ONLY <2>1, <3>1, <3>2, Zenon
  <2>2. CASE /\ IsSequence(s[2].nodes) /\ r[2].nodes = Append(s[2].nodes, x)
             /\ r[2].params = s[2].params
    <3>1. LocalKeys(f, Append(s[2].nodes, x)) = D \o LocalKey(f, x)
      <4>1. LocalKey(f, x) \in Names2 /\ IsSequence(s[2].nodes)
        BY <1>3, <2>2, Zenon
      <4> QED
        BY ONLY <4>1, MoreLocals
    <3>2. LocalKey(f, x) = I
      BY Zenon
    <3> QED
      BY ONLY <2>2, <3>1, <3>2, Zenon
  <2> QED
    BY <2>1, <2>2
<1>5. /\ OpenKeys(r, w) = <<f>> \o (F \o G)
      /\ KeysNow(s, v) = A \o ((<<f>> \o (B \o D)) \o I)
      /\ KeysNow(r, w) = A \o ((<<f>> \o (F \o G)) \o E)
  BY <1>2 DEF KeysNow
<1>6. <<f>> \in Names2
  BY <1>3, NamesType, OneName
<1> HIDE DEF A, f, I, B, D, F, G, E
<1>7. F \in Names2 /\ G \in Names2 /\ E \in Names2
  <2>1. B \o I \in Names2 /\ D \o I \in Names2 /\ E \in Names2
    BY <1>3, JoinType, JoinNone DEF E
  <2> QED
    BY <1>3, <1>4, <2>1
<1>8. (<<f>> \o (B \o D)) \o I = (<<f>> \o (F \o G)) \o E
  <2>1. /\ B \o D \in Names2 /\ F \o G \in Names2 /\ <<f>> \o (F \o G) \in Names2
        /\ (<<f>> \o (B \o D)) \o I = <<f>> \o ((B \o D) \o I)
        /\ (<<f>> \o (F \o G)) \o E = <<f>> \o (F \o G)
    <3>1. B \o D \in Names2 /\ F \o G \in Names2
      BY <1>3, <1>7, JoinType
    <3>2. <<f>> \o (F \o G) \in Names2
      BY <1>6, <3>1, JoinType
    <3>3. (<<f>> \o (B \o D)) \o I = <<f>> \o ((B \o D) \o I)
      <4> DEFINE x1 == <<f>>
                 y1 == B \o D
      <4>1. x1 \in Names2 /\ y1 \in Names2 /\ I \in Names2
        BY <1>3, <1>6, <3>1
      <4> HIDE DEF x1, y1
      <4>2. (x1 \o y1) \o I = x1 \o (y1 \o I)
        BY <4>1, JoinAgain
      <4> QED
        BY <4>2 DEF x1, y1
    <3>4. (<<f>> \o (F \o G)) \o E = <<f>> \o (F \o G)
      BY <3>2, JoinNone, Zenon DEF E
    <3> QED
      BY <3>1, <3>2, <3>3, <3>4
  <2>2. (B \o D) \o I = F \o G
    <3>1. CASE F = B \o I /\ D = E /\ G = E
      <4>1. B \o I \in Names2
        BY <1>3, JoinType, Zenon
      <4>2. B \o D = B
        BY <1>3, <3>1, JoinNone, Zenon DEF E
      <4>3. (B \o I) \o E = B \o I
        BY <4>1, JoinNone, Zenon DEF E
      <4> QED
        BY <3>1, <4>2, <4>3, Zenon
    <3>2. CASE F = B /\ G = D \o I
      <4>1. B \in Names2 /\ D \in Names2 /\ I \in Names2
        BY <1>3
      <4>2. (B \o D) \o I = B \o (D \o I)
        BY ONLY <4>1, JoinAgain
      <4> QED
        BY <3>2, <4>2, Zenon
    <3> QED
      BY <1>4, <3>1, <3>2
  <2> QED
    BY <2>1, <2>2
<1>9. KeysNow(r, w) = KeysNow(s, v)
  BY <1>5, <1>8
<1>10. Unbound(r) = Unbound(s)
  BY DEF Unbound, NodeAt, Bare
<1>11. Typed(r, w)
  <2>1. <<f>> \o (F \o G) \in Names2
    BY <1>6, <1>7, JoinType
  <2> QED
    BY <1>2, <1>3, <1>7, <2>1 DEF Typed, A, f, F, G
<1>12. NodesOK(r, w, m)
  <2>1. r[2].at \notin Declares
    BY DEF InFun, FunPlaces, Declares
  <2> QED
    BY <1>9, <2>1 DEF Booked, NodesOK
<1> QED
  BY <1>9, <1>10, <1>11, <1>12, KeptBooks

-----------------------------------------------------------------------------
(* ... and by the steps of declarations. *)

\* What is open where a step was taken after which the file may be accepted.
LEMMA Before ==
  ASSUME Sure, Booking, Reads, Live', Top.at # "file", Top.at = "stmt" => Closed,
         NEW t, Piece(Top, t), Becomes(t),
         InFun(Top) => IF t = <<>> THEN cur'.idx = "end" ELSE InFun(t[1])
  PROVE  /\ Live /\ Booked(calls, value, made, symbols)
         /\ Len(calls) \in Nat \ {0} /\ Top = calls[Len(calls)]
         /\ Top.at \notin Roots => Len(calls) > 1
         /\ Top.at \in Roots => Len(calls) = 1
         /\ Top.at \notin Deep \union Roots => Len(calls) \in {2, 3}
         /\ InFun(Top) => Len(calls) = 2
         /\ \A i \in 1..Len(calls) :
              InFun(calls[i]) \/ calls[i].at \in Declares \union {"fun"} => calls[i].name \in Names
<1> DEFINE n == Len(calls)
<1>1. Closed
  BY DEF Closed
<1>2. Live
  BY <1>1, LiveBefore
<1>3. /\ n \in Nat \ {0} /\ Top = calls[n]
      /\ calls[1].at \in {"module", "declared"} /\ (n > 3 => Top.at \in Deep)
      /\ \A i \in 3..n : ~InFun(calls[i])
  BY <1>2, Structure DEF Live
<1>4. /\ \A i \in 1..n : FrameOK(calls[i], made)
      /\ \A i \in 2..n : calls[i].at \notin Roots
  BY SureFacts DEF CallsOK
<1>5. \A i \in 1..n : InFun(calls[i]) \/ calls[i].at \in Declares \union {"fun"} =>
                        calls[i].name \in Names
  BY <1>4 DEF FrameOK, InFun, Declares
<1> HIDE DEF n
<1>6. {"module", "declared"} \subseteq Roots /\ Roots \intersect FunPlaces = {}
  BY DEF Roots, FunPlaces
<1>7. Top.at \notin Roots => n > 1
  BY <1>3, <1>6
<1>8. Top.at \in Roots => n = 1
  <2>1. n \in 2..n => Top.at \notin Roots
    BY <1>3, <1>4
  <2> QED
    BY <1>3, <2>1
<1>9. Top.at \notin Deep \union Roots => n \in {2, 3}
  BY <1>3, <1>7
<1>10. InFun(Top) => n = 2
  <2>1. n \in 3..n => ~InFun(Top)
    BY <1>3
  <2>2. InFun(Top) => Top.at \notin Roots
    BY <1>6 DEF InFun
  <2> QED
    BY <1>3, <1>7, <2>1, <2>2
<1> QED
  BY <1>2, <1>3, <1>5, <1>7, <1>8, <1>9, <1>10 DEF Booking, n

\* The stack after a step at one of these depths.
LEMMA Two ==
  ASSUME Sure, NEW t, Piece(Top, t), Becomes(t), Len(calls) \in {1, 2, 3}
  PROVE  /\ Len(calls') = Len(calls) - 1 + Len(t)
         /\ Len(calls) # 1 => calls'[1] = calls[1]
         /\ Len(calls) = 3 => calls'[2] = calls[2]
         /\ t # <<>> => calls'[Len(calls)] = t[1]
<1> DEFINE n == Len(calls)
           r == calls'
           k == Len(t)
<1>1. /\ n \in Nat \ {0} /\ k \in Nat /\ (t # <<>> <=> k > 0)
      /\ Len(r) = n - 1 + k
      /\ n > 1 => r[1] = calls[1]
      /\ n > 2 => r[2] = calls[2]
      /\ n = 1 => (k > 0 => r[1] = t[1])
      /\ n = 2 => (k > 0 => r[2] = t[1])
      /\ n = 3 => (k > 0 => r[3] = t[1])
  BY FirstCalls
<1>2. n \in {1, 2, 3}
  OBVIOUS
<1> HIDE DEF n, r, k
<1>3. n # 1 => r[1] = calls[1]
  BY <1>1
<1>4. n = 3 => r[2] = calls[2]
  BY <1>1
<1>5. t # <<>> => r[n] = t[1]
  BY <1>1, <1>2
<1> QED
  BY <1>1, <1>3, <1>4, <1>5 DEF n, r, k

\* parse_decl has found a variable or a function, ...
LEMMA DeclGood ==
  ASSUME Sure, Booking, DeclFun \/ VarInit
  PROVE  Good
<1>1. Reads /\ UNCHANGED <<made, symbols>> /\ FrameOK(Top, made)
  <2>1. QuietStep
    BY DeclSteps DEF Sure
  <2>2. UNCHANGED <<made, symbols>>
    BY Zenon DEF DeclFun, VarInit
  <2> QED
    BY <2>1, <2>2, SureFacts DEF QuietStep
<1>2. CASE DeclFun
  <2> DEFINE g == [at |-> "fun", type |-> value, name |-> cur.text]
             t == <<g>>
  <2>1. Top.at = "decl" /\ Becomes(t)
    BY <1>2, Zenon DEF DeclFun, At, Goto
  <2>2. g.at = "fun"
    OBVIOUS
  <2> HIDE DEF g
  <2>3. FieldsOK(g) /\ After(Top.at, g.at) /\ Alike(Top, g)
    BY <2>1, <2>2, Successors DEF FieldsOK, InFun, FunPlaces, Operands, Alike, Declares
  <2>4. Piece(Top, t) /\ t # <<>> /\ Len(t) = 1 /\ t[1] = g /\ t[Len(t)] = g
    BY <2>3, GotoPiece
  <2> HIDE DEF t
  <2>5. /\ g.at \notin Roots \union Declares \union {"sum", "assign", "operators"}
        /\ Top.at \notin Roots
    BY <2>1, <2>2 DEF Roots, Declares
  <2>6. IF Len(t) > 1 THEN Bare(t[2]) ELSE t[1].at \notin {"stmt", "got_param"}
    BY <2>2, <2>4
  <2> QED
    BY <1>1, <2>1, <2>3, <2>4, <2>5, <2>6, StayGood
<1>3. CASE VarInit
  <2> DEFINE g == [Top EXCEPT !.at = "init"]
             t == <<g>> \o ExprCall
  <2>1. Top.at = "var" /\ Becomes(t)
    BY <1>3, Zenon DEF VarInit, At, Enter
  <2>2. g.at = "init" /\ g.name = Top.name /\ g.node = Top.node
    BY <1>1, <2>1 DEF FrameOK
  <2> HIDE DEF g
  <2>3. FieldsOK(g) /\ After(Top.at, g.at) /\ Alike(Top, g) /\ Callee(g.at, ExprCall)
    BY <2>1, <2>2, Successors, CalleesOK
    DEF FieldsOK, InFun, FunPlaces, Operands, Alike, Declares
  <2>4. Entered(Top, g, t)
    BY ONLY <2>3, EnterPiece
  <2> HIDE DEF t
  <2> USE DEF Entered
  <2>5. /\ t[Len(t)].at \notin Roots \union Declares \union {"sum", "assign", "operators"}
        /\ Top.at \notin Roots \union {"stmt", "got_param"}
    BY <2>1, <2>4 DEF Roots, Declares
  <2>6. Bare(t[2])
    <3>1. 2 \in 2..Len(t)
      BY <2>4
    <3> QED
      BY <2>4, <3>1, DeepPlaces
  <2> QED
    BY <1>1, <2>1, <2>3, <2>4, <2>5, <2>6, StayGood
<1> QED
  BY <1>2, <1>3

\* ... and made the node of a variable, as parse_fun_decl has for a parameter.
LEMMA NewVar ==
  ASSUME Sure, Booking, Reads, Top.at \in {"decl", "param"}, UNCHANGED symbols,
         ~AtEnd => made' = made + 1,
         NEW g, Goto(g), g.at = "var", g.node = made', g.name \in Names,
         calls'[Len(calls') - 1].at = "declared" => cur'.idx \in AfterName
  PROVE  Good
<1> DEFINE t == <<g>>
           n == Len(calls)
           r == calls'
<1>1. FieldsOK(g) /\ After(Top.at, g.at) /\ Bare(Top) /\ g.at \in Declares
  BY Successors, DeepPlaces DEF FieldsOK, InFun, FunPlaces, Operands, Declares
<1>2. Piece(Top, t) /\ t # <<>> /\ Len(t) = 1 /\ t[1] = g /\ t[Len(t)] = g /\ Becomes(t)
  BY <1>1, GotoPiece DEF Goto
<1> HIDE DEF t
<1>3. Top' = g
  BY <1>2, SureFacts, PieceFacts DEF Sure
<1>4. TopOK'
  BY <1>3 DEF TopOK
<1>5. ASSUME Live' PROVE Booked(r, value', made', symbols')
  <2>1. Top.at \notin {"file", "stmt"} \union Deep \union Roots /\ ~InFun(Top)
    BY DEF Deep, Chains, Operands, Roots, InFun, FunPlaces
  <2>2. /\ Live /\ Booked(calls, value, made, symbols)
        /\ Top = calls[n] /\ n \in {2, 3}
        /\ \A i \in 1..n : InFun(calls[i]) => calls[i].name \in Names
    BY <1>2, <1>5, <2>1, Before
  <2>3. made' = made + 1 /\ made \in Nat /\ symbols' = symbols
    BY <2>2, SureFacts DEF Live
  <2>4. /\ Len(r) = n /\ r[1] = calls[1] /\ r[n] = g
        /\ n = 3 => r[2] = calls[2]
    <3>1. n \in {1, 2, 3} /\ Piece(Top, t) /\ Becomes(t)
      BY <1>2, <2>2
    <3>2. /\ Len(r) = n - 1 + Len(t)
          /\ n # 1 => r[1] = calls[1]
          /\ n = 3 => r[2] = calls[2]
          /\ t # <<>> => r[n] = t[1]
      BY <3>1, Two
    <3> HIDE DEF n, r
    <3> QED
      BY <1>2, <2>2, <3>2
  <2>5. CASE n = 2
    <3>1. Booked(r, value', made + 1, symbols)
      BY <1>1, <2>2, <2>3, <2>4, <2>5, OpenGlobal
    <3> QED
      BY <2>3, <3>1
  <2>6. CASE n = 3
    <3>1. calls[2].at \in {"stmt", "got_param"}
      BY <2>1, <2>2, <2>6, Structure
    <3>2. InFun(calls[2]) /\ calls[2].name \in Names
      BY <2>2, <2>6, <3>1 DEF InFun, FunPlaces
    <3>3. Booked(r, value', made + 1, symbols)
      BY <1>1, <2>2, <2>3, <2>4, <2>6, <3>2, OpenLocal
    <3> QED
      BY <2>3, <3>3
  <2> QED
    BY <2>2, <2>5, <2>6
<1> QED
  BY <1>2, <1>4, <1>5 DEF Booking, Good

\* A variable or a parameter gets its node (ast_build.c, new_node).
LEMMA NewVars ==
  ASSUME Sure, Booking, DeclVar \/ ParamDecl
  PROVE  Good
<1> DEFINE g == VarFrame(value, cur.text, made')
<1>1. Reads /\ UNCHANGED symbols
  <2>1. QuietStep
    BY DeclSteps, ParamSteps DEF Sure
  <2> QED
    BY <2>1 DEF QuietStep
<1>2. Goto(g) /\ Top.at \in {"decl", "param"}
  BY Zenon DEF DeclVar, ParamDecl, At
<1>3. g.at = "var" /\ g.node = made' /\ g.name = cur.text
  BY DEF VarFrame
<1>4. cur.text \in Names
  BY DEF Sure, IInv, ReadOK, Names
<1>5. ~AtEnd => made' = made + 1
  BY Zenon DEF DeclVar, ParamDecl, TooMany
<1>6. calls'[Len(calls') - 1].at = "declared" => cur'.idx \in AfterName
  <2>1. CASE DeclVar
    BY <2>1, Zenon DEF DeclVar, AfterName, next_token
  <2>2. CASE ParamDecl
    <3> DEFINE t == <<g>>
               n == Len(calls)
    <3>1. Top.at = "param"
      BY <2>2, Zenon DEF ParamDecl, At
    <3>2. FieldsOK(g) /\ After(Top.at, g.at)
      BY <1>3, <3>1, Successors DEF FieldsOK, InFun, FunPlaces, Operands
    <3> HIDE DEF g
    <3>3. Piece(Top, t) /\ Len(t) = 1 /\ Becomes(t)
      BY <1>2, <3>2, GotoPiece DEF Goto
    <3> HIDE DEF t
    <3>4. /\ n \in Nat \ {0} /\ Top = calls[n] /\ Replaced(calls, t, calls')
      BY <3>3, SureFacts, PieceFacts DEF Sure
    <3>5. calls[1].at \in Roots /\ (n > 1 => Calls(calls[n - 1].at, Top.at))
      <4>1. n > 1 => n \in 2..n
        BY <3>4
      <4> QED
        BY <3>4, <4>1, SureFacts DEF CallsOK, Sure, Shape
    <3>6. n > 1
      <4>1. n # 1
        BY <3>1, <3>4, <3>5 DEF Roots
      <4> HIDE DEF n
      <4> QED
        BY <3>4, <4>1
    <3>7. calls'[Len(calls') - 1] = calls[n - 1]
      <4>1. Len(calls') = n - 1 + 1 /\ \A i \in 1..n - 1 : calls'[i] = calls[i]
        BY <3>3, <3>4 DEF Replaced
      <4> HIDE DEF n
      <4>2. n - 1 \in 1..n - 1 /\ Len(calls') - 1 = n - 1
        BY <3>4, <3>6, <4>1
      <4> QED
        BY <4>1, <4>2
    <3>8. calls[n - 1].at # "declared"
      BY <3>1, <3>5, <3>6 DEF Calls, FunPlaces, Declares, Chains, Operands
    <3> QED
      BY <3>7, <3>8
  <2> QED
    BY <2>1, <2>2
<1> HIDE DEF g
<1> QED
  BY <1>1, <1>2, <1>3, <1>4, <1>5, <1>6, NewVar

\* A variable is over, ...
LEMMA VarEndGood ==
  ASSUME Sure, Booking, VarEnd
  PROVE  Good
<1> DEFINE t == <<>>
           n == Len(calls)
           r == calls'
<1>1. /\ Top.at \in {"var", "init"} /\ Becomes(t) /\ Reads /\ UNCHANGED <<cur, made, ctx>>
      /\ value'.op = "var" /\ value'.name = Top.name
      /\ add_symbol(ParseKey(ctx, Top.name), Top.node)
  <2>1. \E i : Returns(Var(Top.type, Top.name, i))
    BY Zenon DEF VarEnd
  <2> QED
    BY <2>1, VarEndFacts DEF Sure, Returns, Var, Reads
<1>2. Piece(Top, t) /\ t = <<>>
  BY NoPiece
<1>3. /\ n \in Nat /\ n > 1 /\ Top = calls[n] /\ Top' = calls[n - 1] /\ Calls(Top'.at, Top.at)
  BY <1>1, <1>2, SureFacts, PieceFacts DEF Sure
<1>4. TopOK'
  <2>1. Top'.at \in {"declared", "stmt", "got_param"}
    BY <1>1, <1>3 DEF Calls, FunPlaces, Declares, Chains, Operands
  <2>2. ASSUME Top'.at = "declared" PROVE cur.idx \in Ends
    <3>1. CASE Top.at = "init"
      BY <3>1, Zenon DEF Sure, TopOK, Ends
    <3>2. CASE Top.at = "var"
      <4>1. calls[n - 1].at = "declared"
        BY <1>3, <2>2
      <4>2. cur.idx \in AfterName
        BY <3>2, <4>1, Zenon DEF Sure, TopOK
      <4>3. cur.idx # "="
        BY <3>2, Zenon DEF VarEnd, At
      <4> QED
        BY <4>2, <4>3, Zenon DEF AfterName, Ends, Stops
    <3> QED
      BY <1>1, <3>1, <3>2
  <2> QED
    BY <1>1, <2>1, <2>2 DEF TopOK
<1>5. ASSUME Live' PROVE Booked(r, value', made', symbols')
  <2>1. Top.at \notin {"file", "stmt"} \union Deep \union Roots /\ ~InFun(Top) /\ Top.at \in Declares
    BY <1>1 DEF Deep, Chains, Operands, Roots, InFun, FunPlaces, Declares
  <2>2. /\ Live /\ Booked(calls, value, made, symbols) /\ n \in {2, 3}
        /\ \A i \in 1..n : InFun(calls[i]) \/ calls[i].at \in Declares \union {"fun"} =>
                             calls[i].name \in Names
    BY <1>1, <1>2, <1>5, <2>1, Before
  <2>3. calls[1].at = "declared" /\ ~InFun(calls[1])
    <3>1. calls[1].at = "declared"
      BY <1>3, <2>2, Structure
    <3> QED
      BY <3>1 DEF InFun, FunPlaces
  <2>4. Top.name \in Names /\ made \in Nat
    BY <1>3, <2>1, <2>2, SureFacts
  <2>5. /\ Follows(calls, ctx) /\ ctx[1] = FileFrame(0)
        /\ ctx \in Seq([name : Names \union {<<>>}, node : 0..made])
    BY <2>1, InsideFacts DEF Sure, Follows
  <2>6. /\ Len(r) = n - 1 /\ r[1] = calls[1]
        /\ n = 3 => r[2] = calls[2]
    <3>1. n \in {1, 2, 3} /\ Piece(Top, t) /\ Becomes(t) /\ Len(t) = 0
      BY <1>1, <1>2, <2>2
    <3> HIDE DEF t
    <3>2. /\ Len(r) = n - 1 + Len(t)
          /\ n # 1 => r[1] = calls[1]
          /\ n = 3 => r[2] = calls[2]
      BY <3>1, Two
    <3> HIDE DEF n, r
    <3> QED
      BY <2>2, <3>1, <3>2
  <2>7. CASE n = 2
    <3>1. Len(ctx) = 1
      BY <1>3, <2>1, <2>3, <2>5, <2>7, Nesting
    <3>2. ctx_currname(ctx) = <<>>
      BY <2>5, <3>1, CurrName
    <3>3. ParseKey(ctx, Top.name) = Top.name
      BY <2>4, <3>2, LocalName DEF ParseKey
    <3>4. Len(r) = 1
      BY <2>6, <2>7
    <3>5. Booked(r, value', made, symbols')
      BY <1>1, <1>3, <2>1, <2>2, <2>3, <2>4, <2>6, <2>7, <3>3, <3>4, CloseGlobal
    <3> QED
      BY <1>1, <3>5
  <2>8. CASE n = 3
    <3>1. calls[2].at \in {"stmt", "got_param"}
      BY <1>3, <2>1, <2>2, <2>8, Structure
    <3>2. InFun(calls[2]) /\ calls[2].name \in Names
      BY <2>2, <2>8, <3>1 DEF InFun, FunPlaces
    <3>3. Len(ctx) = 2 /\ ctx[2].name = calls[2].name
      BY <1>3, <2>1, <2>3, <2>5, <2>8, <3>2, Nesting
    <3>4. ctx_currname(ctx) = calls[2].name
      BY <2>5, <3>2, <3>3, NamesType, CurrName
    <3>5. ParseKey(ctx, Top.name) = calls[2].name \o Top.name
      BY <3>4 DEF ParseKey
    <3>6. Len(r) = 2
      BY <2>6, <2>8
    <3>7. Booked(r, value', made, symbols')
      BY <1>1, <1>3, <2>1, <2>2, <2>4, <2>6, <2>8, <3>1, <3>2, <3>5, <3>6, CloseLocal
    <3> QED
      BY <1>1, <3>7
  <2> QED
    BY <2>2, <2>7, <2>8
<1> QED
  BY <1>1, <1>2, <1>4, <1>5 DEF Booking, Good

\* ... a function is opened, which may not be one in another function, ...
LEMMA FunOpenGood ==
  ASSUME Sure, Booking, FunOpen, ~CtxFull
  PROVE  Good
<1> DEFINE g == [at |-> "params", type |-> Top.type, name |-> Top.name,
                 node |-> made + 1, params |-> <<>>, nodes |-> <<>>]
           t == <<g>>
           n == Len(calls)
           r == calls'
<1>1. /\ Top.at = "fun" /\ Becomes(t) /\ Reads
      /\ made' = made + 1 /\ UNCHANGED symbols
  BY DEF FunOpen, At, Goto, Reads, Skip
<1>2. /\ g.at = "params" /\ g.name = Top.name /\ g.node = made + 1
      /\ g.params = <<>> /\ g.nodes = <<>> /\ {"params", "nodes"} \subseteq DOMAIN g
  OBVIOUS
<1> HIDE DEF g
<1>3. InFun(g) /\ FieldsOK(g) /\ After(Top.at, g.at)
  <2>1. IsSequence(<<>>)
    BY Lists
  <2> QED
    BY <1>1, <1>2, <2>1, Successors DEF FieldsOK, InFun, FunPlaces, Operands
<1>4. Piece(Top, t) /\ t # <<>> /\ Len(t) = 1 /\ t[1] = g /\ t[Len(t)] = g
  BY <1>3, GotoPiece
<1> HIDE DEF t
<1>5. TopOK'
  <2>1. Top' = g
    BY <1>1, <1>4, SureFacts, PieceFacts DEF Sure
  <2> QED
    BY <1>2, <2>1, CalmTop DEF Roots, Declares
<1>6. ASSUME Live' PROVE Booked(r, value', made', symbols')
  <2>1. Top.at \notin {"file", "stmt"} \union Deep \union Roots /\ ~InFun(Top) /\ Bare(Top)
    BY <1>1 DEF Deep, Chains, Operands, Roots, InFun, FunPlaces, Bare, Declares
  <2>2. /\ Live /\ Booked(calls, value, made, symbols) /\ n \in {2, 3} /\ Top = calls[n]
        /\ \A i \in 1..n : InFun(calls[i]) \/ calls[i].at \in Declares \union {"fun"} =>
                             calls[i].name \in Names
    BY <1>1, <1>4, <1>6, <2>1, Before
  <2>3. g.name \in Names /\ made \in Nat
    <3>1. Top.name \in Names
      BY <1>1, SureFacts DEF FrameOK
    <3> QED
      BY <1>2, <3>1, SureFacts
  <2>4. Len(r) = n /\ r[1] = calls[1] /\ r[n] = g
    <3>1. n \in {1, 2, 3} /\ Piece(Top, t) /\ Becomes(t)
      BY <1>1, <1>4, <2>2
    <3>2. /\ Len(r) = n - 1 + Len(t)
          /\ n # 1 => r[1] = calls[1]
          /\ t # <<>> => r[n] = t[1]
      BY <3>1, Two
    <3> HIDE DEF n, r
    <3> QED
      BY <1>4, <2>2, <3>2
  <2>5. n = 2
    <3>1. n = 3 => 3 \in 3..Len(r) /\ InFun(r[3])
      BY <1>3, <2>4
    <3> QED
      BY <1>6, <2>2, <3>1 DEF Live
  <2>6. g.at \notin {"stmt", "got_param"}
    BY <1>2
  <2>7. Booked(r, value', made + 1, symbols)
    <3>1. /\ Len(calls) = 2 /\ Bare(calls[2]) /\ Len(r) = 2
          /\ r[2].node = made + 1 /\ r[2].name \in Names
          /\ InFun(r[2]) /\ r[2].at \notin {"stmt", "got_param"}
          /\ r[2].params = <<>> /\ r[2].nodes = <<>>
      BY <1>2, <1>3, <2>1, <2>2, <2>3, <2>4, <2>5, <2>6
    <3> QED
      BY <2>2, <2>3, <2>4, <3>1, OpenGlobal
  <2> QED
    BY <1>1, <2>7
<1> QED
  BY <1>1, <1>4, <1>5, <1>6 DEF Booking, Good

\* ... a parameter or a statement is added to it, ...
LEMMA Joined ==
  ASSUME Sure, Booking, Reads, UNCHANGED <<made, symbols>>, InFun(Top),
         Top.at = "stmt" => Closed,
         NEW g, Goto(g), InFun(g), FieldsOK(g), g.at \notin {"stmt", "got_param"},
         g.name = Top.name, g.node = Top.node,
         NEW x, LocalKey(Top.name, x) = IF Top.at \in {"stmt", "got_param"}
                                        THEN LocalKey(Top.name, value) ELSE <<>>,
         Live =>
           \/ /\ IsSequence(Top.params) /\ g.params = Append(Top.params, x)
              /\ Top.nodes = <<>> /\ g.nodes = <<>>
           \/ /\ IsSequence(Top.nodes) /\ g.nodes = Append(Top.nodes, x)
              /\ g.params = Top.params
  PROVE  Good
<1> DEFINE t == <<g>>
           n == Len(calls)
           r == calls'
<1>1. After(Top.at, g.at)
  BY Successors DEF InFun
<1>2. Piece(Top, t) /\ t # <<>> /\ Len(t) = 1 /\ t[1] = g /\ t[Len(t)] = g /\ Becomes(t)
  BY <1>1, GotoPiece DEF Goto
<1> HIDE DEF t
<1>3. TopOK'
  <2>1. Top' = g
    BY <1>2, SureFacts, PieceFacts DEF Sure
  <2> QED
    BY <2>1, CalmTop DEF Roots, Declares, InFun, FunPlaces
<1>4. ASSUME Live' PROVE Booked(r, value', made', symbols')
  <2>1. Top.at # "file" /\ Top.at \notin Roots
    BY DEF Roots, InFun, FunPlaces
  <2>2. /\ Live /\ Booked(calls, value, made, symbols) /\ n = 2 /\ Top = calls[2]
        /\ calls[2].name \in Names
    <3>1. /\ Live /\ Booked(calls, value, made, symbols) /\ n = 2 /\ Top = calls[n]
          /\ \A i \in 1..n : InFun(calls[i]) => calls[i].name \in Names
      BY <1>2, <1>4, <2>1, Before
    <3> QED
      BY <3>1
  <2>3. Len(r) = 2 /\ r[1] = calls[1] /\ r[2] = g
    <3>1. n \in {1, 2, 3} /\ Piece(Top, t) /\ Becomes(t)
      BY <1>2, <2>2
    <3>2. /\ Len(r) = n - 1 + Len(t)
          /\ n # 1 => r[1] = calls[1]
          /\ t # <<>> => r[n] = t[1]
      BY <3>1, Two
    <3> HIDE DEF n, r
    <3> QED
      BY <1>2, <2>2, <3>2
  <2>4. InnerKeys(calls, value) = LocalKey(Top.name, x)
    BY <2>2 DEF InnerKeys
  <2>5. made \in Nat
    BY SureFacts
  <2>6. \/ /\ IsSequence(calls[2].params) /\ g.params = Append(calls[2].params, x)
           /\ calls[2].nodes = <<>> /\ g.nodes = <<>>
        \/ /\ IsSequence(calls[2].nodes) /\ g.nodes = Append(calls[2].nodes, x)
           /\ g.params = calls[2].params
    BY <2>2
  <2>7. Booked(r, value', made, symbols)
    BY <2>2, <2>3, <2>4, <2>5, <2>6, JoinInner
  <2> QED
    BY <2>7
<1> QED
  BY <1>2, <1>3, <1>4 DEF Booking, Good

\* A parameter or a declaration is put into its function.
LEMMA Joins2 ==
  ASSUME Sure, Booking, GotParam \/ (StmtEnd /\ cur.idx = ";")
  PROVE  Good
<1>1. FrameOK(Top, made) /\ FieldsOK(Top)
  BY SureFacts
<1>2. CASE GotParam
  <2>1. Reads /\ UNCHANGED <<made, symbols>> /\ Top.at = "got_param"
    <3>1. QuietStep
      BY <1>2, ParamSteps DEF Sure
    <3>2. UNCHANGED made /\ Top.at = "got_param"
      BY <1>2, Zenon DEF GotParam, At
    <3> QED
      BY <3>1, <3>2 DEF QuietStep
  <2>2. PICK tok \in NextTokens :
          Goto([Top EXCEPT !.at = IF tok.idx = "," THEN "comma" ELSE "params",
                           !.params = IF TooMany(@) THEN @ ELSE Append(@, value)])
    BY <1>2, Zenon DEF GotParam
  <2> DEFINE p == IF tok.idx = "," THEN "comma" ELSE "params"
             ps == IF TooMany(Top.params) THEN Top.params ELSE Append(Top.params, value)
             g == [Top EXCEPT !.at = IF tok.idx = "," THEN "comma" ELSE "params",
                              !.params = IF TooMany(@) THEN @ ELSE Append(@, value)]
  <2>3. Goto(g)
    BY <2>2
  <2>4. InFun(Top) /\ Top.at \in ParamPlaces
    BY <2>1 DEF InFun, FunPlaces, ParamPlaces
  <2>5. /\ {"at", "name", "node", "params", "nodes"} \subseteq DOMAIN Top
        /\ IsSequence(Top.params) /\ Top.nodes = <<>>
    BY <1>1, <2>4 DEF FrameOK, FieldsOK, InFun
  <2>6. g = [Top EXCEPT !.at = p, !.params = ps]
    OBVIOUS
  <2>7. p \in {"comma", "params"}
    BY Zenon
  <2> HIDE DEF p, ps, g
  <2>8. /\ DOMAIN g = DOMAIN Top /\ g.at = p /\ g.name = Top.name /\ g.node = Top.node
        /\ g.params = ps /\ g.nodes = <<>>
    BY <2>5, <2>6
  <2>9. InFun(g) /\ g.at \notin {"stmt", "got_param"} /\ g.at \notin Operands \union {"module", "declared"}
    BY <2>7, <2>8 DEF InFun, FunPlaces, Operands
  <2>10. IsSequence(ps) /\ (~AtEnd => ps = Append(Top.params, value))
    <3>1. IsSequence(Append(Top.params, value))
      BY <2>5, LongerSeq
    <3> QED
      BY <2>5, <3>1, Zenon DEF ps, TooMany
  <2>11. FieldsOK(g)
    <3>1. IsSequence(<<>>)
      BY Lists
    <3> QED
      BY <2>5, <2>8, <2>9, <2>10, <3>1 DEF FieldsOK
  <2>12. Live => /\ IsSequence(Top.params) /\ g.params = Append(Top.params, value)
                 /\ Top.nodes = <<>> /\ g.nodes = <<>>
    BY <2>5, <2>8, <2>10 DEF Live
  <2> QED
    BY <2>1, <2>3, <2>4, <2>8, <2>9, <2>11, <2>12, Joined
<1>3. CASE StmtEnd /\ cur.idx = ";"
  <2> DEFINE x == Statement
             g == [Top EXCEPT !.at = "body", !.nodes = Append(@, x)]
             nodes == Append(Top.nodes, x)
  <2>1. /\ Goto(g) /\ UNCHANGED <<cur, read, made, symbols>> /\ Top.at \in {"stmt", "returned"}
        /\ Closed
    <3>1. Goto(g) /\ UNCHANGED <<cur, read, made, symbols>>
      BY <1>3, Zenon DEF StmtEnd
    <3>2. Top.at \in {"stmt", "returned"}
      BY <1>3, Zenon DEF StmtEnd, At
    <3>3. Closed
      BY <1>3, Zenon DEF Closed
    <3> QED
      BY <3>1, <3>2, <3>3
  <2>2. InFun(Top) /\ Reads
    BY <2>1 DEF InFun, FunPlaces, Reads
  <2>3. /\ {"at", "name", "node", "params", "nodes"} \subseteq DOMAIN Top
        /\ IsSequence(Top.params) /\ IsSequence(Top.nodes)
    BY <1>1, <2>2 DEF FrameOK, FieldsOK, InFun
  <2>4. LocalKey(Top.name, x) = IF Top.at \in {"stmt", "got_param"}
                                THEN LocalKey(Top.name, value) ELSE <<>>
    BY <2>1 DEF Statement, LocalKey, Return
  <2> HIDE DEF x
  <2>5. g = [Top EXCEPT !.at = "body", !.nodes = nodes]
    OBVIOUS
  <2>6. IsSequence(nodes)
    BY <2>3, LongerSeq
  <2> HIDE DEF g, nodes
  <2>7. /\ DOMAIN g = DOMAIN Top /\ g.at = "body" /\ g.name = Top.name /\ g.node = Top.node
        /\ g.params = Top.params /\ g.nodes = nodes
    BY <2>3, <2>5
  <2>8. InFun(g) /\ g.at \notin {"stmt", "got_param"} \union ParamPlaces
        /\ g.at \notin Operands \union {"module", "declared"}
    BY <2>7 DEF InFun, FunPlaces, Operands, ParamPlaces
  <2>9. FieldsOK(g)
    BY <2>3, <2>6, <2>7, <2>8 DEF FieldsOK
  <2>10. /\ IsSequence(Top.nodes) /\ g.nodes = Append(Top.nodes, x)
         /\ g.params = Top.params
    BY <2>3, <2>7 DEF nodes
  <2> QED
    BY <2>1, <2>2, <2>4, <2>7, <2>8, <2>9, <2>10, Joined
<1> QED
  BY <1>2, <1>3

\* ... and the function is over.
LEMMA BodyEndGood ==
  ASSUME Sure, Booking, BodyEnd
  PROVE  Good
<1> DEFINE t == <<>>
           n == Len(calls)
           r == calls'
<1>1. /\ Top.at = "body" /\ Becomes(t) /\ Reads /\ UNCHANGED made /\ InFun(Top)
      /\ add_symbol(ParseKey(ctx', Top.name), Top.node)
      /\ Follows(calls', ctx') /\ ctx' = Front(ctx)
  BY BodyEndFacts DEF Sure, InFun, FunPlaces
<1>2. cur'.idx = "end" /\ value' = Fun(Top.type, Top.name, Top.params, Top.nodes)
  BY Zenon DEF BodyEnd, next_token, Returns
<1>3. /\ value'.op # "var" /\ value'.name = Top.name
      /\ value'.params = Top.params /\ value'.body = Top.nodes
  BY <1>2 DEF Fun
<1>4. Piece(Top, t) /\ t = <<>>
  BY NoPiece
<1>5. /\ n \in Nat /\ n > 1 /\ Top = calls[n] /\ Top' = calls[n - 1] /\ Calls(Top'.at, Top.at)
  BY <1>1, <1>4, SureFacts, PieceFacts DEF Sure
<1>6. TopOK'
  <2>1. Top'.at \in {"declared", "stmt"}
    BY <1>1, <1>5 DEF Calls, FunPlaces, Declares, Chains, Operands
  <2>2. cur'.idx \in Ends
    BY <1>2, Zenon DEF Ends
  <2> QED
    BY <2>1, <2>2 DEF TopOK
<1>7. ASSUME Live' PROVE Booked(r, value', made', symbols')
  <2>1. Top.at \notin Roots \union {"file", "stmt", "got_param"}
    BY <1>1 DEF Roots
  <2>2. /\ Live /\ Booked(calls, value, made, symbols) /\ n = 2 /\ Top = calls[2]
        /\ calls[2].name \in Names
    <3>1. /\ Live /\ Booked(calls, value, made, symbols) /\ n = 2 /\ Top = calls[n]
          /\ \A i \in 1..n : InFun(calls[i]) => calls[i].name \in Names
      BY <1>1, <1>2, <1>4, <1>7, <2>1, Before
    <3> QED
      BY <1>1, <3>1
  <2>3. calls[1].at = "declared" /\ ~InFun(calls[1])
    <3>1. calls[1].at = "declared"
      BY <1>5, <2>2, Structure
    <3> QED
      BY <3>1 DEF InFun, FunPlaces
  <2>4. Len(r) = 1 /\ r[1] = calls[1]
    <3>1. n \in {1, 2, 3} /\ Piece(Top, t) /\ Becomes(t) /\ Len(t) = 0
      BY <1>1, <1>4, <2>2
    <3> HIDE DEF t
    <3>2. /\ Len(r) = n - 1 + Len(t)
          /\ n # 1 => r[1] = calls[1]
      BY <3>1, Two
    <3> HIDE DEF n, r
    <3> QED
      BY <2>2, <3>1, <3>2
  <2>5. /\ ctx' \in Seq([name : Names \union {<<>>}, node : 0..made])
        /\ ctx'[1] = FileFrame(0)
    BY <1>1, <2>1, InsideFacts DEF Sure, Follows
  <2>6. Len(ctx') = 1
    <3>1. Follows(r, ctx') /\ ~InFun(r[1]) /\ Len(r) = 1
      BY <1>1, <2>3, <2>4
    <3> HIDE DEF r
    <3> QED
      BY <3>1, Nesting
  <2>7. ParseKey(ctx', Top.name) = Top.name
    <3>1. ctx_currname(ctx') = <<>>
      BY <2>5, <2>6, CurrName
    <3> QED
      BY <2>2, <3>1, LocalName DEF ParseKey
  <2>8. made \in Nat
    BY SureFacts
  <2>9. Booked(r, value', made, symbols')
    BY <1>1, <1>3, <2>1, <2>2, <2>3, <2>4, <2>7, <2>8, CloseFunction
  <2> QED
    BY <1>1, <2>9
<1> QED
  BY <1>1, <1>4, <1>6, <1>7 DEF Booking, Good

-----------------------------------------------------------------------------
(* The file: a declaration begins, ... *)

\* The loop of parse_mod_body calls parse_decl.
LEMMA ModuleDeclGood ==
  ASSUME Sure, Booking, ModuleDecl
  PROVE  Good
<1> DEFINE g == [Top EXCEPT !.at = "declared"]
           t == <<g>> \o DeclCall
           n == Len(calls)
           r == calls'
<1>1. Top.at = "module" /\ Becomes(t) /\ Reads /\ UNCHANGED <<made, symbols>>
  <2>1. Top.at = "module" /\ Becomes(t) /\ UNCHANGED <<made, symbols>>
    BY Zenon DEF ModuleDecl, At, Enter
  <2>2. QuietStep
    BY ModuleSteps DEF Sure
  <2> QED
    BY <2>1, <2>2 DEF QuietStep
<1>2. /\ g.at = "declared" /\ g.nodes = Top.nodes /\ FieldsOK(g)
  <2>1. /\ "nodes" \in DOMAIN Top /\ IsSequence(Top.nodes) /\ "at" \in DOMAIN Top
    BY <1>1, SureFacts DEF FieldsOK, FrameOK
  <2>2. /\ g.at = "declared" /\ g.nodes = Top.nodes /\ DOMAIN g = DOMAIN Top
    BY <1>1, <2>1
  <2> HIDE DEF g
  <2> QED
    BY <2>1, <2>2 DEF FieldsOK, InFun, FunPlaces, Operands
<1> HIDE DEF g
<1>3. After(Top.at, g.at) /\ Callee(g.at, DeclCall)
  BY <1>1, <1>2, Successors, CalleesOK DEF Roots
<1>4. Entered(Top, g, t)
  BY ONLY <1>2, <1>3, EnterPiece
<1> HIDE DEF t
<1> USE DEF Entered
<1>5. TopOK'
  <2>1. Top' = t[Len(t)]
    BY <1>1, <1>4, SureFacts, PieceFacts DEF Sure
  <2> QED
    BY <1>4, <2>1, CalmTop DEF Roots, Declares
<1>6. ASSUME Live' PROVE Booked(r, value', made', symbols')
  <2>1. Top.at \in Roots /\ Top.at \notin {"file", "stmt"} /\ ~InFun(Top)
    BY <1>1 DEF Roots, InFun, FunPlaces
  <2>2. Booked(calls, value, made, symbols) /\ n = 1 /\ Top = calls[1]
    <3>1. Booked(calls, value, made, symbols) /\ n = 1 /\ Top = calls[n]
      BY <1>1, <1>4, <1>6, <2>1, Before
    <3> QED
      BY <3>1
  <2>3. Len(r) = Len(t) /\ r[1] = g /\ r[2] = t[2] /\ (Len(t) > 2 => r[3] = t[3])
    BY <1>1, <1>4, <2>2, FirstCalls
  <2>4. Bare(t[2]) /\ (Len(t) > 2 => Bare(t[3]))
    <3>1. 2 \in 2..Len(t) /\ (Len(t) > 2 => 3 \in 2..Len(t))
      BY <1>4
    <3> QED
      BY <1>4, <3>1, DeepPlaces
  <2>5. Len(r) # 1 /\ Len(r) > 1 /\ ~InFun(r[2]) /\ r[2].at \notin Declares
    BY <1>4, <2>3, <2>4 DEF Bare
  <2>6. OpenKeys(r, value') = <<>> /\ InnerKeys(r, value') = <<>>
    BY <2>5, Zenon DEF OpenKeys, InnerKeys
  <2>7. OpenKeys(calls, value) = <<>> /\ InnerKeys(calls, value) = <<>>
    BY <1>1, <2>2 DEF OpenKeys, InnerKeys
  <2>8. KeysNow(r, value') = KeysNow(calls, value)
    BY <1>2, <2>2, <2>3, <2>6, <2>7 DEF KeysNow
  <2>9. Unbound(r) = Unbound(calls)
    <3>1. NodeAt(r, 2) = {}
      BY <2>3, <2>4 DEF NodeAt
    <3>2. NodeAt(r, 3) = {}
      <4>1. Len(r) < 3 \/ Len(t) > 2
        BY <1>4, <2>3
      <4> QED
        BY <2>3, <2>4, <4>1, Zenon DEF NodeAt
    <3>3. NodeAt(calls, 2) = {} /\ NodeAt(calls, 3) = {}
      BY <2>2 DEF NodeAt
    <3> QED
      BY <3>1, <3>2, <3>3 DEF Unbound
  <2>10. Typed(r, value')
    BY <1>2, <2>2, <2>3, <2>5, <2>6, <2>7 DEF Booked, Typed
  <2>11. NodesOK(r, value', made)
    BY <2>5 DEF NodesOK
  <2>12. Booked(r, value', made, symbols)
    BY <2>2, <2>8, <2>9, <2>10, <2>11, KeptBooks
  <2> QED
    BY <1>1, <2>12
<1> QED
  BY <1>1, <1>4, <1>5, <1>6 DEF Booking, Good

\* ... is over and kept, ...
LEMMA DeclaredGood ==
  ASSUME Sure, Booking, Declared
  PROVE  Good
<1> DEFINE g == [at |-> "module", nodes |-> Append(Top.nodes, value)]
           t == <<g>>
           n == Len(calls)
           r == calls'
<1>1. Top.at = "declared" /\ Becomes(t) /\ UNCHANGED <<cur, read, value, made, symbols>> /\ Reads
  BY DEF Declared, At, Goto, Reads
<1>2. IsSequence(Top.nodes) /\ IsSequence(Append(Top.nodes, value))
  <2>1. IsSequence(Top.nodes)
    BY <1>1, SureFacts DEF FieldsOK
  <2> QED
    BY <2>1, LongerSeq
<1>3. /\ g.at = "module" /\ g.nodes = Append(Top.nodes, value) /\ "nodes" \in DOMAIN g
  OBVIOUS
<1> HIDE DEF g
<1>4. FieldsOK(g) /\ After(Top.at, g.at)
  BY <1>1, <1>2, <1>3, Successors DEF FieldsOK, InFun, FunPlaces, Operands, Roots
<1>5. Piece(Top, t) /\ t # <<>> /\ Len(t) = 1 /\ t[1] = g /\ t[Len(t)] = g
  BY <1>4, GotoPiece
<1> HIDE DEF t
<1>6. TopOK'
  <2>1. Top' = g
    BY <1>1, <1>5, SureFacts, PieceFacts DEF Sure
  <2>2. cur.idx \in Ends
    BY <1>1 DEF Sure, TopOK
  <2> QED
    BY <1>1, <1>3, <2>1, <2>2 DEF TopOK
<1>7. ASSUME Live' PROVE Booked(r, value', made', symbols')
  <2>1. Top.at \in Roots /\ Top.at \notin {"file", "stmt"} /\ ~InFun(Top)
    BY <1>1 DEF Roots, InFun, FunPlaces
  <2>2. Booked(calls, value, made, symbols) /\ n = 1 /\ Top = calls[1]
    <3>1. Booked(calls, value, made, symbols) /\ n = 1 /\ Top = calls[n]
      BY <1>1, <1>5, <1>7, <2>1, Before
    <3> QED
      BY <3>1
  <2>3. Len(r) = 1 /\ r[1] = g
    BY <1>1, <1>5, <2>2, FirstCalls
  <2> DEFINE A == KeysOf(calls[1].nodes)
             D == Keys(value)
             E == <<>>
  <2>4. OpenKeys(calls, value) = D /\ InnerKeys(calls, value) = E
    BY <1>1, <2>2 DEF OpenKeys, InnerKeys
  <2>5. OpenKeys(r, value') = E /\ InnerKeys(r, value') = E
    BY <1>3, <2>3 DEF OpenKeys, InnerKeys
  <2>6. A \in Names2 /\ D \in Names2 /\ E \in Names2
    BY <2>2, <2>4 DEF Booked, Typed
  <2>7. KeysOf(r[1].nodes) = A \o D
    BY <1>2, <1>3, <2>2, <2>3, <2>6, MoreKeys
  <2>8. /\ KeysNow(calls, value) = A \o (D \o E)
        /\ KeysNow(r, value') = (A \o D) \o (E \o E)
    BY <2>4, <2>5, <2>7 DEF KeysNow
  <2> HIDE DEF A, D, E
  <2>9. D \o E = D /\ E \o E = E /\ A \o D \in Names2 /\ (A \o D) \o E = A \o D
    <3>1. A \o D \in Names2
      BY <2>6, JoinType
    <3> QED
      BY <2>6, <3>1, JoinNone DEF E
  <2>10. KeysNow(r, value') = KeysNow(calls, value)
    BY <2>8, <2>9
  <2>11. Unbound(r) = Unbound(calls)
    BY <2>2, <2>3 DEF Unbound, NodeAt
  <2>12. Typed(r, value')
    BY <2>3, <2>5, <2>6, <2>7, <2>9 DEF Typed
  <2>13. NodesOK(r, value', made)
    BY <2>3 DEF NodesOK
  <2>14. Booked(r, value', made, symbols)
    BY <2>2, <2>10, <2>11, <2>12, <2>13, KeptBooks
  <2> QED
    BY <1>1, <2>14
<1> QED
  BY <1>1, <1>5, <1>6, <1>7 DEF Booking, Good

\* ... and the file begins.
LEMMA ParseFileGood ==
  ASSUME Sure, Booking, ParseFile
  PROVE  Good
<1> DEFINE e == <<>>
           g == [at |-> "module", nodes |-> e]
           t == <<g>>
           n == Len(calls)
           r == calls'
<1>1. Top.at = "file" /\ Becomes(t) /\ UNCHANGED <<cur, read, value, made, symbols>>
  BY DEF ParseFile, At, Goto
<1>2. /\ g.at = "module" /\ g.nodes = e /\ "nodes" \in DOMAIN g /\ IsSequence(e)
  BY Lists
<1> HIDE DEF g
<1>3. FieldsOK(g) /\ After(Top.at, g.at)
  BY <1>1, <1>2, Successors DEF FieldsOK, InFun, FunPlaces, Operands, Roots
<1>4. Piece(Top, t) /\ t # <<>> /\ Len(t) = 1 /\ t[1] = g /\ t[Len(t)] = g
  BY <1>3, GotoPiece
<1> HIDE DEF t
<1>5. read = <<>> /\ made = 0 /\ symbols = <<>>
  BY <1>1 DEF Sure, TopOK
<1>6. TopOK'
  <2>1. Top' = g
    BY <1>1, <1>4, SureFacts, PieceFacts DEF Sure
  <2> QED
    BY <1>1, <1>2, <1>5, <2>1 DEF TopOK
<1>7. Booked(r, value', made', symbols')
  <2>1. n = 1
    BY <1>1, SureFacts, TopFacts DEF CallsOK, Roots
  <2>2. Len(r) = 1 /\ r[1] = g
    BY <1>1, <1>4, <2>1, FirstCalls
  <2>3. OpenKeys(r, value') = e /\ InnerKeys(r, value') = e /\ KeysOf(r[1].nodes) = e
    BY <1>2, <2>2, NoKeys DEF OpenKeys, InnerKeys
  <2>4. e \in Names2 /\ Len(e) = 0 /\ DOMAIN e = {} /\ e \o e = e
    BY DEF Names2
  <2> HIDE DEF e
  <2>5. KeysNow(r, value') = e
    BY <2>3, <2>4 DEF KeysNow
  <2>6. Typed(r, value')
    BY <2>2, <2>3, <2>4 DEF Typed
  <2>7. NodesOK(r, value', 0)
    BY <2>2 DEF NodesOK
  <2>8. 1..0 \ Unbound(r) = {}
    OBVIOUS
  <2>9. Bound(e, {}, e)
    BY <2>4 DEF Bound
  <2>10. symbols = e
    BY <1>5 DEF e
  <2>11. Booked(r, value', 0, e)
    BY <2>4, <2>5, <2>6, <2>7, <2>8, <2>9 DEF Booked
  <2> QED
    BY <1>1, <1>5, <2>10, <2>11
<1> QED
  BY <1>1, <1>4, <1>6, <1>7 DEF Booking, Good

-----------------------------------------------------------------------------
(* The theorem. *)

\* Only a parser that is at work takes a step.
LEMMA AtWork ==
  ASSUME Next
  PROVE  verdict = "parsing"
<1>1. CASE Module
  BY <1>1, Zenon DEF Module, ParseFile, ModuleDecl, ModuleEnd, ModuleOther, Declared, At
<1>2. CASE Decl
  BY <1>2, Zenon DEF Decl, TypeRef, TypeBase, DeclVar, DeclFun, DeclOther, VarInit, VarEnd, At
<1>3. CASE Function
  BY <1>3, Zenon DEF Function, FunOpen, ParamNext, ParamDecl, GotParam, ParamComma, ParamsEnd,
     BodyEnd, BodyDecl, BodyExpr, BodyReturn, BodyOther, ReturnNext, StmtEnd, At
<1>4. CASE Value
  BY <1>4, Zenon DEF Value, Prefix, ValueLit, ValueIdent, ValueOther, CallOpen, ArgNext,
     GotArg, ArgsEnd, At
<1>5. CASE Expr
  BY <1>5, Zenon DEF Expr, SumOpen, ProductOpen, AssignOpen, Operand, SumEnd, ProductEnd,
     AssignEnd, ExprEnd, ExprOther, At
<1> QED
  BY <1>1, <1>2, <1>3, <1>4, <1>5 DEF Next

\* Every step but an error and the end keeps the books.
LEMMA StepsGood ==
  ASSUME Sure, Booking, Next
  PROVE  \/ Good /\ verdict' = "parsing"
         \/ verdict' = "rejected" /\ UNCHANGED calls
         \/ ModuleEnd
<1>1. ASSUME QuietStep PROVE verdict' = "parsing" /\ Reads
  BY <1>1 DEF QuietStep
<1>2. ASSUME FailStep PROVE verdict' = "rejected" /\ UNCHANGED calls
  BY <1>2 DEF FailStep
<1>3. IInv
  BY DEF Sure
<1>4. CASE Module
  <2>1. CASE ParseFile
    <3>1. verdict' = "parsing"
      BY <2>1 DEF ParseFile, Sure
    <3> QED
      BY <2>1, <3>1, ParseFileGood
  <2>2. CASE ModuleDecl \/ Declared
    BY <1>1, <1>3, <2>2, ModuleSteps, ModuleDeclGood, DeclaredGood
  <2>3. CASE ModuleOther
    BY <1>2, <2>3, Failures
  <2> QED
    BY <1>4, <2>1, <2>2, <2>3 DEF Module
<1>5. CASE Decl
  <2>1. CASE TypeRef \/ TypeBase
    BY <1>1, <1>3, <2>1, DeclSteps, DeepValues, DeepGood
  <2>2. CASE DeclFun \/ VarInit
    BY <1>1, <1>3, <2>2, DeclSteps, DeclGood
  <2>3. CASE DeclVar
    BY <1>1, <1>3, <2>3, DeclSteps, NewVars
  <2>4. CASE DeclOther
    BY <1>2, <2>4, Failures
  <2>5. CASE VarEnd
    <3>1. verdict' = "parsing"
      BY <1>3, <2>5, VarEndFacts
    <3> QED
      BY <2>5, <3>1, VarEndGood
  <2> QED
    BY <1>5, <2>1, <2>2, <2>3, <2>4, <2>5 DEF Decl
<1>6. CASE Function
  <2>1. CASE FunOpen /\ CtxFull
    BY <1>2, <2>1, Failures
  <2>2. CASE FunOpen /\ ~CtxFull
    <3>1. verdict' = "parsing"
      BY <2>2 DEF FunOpen, Sure
    <3> QED
      BY <2>2, <3>1, FunOpenGood
  <2>3. CASE ParamNext \/ ParamComma \/ ParamsEnd
    BY <1>1, <1>3, <2>3, ParamSteps, PlaceSteps
  <2>4. CASE ParamDecl
    BY <1>1, <1>3, <2>4, ParamSteps, NewVars
  <2>5. CASE GotParam
    BY <1>1, <1>3, <2>5, ParamSteps, Joins2
  <2>6. CASE BodyEnd
    <3>1. verdict' = "parsing"
      BY <1>3, <2>6, BodyEndFacts
    <3> QED
      BY <2>6, <3>1, BodyEndGood
  <2>7. CASE BodyDecl \/ BodyExpr \/ BodyReturn \/ ReturnNext
    BY <1>1, <1>3, <2>7, BodySteps, PlaceSteps
  <2>8. CASE BodyOther
    BY <1>2, <2>8, Failures
  <2>9. CASE StmtEnd
    <3>1. CASE cur.idx = ";"
      <4>1. verdict' = "parsing"
        BY <2>9, <3>1, Zenon DEF StmtEnd, Sure
      <4> QED
        BY <2>9, <3>1, <4>1, Joins2, Zenon
    <3>2. CASE cur.idx # ";"
      BY <2>9, <3>2, Zenon DEF StmtEnd, Rejects
    <3> QED
      BY <3>1, <3>2, Zenon
  <2> QED
    BY <1>6, <2>1, <2>2, <2>3, <2>4, <2>5, <2>6, <2>7, <2>8, <2>9 DEF Function
<1>7. CASE Value
  <2>1. CASE ValueOther
    BY <1>2, <2>1, Failures
  <2>2. CASE ~ValueOther
    BY <1>1, <1>3, <1>7, <2>2, ValueSteps, DeepValues, DeepGood DEF Value
  <2> QED
    BY <2>1, <2>2
<1>8. CASE Expr
  <2>1. CASE ExprOther
    BY <1>2, <2>1, Failures
  <2>2. CASE ~ExprOther
    BY <1>1, <1>3, <1>8, <2>2, ExprSteps, DeepChains, DeepGood DEF Expr
  <2> QED
    BY <2>1, <2>2
<1> QED
  BY <1>4, <1>5, <1>6, <1>7, <1>8 DEF Next

\* At the end of the file the books are what the symbol table should be.
LEMMA EndGood ==
  ASSUME Sure, Booking, ModuleEnd
  PROVE  SymbolsOfFile' /\ verdict' = "parsed" /\ UNCHANGED calls
<1> DEFINE n == Len(calls)
<1>1. /\ Top.at = "module" /\ verdict' = "parsed" /\ UNCHANGED <<calls, value, made, symbols>>
      /\ made \in Nat
  BY SureFacts DEF ModuleEnd, At
<1>2. n = 1 /\ Top = calls[1]
  <2>1. /\ n \in Nat \ {0} /\ Top = calls[n]
        /\ \A i \in 2..n : calls[i].at \notin Roots
    BY SureFacts, TopFacts DEF CallsOK
  <2>2. n \in 2..n => FALSE
    BY <1>1, <2>1 DEF Roots
  <2> HIDE DEF n
  <2>3. n = 1
    BY <2>1, <2>2
  <2> QED
    BY <2>1, <2>3
<1>3. ~AtEnd
  <2>1. read = <<>> \/ cur.idx \in Ends
    BY <1>1 DEF Sure, TopOK
  <2>2. ASSUME AtEnd PROVE cur = EndToken
    <3>1. cur \in Readable /\ cur.kind = "END"
      BY <2>2 DEF AtEnd, Sure, IInv, ReadOK
    <3> QED
      BY <3>1, TokensAssumption, Zenon
  <2>3. EndToken.idx = "int"
    BY Zenon DEF EndToken
  <2>4. "int" \notin Ends
    BY Zenon DEF Ends, Stops
  <2> QED
    BY <2>1, <2>2, <2>3, <2>4 DEF AtEnd
<1>4. Live
  <2>1. Closed /\ calls[1].at # "file"
    <3>1. Closed
      BY <1>1, Zenon DEF Closed
    <3> QED
      BY <1>1, <1>2, <3>1
  <2>2. 3..1 = {}
    OBVIOUS
  <2> QED
    BY <1>2, <1>3, <2>1, <2>2 DEF Live, Sure
<1>5. Booked(calls, value, made, symbols)
  BY <1>4 DEF Booking
<1> DEFINE K == FileKeys
           E == <<>>
<1>6. KeysNow(calls, value) = K
  <2>1. OpenKeys(calls, value) = E /\ InnerKeys(calls, value) = E /\ KeysOf(calls[1].nodes) = K
    <3>1. calls[1].at # "declared" /\ Len(calls) = 1
      BY <1>1, <1>2
    <3>2. OpenKeys(calls, value) = E
      BY <3>1, Zenon DEF OpenKeys
    <3>3. InnerKeys(calls, value) = E
      BY <3>1, Zenon DEF InnerKeys
    <3>4. KeysOf(calls[1].nodes) = K
      BY <1>2, Zenon DEF FileKeys, file
    <3> QED
      BY <3>2, <3>3, <3>4
  <2>2. K \in Names2 /\ E \in Names2
    BY <1>5, <2>1 DEF Booked, Typed
  <2> HIDE DEF K, E
  <2>3. KeysNow(calls, value) = K \o (E \o E)
    BY <2>1 DEF KeysNow
  <2>4. E \o E = E /\ K \o E = K
    BY <2>2, JoinNone DEF E
  <2> QED
    BY <2>3, <2>4
<1>7. Unbound(calls) = {}
  BY <1>2 DEF Unbound, NodeAt
<1>8. /\ K \in Names2 /\ Len(K) = made
      /\ DOMAIN symbols = {K[i] : i \in 1..made}
      /\ \A i \in 1..made : symbols[K[i]] \in 1..made /\ K[symbols[K[i]]] = K[i] /\ symbols[K[i]] <= i
  <2>1. K \in Names2 /\ Len(K) = made /\ Bound(K, 1..made \ {}, symbols)
    BY <1>5, <1>6, <1>7, KeysNowType DEF Booked
  <2>2. 1..made \ {} = 1..made
    OBVIOUS
  <2> HIDE DEF K
  <2> QED
    BY <2>1, <2>2 DEF Bound
<1>9. DOMAIN K = 1..made
  BY <1>8 DEF Names2
<1>10. FileKeys' = K
  BY <1>1 DEF FileKeys, file, Top
<1> HIDE DEF K
<1>11. SymbolsOfFile'
  <2>1. /\ made' = made /\ symbols' = symbols /\ FileKeys' = K
    BY <1>1, <1>10
  <2>2. /\ made' = Len(FileKeys')
        /\ DOMAIN symbols' = {FileKeys'[i] : i \in DOMAIN FileKeys'}
        /\ \A i \in DOMAIN FileKeys' :
             /\ FileKeys'[symbols'[FileKeys'[i]]] = FileKeys'[i]
             /\ symbols'[FileKeys'[i]] <= i
    BY <1>8, <1>9, <2>1
  <2> QED
    BY <2>2 DEF SymbolsOfFile
<1> QED
  BY <1>1, <1>11

\* What holds in every state.
DeclInv == IInv /\ Shape /\ TopOK /\ Booking /\ SymbolsOfFile

\* Nothing is declared when the parser starts.
LEMMA DeclInit ==
  Init => DeclInv
<1> SUFFICES ASSUME Init PROVE DeclInv
  OBVIOUS
<1>1. IInv
  BY InitInv
<1> DEFINE g == [at |-> "file"]
<1>2. calls = <<g>> /\ symbols = <<>> /\ made = 0 /\ read = <<>> /\ verdict = "parsing"
  BY DEF Init
<1>3. g.at = "file"
  OBVIOUS
<1> HIDE DEF g
<1>4. Len(calls) = 1 /\ calls[1] = g /\ Top = g
  BY <1>2 DEF Top, Last
<1>5. FieldsOK(g)
  BY <1>3 DEF FieldsOK, InFun, FunPlaces, Operands
<1>6. Shape
  <2>1. \A i \in 1..1 : i = 1
    OBVIOUS
  <2>2. 2..1 = {}
    OBVIOUS
  <2> QED
    BY <1>4, <1>5, <2>1, <2>2 DEF Shape
<1>7. TopOK
  BY <1>2, <1>3, <1>4 DEF TopOK
<1>8. Booking
  BY <1>3, <1>4 DEF Booking, Live
<1>9. SymbolsOfFile
  BY <1>2 DEF SymbolsOfFile
<1> QED
  BY <1>1, <1>6, <1>7, <1>8, <1>9 DEF DeclInv

\* Every step keeps the invariant.
LEMMA DeclNext ==
  DeclInv /\ [Next]_vars => DeclInv'
<1> SUFFICES ASSUME DeclInv, [Next]_vars PROVE DeclInv'
  OBVIOUS
<1>1. IInv /\ IInv' /\ Shape /\ TopOK /\ Booking /\ SymbolsOfFile
  BY NextInv DEF DeclInv
<1>2. CASE UNCHANGED vars
  <2>1. UNCHANGED <<cur, read, calls, value, made, verdict, ctx, symbols>>
    BY <1>2 DEF vars
  <2>2. Shape'
    BY <1>1, <2>1 DEF Shape
  <2>3. TopOK'
    BY <1>1, <2>1, Zenon DEF TopOK, Top
  <2>4. Booking'
    BY <1>1, <2>1, Zenon DEF Booking, Live, Closed, AtEnd, Top
  <2>5. SymbolsOfFile'
    BY <1>1, <2>1, Zenon DEF SymbolsOfFile, FileKeys, file, Top
  <2> QED
    BY <1>1, <2>2, <2>3, <2>4, <2>5 DEF DeclInv
<1>3. CASE Next
  <2>1. Sure
    BY <1>1, <1>3, AtWork DEF Sure
  <2>2. CASE Good /\ verdict' = "parsing"
    <3>1. PICK t : Piece(Top, t) /\ Becomes(t)
      BY <2>2 DEF Good
    <3>2. Shape'
      BY <1>1, <2>1, <3>1, SureFacts, PieceFacts
    <3>3. SymbolsOfFile'
      BY <2>2 DEF SymbolsOfFile
    <3> QED
      BY <1>1, <2>2, <3>2, <3>3 DEF Good, DeclInv
  <2>3. CASE verdict' = "rejected" /\ UNCHANGED calls
    <3>1. Shape'
      BY <1>1, <2>3 DEF Shape
    <3>2. TopOK' /\ Booking' /\ SymbolsOfFile'
      BY <2>3 DEF TopOK, Booking, Live, SymbolsOfFile
    <3> QED
      BY <1>1, <3>1, <3>2 DEF DeclInv
  <2>4. CASE ModuleEnd
    <3>1. SymbolsOfFile' /\ verdict' = "parsed" /\ UNCHANGED calls
      BY <1>1, <2>1, <2>4, EndGood
    <3>2. Shape'
      BY <1>1, <3>1 DEF Shape
    <3>3. TopOK' /\ Booking'
      BY <3>1 DEF TopOK, Booking, Live
    <3> QED
      BY <1>1, <3>1, <3>2, <3>3 DEF DeclInv
  <2> QED
    BY <1>1, <1>3, <2>1, <2>2, <2>3, <2>4, StepsGood
<1> QED
  BY <1>2, <1>3

\* Whatever the file, the symbol table has all its declarations when it has been
\* parsed, each under its key and the first one where keys collide, and nothing
\* else (ast_build.c:409 and 514, context.c:98).
THEOREM DeclarationsRegistered ==
  Spec => []SymbolsOfFile
<1>1. DeclInv => SymbolsOfFile
  BY DEF DeclInv
<1> QED
  BY <1>1, DeclInit, DeclNext, PTL DEF Spec
=============================================================================
