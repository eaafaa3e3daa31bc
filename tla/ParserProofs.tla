---------------------------- MODULE ParserProofs ----------------------------
(***************************************************************************)
(* What Parser guarantees for every set of tokens and every file: the      *)
(* stack of contexts follows the open calls, and what happens to the       *)
(* contexts and the symbols is what Scopes allows.                         *)
(***************************************************************************)
EXTENDS Parser, DataLemmas

-----------------------------------------------------------------------------
(* The innermost call is replaced. *)

\* r is s with its last element replaced by the elements of t.
Replaced(s, t, r) ==
  /\ IsSequence(r)
  /\ Len(r) = Len(s) - 1 + Len(t)
  /\ \A i \in 1..Len(s) - 1 : r[i] = s[i]
  /\ \A i \in 1..Len(t) : r[Len(s) - 1 + i] = t[i]

\* What Becomes does to the calls.
LEMMA ReplaceLast ==
  ASSUME NEW s, NEW t, IsSequence(s), IsSequence(t), s # <<>>
  PROVE  Replaced(s, t, Front(s) \o t)
<1> DEFINE r == Front(s) \o t
<1>1. PICK S : s \in Seq(S)
  BY DEF IsSequence
<1>2. PICK T : t \in Seq(T)
  BY DEF IsSequence
<1> DEFINE U == S \union T
<1>3. s \in Seq(U) /\ t \in Seq(U)
  BY <1>1, <1>2, WiderSeq
<1> HIDE DEF U
<1>4. Len(s) \in Nat \ {0} /\ Len(t) \in Nat
  BY <1>3
<1>5. /\ Front(s) \in Seq(U)
      /\ Len(Front(s)) = Len(s) - 1
      /\ \A i \in 1..Len(s) - 1 : Front(s)[i] = s[i]
  <2> DEFINE n == Len(s) - 1
  <2>1. n \in Nat /\ \A i \in 1..n : s[i] \in U
    BY <1>3, <1>4, ElementOfSeq
  <2> HIDE DEF n
  <2>2. /\ SubSeq(s, 1, n) \in Seq(U)
        /\ Len(SubSeq(s, 1, n)) = n
        /\ \A i \in 1..n : SubSeq(s, 1, n)[i] = s[i]
    BY <2>1, SubSeqProperties
  <2> QED
    BY <2>2 DEF Front, n
<1> HIDE DEF Front, r
<1>6. /\ r \in Seq(U)
      /\ Len(r) = Len(Front(s)) + Len(t)
      /\ \A i \in 1..Len(Front(s)) + Len(t) :
           r[i] = IF i <= Len(Front(s)) THEN Front(s)[i] ELSE t[i - Len(Front(s))]
  BY <1>3, <1>5, ConcatProperties DEF r
<1> QED
  BY <1>4, <1>5, <1>6 DEF IsSequence, Replaced, r

-----------------------------------------------------------------------------
(* How deep a frame is nested in functions. *)

\* One more frame is one more function, or none.
LEMMA OpenFunsCounts ==
  ASSUME NEW s, NEW n \in Nat
  PROVE  /\ OpenFuns(s, 0) = 0
         /\ OpenFuns(s, n) \in Nat
         /\ OpenFuns(s, n + 1) = IF InFun(s[n + 1]) THEN OpenFuns(s, n) + 1
                                                    ELSE OpenFuns(s, n)
<1> DEFINE F(m) == {j \in 1..m : InFun(s[j])}
<1>1. \A m \in Nat : IsFiniteSet(F(m)) /\ Cardinality(F(m)) \in Nat
  <2> TAKE m \in Nat
  <2>1. IsFiniteSet(1..m)
    BY FS_Interval
  <2>2. IsFiniteSet(F(m))
    BY <2>1, FS_Subset
  <2> QED
    BY <2>2, FS_CardinalityType
<1>2. F(0) = {}
  OBVIOUS
<1>3. OpenFuns(s, 0) = 0
  BY <1>2, FS_EmptySet DEF OpenFuns
<1>4. CASE InFun(s[n + 1])
  <2>1. F(n + 1) = F(n) \union {n + 1} /\ n + 1 \notin F(n)
    BY <1>4
  <2>2. Cardinality(F(n) \union {n + 1}) = Cardinality(F(n)) + 1
    BY <1>1, <2>1, FS_AddElement
  <2> QED
    BY <1>1, <1>3, <1>4, <2>1, <2>2 DEF OpenFuns
<1>5. CASE ~InFun(s[n + 1])
  <2>1. F(n + 1) = F(n)
    BY <1>5
  <2> QED
    BY <1>1, <1>3, <1>5, <2>1 DEF OpenFuns
<1> QED
  BY <1>4, <1>5

\* Only the frames below count.
LEMMA OpenFunsAgrees ==
  ASSUME NEW s, NEW r, NEW n \in Nat, \A i \in 1..n : s[i] = r[i]
  PROVE  OpenFuns(s, n) = OpenFuns(r, n)
<1>1. {j \in 1..n : InFun(s[j])} = {j \in 1..n : InFun(r[j])}
  OBVIOUS
<1> QED
  BY <1>1 DEF OpenFuns

\* Frames of expressions and types add no depth.
LEMMA OpenFunsFlat ==
  ASSUME NEW s, NEW n \in Nat, NEW m \in Nat, n <= m,
         \A i \in n + 1..m : ~InFun(s[i])
  PROVE  OpenFuns(s, m) = OpenFuns(s, n)
<1>1. {j \in 1..m : InFun(s[j])} = {j \in 1..n : InFun(s[j])}
  OBVIOUS
<1> QED
  BY <1>1 DEF OpenFuns

-----------------------------------------------------------------------------
(* The invariant: what the open calls are, and how the contexts follow them. *)

Names == {t.text : t \in Readable}
Roots == {"file", "module", "declared"}
Plain(f) == f.at \notin Roots \union FunPlaces

\* A frame, when m declarations have been made.
FrameOK(f, m) ==
  /\ "at" \in DOMAIN f /\ f.at \in Places
  /\ f.at \in {"var", "init", "fun"} \union FunPlaces =>
       "name" \in DOMAIN f /\ f.name \in Names
  /\ f.at \in {"var", "init"} \union FunPlaces =>
       "node" \in DOMAIN f /\ f.node \in 1..m
  /\ f.at = "param" => m > 0

\* The file is the outermost call and the only one of its kind.
CallsOK ==
  /\ IsSequence(calls) /\ calls # <<>>
  /\ \A i \in 1..Len(calls) : FrameOK(calls[i], made)
  /\ calls[1].at \in Roots
  /\ \A i \in 2..Len(calls) : calls[i].at \notin Roots
  /\ calls[1].at = "file" => Len(calls) = 1

\* What has been read.
ReadOK ==
  /\ cur \in Readable /\ read \in Seq(Readable)
  /\ \A i \in DOMAIN read : read[i].kind = "END" => i = Len(read)
  /\ read # <<>> => cur = Last(read)

\* The contexts and the symbols refer to declarations that were made.
TablesOK ==
  /\ ctx \in Seq([name : Names \union {<<>>}, node : 0..made])
  /\ symbols \in [DOMAIN symbols -> 1..made]

IInv ==
  /\ verdict \in {"parsing", "parsed", "rejected"}
  /\ made \in Nat
  /\ CallsOK /\ ReadOK /\ TablesOK /\ ContextIsCalls

\* Frame g goes on where f was.
Continues(f, g) ==
  IF InFun(f) THEN InFun(g) /\ g.name = f.name /\ g.node = f.node
  ELSE IF f.at \in Roots THEN g.at \in {"module", "declared"} ELSE Plain(g)

\* The frames t may take the place of frame f without a change of contexts.
Replaces(f, t, m) ==
  /\ IsSequence(t)
  /\ \A i \in 1..Len(t) : FrameOK(t[i], m)
  /\ \A i \in 2..Len(t) : Plain(t[i])
  /\ IF t = <<>> THEN Plain(f) ELSE Continues(f, t[1])

\* Frames t may take the place of frame f.
Fits(f, t, m) ==
  /\ IsSequence(t)
  /\ \A i \in 1..Len(t) : FrameOK(t[i], m)
  /\ \A i \in 2..Len(t) : t[i].at \notin Roots
  /\ f.at \in Roots => t # <<>> /\ t[1].at \in {"module", "declared"}
  /\ f.at \notin Roots /\ t # <<>> => t[1].at \notin Roots

\* Frames that keep the contexts fit, in particular.
LEMMA ReplacesFits ==
  ASSUME NEW f, NEW t, NEW m, Replaces(f, t, m)
  PROVE  Fits(f, t, m)
<1>1. FunPlaces \intersect Roots = {}
  BY DEF FunPlaces, Roots
<1>2. f.at \in Roots => ~InFun(f) /\ ~Plain(f)
  BY <1>1 DEF InFun, Plain
<1>3. f.at \notin Roots /\ t # <<>> => t[1].at \notin Roots
  BY <1>1 DEF Replaces, Continues, Plain, InFun
<1>4. f.at \in Roots => t # <<>> /\ t[1].at \in {"module", "declared"}
  BY <1>2 DEF Replaces, Continues
<1> QED
  BY <1>3, <1>4 DEF Fits, Replaces, Plain

\* The contexts c are those of the calls s.
Follows(s, c) ==
  /\ Len(c) = 1 + OpenFuns(s, Len(s))
  /\ c[1] = FileFrame(0)
  /\ \A i \in 1..Len(s) : InFun(s[i]) =>
       c[1 + OpenFuns(s, i)] = FunFrame(s[i].name, s[i].node)

\* Length and domain of a sequence of frames.
LEMMA SequenceFacts ==
  ASSUME NEW s, IsSequence(s)
  PROVE  Len(s) \in Nat /\ DOMAIN s = 1..Len(s) /\ (s # <<>> <=> Len(s) > 0)
<1>1. PICK S : s \in Seq(S)
  BY DEF IsSequence
<1> QED
  BY <1>1

\* A step that opens and closes no function leaves the contexts right.
LEMMA ReplacesFollows ==
  ASSUME NEW s, IsSequence(s), s # <<>>, NEW c, Follows(s, c),
         NEW t, NEW m, Replaces(Last(s), t, m),
         NEW r, r = Front(s) \o t
  PROVE  Follows(r, c)
<1> DEFINE n == Len(s)
<1>1. IsSequence(t) /\ n \in Nat \ {0} /\ Len(t) \in Nat /\ (t # <<>> <=> Len(t) > 0)
  BY SequenceFacts DEF Replaces
<1>2. /\ Len(r) = n - 1 + Len(t)
      /\ \A i \in 1..n - 1 : r[i] = s[i]
      /\ \A i \in 1..Len(t) : r[n - 1 + i] = t[i]
  <2>1. Replaced(s, t, r)
    BY <1>1, ReplaceLast
  <2> QED
    BY <2>1 DEF Replaced
<1> HIDE DEF n
<1>3. ASSUME NEW i \in 0..n - 1
      PROVE  OpenFuns(r, i) = OpenFuns(s, i)
  <2>1. i \in Nat /\ \A j \in 1..i : r[j] = s[j]
    BY <1>1, <1>2
  <2> QED
    BY <2>1, OpenFunsAgrees
<1>4. /\ OpenFuns(s, n) = IF InFun(s[n]) THEN OpenFuns(s, n - 1) + 1 ELSE OpenFuns(s, n - 1)
      /\ OpenFuns(r, n) = IF InFun(r[n]) THEN OpenFuns(r, n - 1) + 1 ELSE OpenFuns(r, n - 1)
      /\ \A i \in 0..n : OpenFuns(s, i) \in Nat
  <2>1. n - 1 \in Nat /\ n - 1 + 1 = n
    BY <1>1
  <2>2. \A i \in 0..n : OpenFuns(s, i) \in Nat
    BY <1>1, OpenFunsCounts
  <2>3. OpenFuns(s, n) = IF InFun(s[n]) THEN OpenFuns(s, n - 1) + 1 ELSE OpenFuns(s, n - 1)
    BY <2>1, OpenFunsCounts
  <2>4. OpenFuns(r, n) = IF InFun(r[n]) THEN OpenFuns(r, n - 1) + 1 ELSE OpenFuns(r, n - 1)
    BY <2>1, OpenFunsCounts
  <2> QED
    BY <2>2, <2>3, <2>4
<1>5. CASE t = <<>>
  <2>1. Len(r) = n - 1 /\ ~InFun(s[n])
    BY <1>1, <1>2, <1>5 DEF Replaces, Last, Plain, InFun, n
  <2>2. OpenFuns(s, n) = OpenFuns(s, n - 1) /\ OpenFuns(r, n - 1) = OpenFuns(s, n - 1)
    BY <1>1, <1>3, <1>4, <2>1
  <2>3. ASSUME NEW i \in 1..n - 1, InFun(r[i])
        PROVE  c[1 + OpenFuns(r, i)] = FunFrame(r[i].name, r[i].node)
    <3>1. OpenFuns(r, i) = OpenFuns(s, i) /\ r[i] = s[i] /\ i \in 1..n
      BY <1>1, <1>2, <1>3
    <3> QED
      BY <2>3, <3>1 DEF Follows, n
  <2>4. Len(c) = 1 + OpenFuns(s, n) /\ c[1] = FileFrame(0)
    BY DEF Follows, n
  <2>5. Len(c) = 1 + OpenFuns(r, Len(r))
    BY <2>1, <2>2, <2>4
  <2> QED
    BY <2>1, <2>3, <2>4, <2>5 DEF Follows
<1>6. CASE t # <<>>
  <2>1. r[n] = t[1] /\ n <= Len(r)
    BY <1>1, <1>2, <1>6
  <2>2. /\ Continues(s[n], r[n])
        /\ \A i \in n + 1..Len(r) : ~InFun(r[i])
    <3>1. ASSUME NEW i \in n + 1..Len(r)
          PROVE  ~InFun(r[i])
      <4>1. i - n + 1 \in 2..Len(t) /\ r[n - 1 + (i - n + 1)] = t[i - n + 1]
        BY <1>1, <1>2
      <4>2. n - 1 + (i - n + 1) = i
        BY <1>1
      <4> QED
        BY <4>1, <4>2 DEF Replaces, Plain, InFun
    <3> QED
      BY <1>6, <2>1, <3>1 DEF Replaces, Last, n
  <2>3. InFun(r[n]) <=> InFun(s[n])
    BY <2>2 DEF Continues, Plain, InFun, Roots, FunPlaces
  <2>4. OpenFuns(r, n) = OpenFuns(s, n)
    <3>1. OpenFuns(r, n - 1) = OpenFuns(s, n - 1)
      BY <1>1, <1>3
    <3> QED
      BY <1>4, <2>3, <3>1, Zenon
  <2>5. ASSUME NEW i \in n..Len(r)
        PROVE  OpenFuns(r, i) = OpenFuns(s, n)
    <3>1. n \in Nat /\ i \in Nat /\ n <= i /\ \A j \in n + 1..i : ~InFun(r[j])
      BY <1>1, <1>2, <2>2
    <3> QED
      BY <2>4, <3>1, OpenFunsFlat
  <2>6. ASSUME NEW i \in 1..Len(r), InFun(r[i])
        PROVE  c[1 + OpenFuns(r, i)] = FunFrame(r[i].name, r[i].node)
    <3>1. CASE i < n
      <4>1. OpenFuns(r, i) = OpenFuns(s, i) /\ r[i] = s[i] /\ i \in 1..n
        BY <1>1, <1>2, <1>3, <3>1
      <4> QED
        BY <2>6, <4>1 DEF Follows, n
    <3>2. CASE i = n
      BY <1>1, <2>2, <2>3, <2>4, <2>6, <3>2 DEF Follows, Continues, n
    <3> QED
      BY <1>1, <1>2, <2>2, <2>6, <3>1, <3>2
  <2>7. Len(c) = 1 + OpenFuns(s, n) /\ c[1] = FileFrame(0)
    BY DEF Follows, n
  <2>8. Len(c) = 1 + OpenFuns(r, Len(r))
    BY <1>1, <1>2, <2>1, <2>5, <2>7
  <2> QED
    BY <2>6, <2>7, <2>8 DEF Follows
<1> QED
  BY <1>5, <1>6

\* The type invariant is part of the invariant.
LEMMA InvTypes ==
  IInv => TypeOK
<1> SUFFICES ASSUME IInv PROVE TypeOK
  OBVIOUS
<1>1. DOMAIN calls = 1..Len(calls)
  BY SequenceFacts DEF IInv, CallsOK
<1> QED
  <2>1. \A i \in DOMAIN ctx : ctx[i].node \in 0..made
    <3>1. Len(ctx) \in Nat /\ DOMAIN ctx = 1..Len(ctx)
      BY DEF IInv, TablesOK
    <3>2. \A i \in 1..Len(ctx) : ctx[i] \in [name : Names \union {<<>>}, node : 0..made]
      BY ElementOfSeq DEF IInv, TablesOK
    <3> QED
      BY <3>1, <3>2
  <2>2. \A k \in DOMAIN symbols : symbols[k] \in 1..made
    BY DEF IInv, TablesOK
  <2>3. calls # <<>> /\ \A i \in DOMAIN calls : calls[i].at \in Places
    BY <1>1 DEF IInv, CallsOK, FrameOK
  <2> QED
    BY <2>1, <2>2, <2>3 DEF IInv, ReadOK, TypeOK

\* A frame stays right when more declarations are made.
LEMMA MoreMade ==
  ASSUME NEW f, NEW m \in Nat, NEW n \in Nat, m <= n, FrameOK(f, m)
  PROVE  FrameOK(f, n)
<1>1. 1..m \subseteq 1..n /\ (m > 0 => n > 0)
  OBVIOUS
<1> QED
  BY <1>1 DEF FrameOK

\* A call that is no function may return.
LEMMA NoFrame ==
  ASSUME NEW f, NEW m, Plain(f)
  PROVE  Replaces(f, <<>>, m)
<1>1. IsSequence(<<>>)
  BY Lists
<1> QED
  BY <1>1 DEF Replaces

\* A call may go on as one frame of its kind.
LEMMA OneFrame ==
  ASSUME NEW f, NEW g, NEW m, FrameOK(g, m), Continues(f, g)
  PROVE  Replaces(f, <<g>>, m)
<1>1. IsSequence(<<g>>) /\ Len(<<g>>) = 1 /\ <<g>>[1] = g /\ <<g>> # <<>>
  BY Lists
<1> QED
  BY <1>1 DEF Replaces

\* Calls that are under way in an expression, a type or a declaration.
PlainCalls(u, m) ==
  /\ IsSequence(u)
  /\ \A i \in 1..Len(u) : FrameOK(u[i], m) /\ Plain(u[i])

\* ... and open plain calls above it.
LEMMA MoreFrames ==
  ASSUME NEW f, NEW g, NEW u, NEW m, FrameOK(g, m), Continues(f, g), PlainCalls(u, m)
  PROVE  Replaces(f, <<g>> \o u, m)
<1> DEFINE t == <<g>> \o u
<1>1. PICK S : u \in Seq(S)
  BY DEF PlainCalls, IsSequence
<1> DEFINE U == {g} \union S
<1>2. u \in Seq(U) /\ <<g>> \in Seq(U)
  BY <1>1, WiderSeq
<1> HIDE DEF U
<1>3. /\ t \in Seq(U)
      /\ Len(t) = 1 + Len(u) /\ Len(u) \in Nat
      /\ t[1] = g
      /\ \A i \in 2..Len(t) : i - 1 \in 1..Len(u) /\ t[i] = u[i - 1]
  BY <1>2, ConcatProperties
<1> HIDE DEF t
<1>4. IsSequence(t) /\ t # <<>>
  BY <1>3 DEF IsSequence
<1>5. \A i \in 1..Len(t) : i = 1 \/ i \in 2..Len(t)
  BY <1>3
<1> QED
  BY <1>3, <1>4, <1>5 DEF Replaces, PlainCalls, t

\* Two lists of one frame are a list of two.
LEMMA Pairs ==
  ASSUME NEW x, NEW y
  PROVE  <<x>> \o <<y>> = <<x, y>>
<1> DEFINE S == {x, y}
<1>1. <<x>> \in Seq(S) /\ <<y>> \in Seq(S) /\ <<x, y>> \in Seq(S)
  OBVIOUS
<1>2. /\ <<x>> \o <<y>> \in Seq(S) /\ Len(<<x>> \o <<y>>) = 2
      /\ (<<x>> \o <<y>>)[1] = x /\ (<<x>> \o <<y>>)[2] = y
  BY <1>1, ConcatProperties
<1>3. Len(<<x, y>>) = 2 /\ \A i \in 1..2 : (<<x>> \o <<y>>)[i] = <<x, y>>[i]
  BY <1>2
<1> QED
  BY <1>1, <1>2, <1>3, SeqEqual

\* The calls that the actions open are plain.
LEMMA Callees ==
  ASSUME NEW m
  PROVE  /\ PlainCalls(TypeCall, m) /\ PlainCalls(DeclCall, m)
         /\ PlainCalls(UnaryCall, m) /\ PlainCalls(ExprCall, m)
         /\ m > 0 => PlainCalls(<<[at |-> "param"]>> \o TypeCall, m)
<1> DEFINE OK(f) == FrameOK(f, m) /\ Plain(f)
           type == [at |-> "type", refc |-> 0]
           decl == [at |-> "decl"]
           unary == [at |-> "unary", ops |-> <<>>]
           operators == [at |-> "operators"]
           param == [at |-> "param"]
<1>1. OK(type) /\ OK(decl) /\ OK(unary) /\ OK(operators) /\ (m > 0 => OK(param))
  BY DEF FrameOK, Plain, Places, Roots, FunPlaces
<1>2. /\ TypeCall = <<type>> /\ DeclCall = <<decl, type>>
      /\ UnaryCall = <<unary>> /\ ExprCall = <<operators, unary>>
      /\ <<param>> \o TypeCall = <<param, type>>
  <2> HIDE DEF type, decl, unary, operators, param
  <2>1. TypeCall = <<type>> /\ UnaryCall = <<unary>>
    BY DEF TypeCall, UnaryCall, type, unary
  <2>2. DeclCall = <<decl>> \o TypeCall /\ ExprCall = <<operators>> \o UnaryCall
    BY DEF DeclCall, ExprCall, decl, operators
  <2> QED
    BY <2>1, <2>2, Pairs
<1> HIDE DEF type, decl, unary, operators, param
<1>3. ASSUME NEW f, OK(f) PROVE PlainCalls(<<f>>, m)
  <2>1. Len(<<f>>) = 1 /\ <<f>>[1] = f /\ IsSequence(<<f>>)
    BY Lists
  <2>2. \A i \in 1..1 : i = 1
    OBVIOUS
  <2> QED
    BY <1>3, <2>1, <2>2, Zenon DEF PlainCalls
<1>4. ASSUME NEW f, NEW g, OK(f), OK(g) PROVE PlainCalls(<<f, g>>, m)
  <2>1. Len(<<f, g>>) = 2 /\ <<f, g>>[1] = f /\ <<f, g>>[2] = g /\ IsSequence(<<f, g>>)
    BY Lists
  <2>2. \A i \in 1..2 : i = 1 \/ i = 2
    OBVIOUS
  <2> QED
    BY <1>4, <2>1, <2>2, Zenon DEF PlainCalls
<1>5. PlainCalls(<<type>>, m) /\ PlainCalls(<<unary>>, m)
  BY <1>1, <1>3
<1>6. PlainCalls(<<decl, type>>, m) /\ PlainCalls(<<operators, unary>>, m)
  BY <1>1, <1>4
<1>7. m > 0 => PlainCalls(<<param, type>>, m)
  BY <1>1, <1>4
<1> QED
  BY <1>2, <1>5, <1>6, <1>7 DEF param

\* The outermost call stays, and no other call is one of its kind.
LEMMA FitsCalls ==
  ASSUME CallsOK, made \in Nat, made' \in Nat, made <= made',
         NEW t, Fits(Top, t, made'), Becomes(t)
  PROVE  CallsOK' /\ calls'[1].at # "file"
<1> DEFINE n == Len(calls)
<1>1. IsSequence(t) /\ n \in Nat \ {0} /\ Len(t) \in Nat /\ (t # <<>> <=> Len(t) > 0)
  BY SequenceFacts DEF Fits, CallsOK
<1>2. /\ IsSequence(calls')
      /\ Len(calls') = n - 1 + Len(t)
      /\ \A i \in 1..n - 1 : calls'[i] = calls[i]
      /\ \A i \in 1..Len(t) : calls'[n - 1 + i] = t[i]
  <2>1. IsSequence(calls) /\ calls # <<>> /\ calls' = Front(calls) \o t
    BY DEF CallsOK, Becomes
  <2> HIDE DEF n
  <2>2. Replaced(calls, t, calls')
    BY <1>1, <2>1, ReplaceLast
  <2> QED
    BY <2>2 DEF Replaced, n
<1> HIDE DEF n
<1>3. \A i \in 1..Len(calls') : i \in 1..n - 1 \/ i = n \/ (i > n /\ i - n + 1 \in 2..Len(t))
  BY <1>1, <1>2
<1>4. \A i \in n..Len(calls') : i - n + 1 \in 1..Len(t) /\ calls'[i] = t[i - n + 1]
  <2> TAKE i \in n..Len(calls')
  <2>1. i - n + 1 \in 1..Len(t) /\ n - 1 + (i - n + 1) = i
    BY <1>1, <1>2
  <2> QED
    BY <1>2, <2>1
<1>5. Top = calls[n] /\ n \in 1..n
  BY <1>1 DEF Top, Last, n
<1>6. ASSUME NEW i \in 1..Len(calls') PROVE FrameOK(calls'[i], made')
  <2>1. CASE i \in 1..n - 1
    <3>1. i \in 1..n /\ calls'[i] = calls[i]
      BY <1>1, <1>2, <2>1
    <3>2. FrameOK(calls[i], made)
      BY <3>1 DEF CallsOK, n
    <3> QED
      BY <3>1, <3>2, MoreMade
  <2>2. CASE i >= n
    <3>1. i - n + 1 \in 1..Len(t) /\ calls'[i] = t[i - n + 1]
      BY <1>1, <1>2, <1>4, <2>2
    <3> QED
      BY <3>1 DEF Fits
  <2> QED
    BY <1>1, <1>2, <2>1, <2>2
<1>7. n > 1 => Top.at \notin Roots
  BY <1>1, <1>5 DEF CallsOK, n
<1>8. n = 1 => Top.at \in Roots
  BY <1>5 DEF CallsOK, n
<1>9. n = 1 => t # <<>> /\ calls'[1] = t[1] /\ t[1].at \in {"module", "declared"}
  <2>1. n = 1 => t # <<>> /\ t[1].at \in {"module", "declared"}
    BY <1>8 DEF Fits
  <2> QED
    BY <1>1, <1>2, <2>1
<1>10. n > 1 => calls'[1] = calls[1] /\ 1 \in 1..n - 1
  BY <1>1, <1>2
<1>11. calls'[1].at \in Roots /\ calls'[1].at # "file"
  <2>1. CASE n = 1
    BY <1>9, <2>1 DEF Roots
  <2>2. CASE n > 1
    <3>1. calls[1].at \in Roots /\ (calls[1].at = "file" => n = 1)
      BY DEF CallsOK, n
    <3> QED
      BY <1>1, <1>10, <2>2, <3>1
  <2> QED
    BY <1>1, <2>1, <2>2
<1>12. calls' # <<>>
  <2>1. Len(calls') > 0
    BY <1>1, <1>2, <1>9
  <2> QED
    BY <1>2, <2>1, SequenceFacts
<1>13. ASSUME NEW i \in 2..Len(calls') PROVE calls'[i].at \notin Roots
  <2>1. CASE i \in 1..n - 1
    <3>1. i \in 2..n /\ calls'[i] = calls[i]
      BY <1>1, <1>2, <2>1
    <3> QED
      BY <3>1 DEF CallsOK, n
  <2>2. CASE i = n
    <3>1. calls'[i] = t[1] /\ t # <<>> /\ Top.at \notin Roots
      BY <1>1, <1>2, <1>4, <1>7, <2>2
    <3> QED
      BY <3>1 DEF Fits
  <2>3. CASE i > n
    <3>1. i - n + 1 \in 2..Len(t) /\ calls'[i] = t[i - n + 1]
      BY <1>1, <1>2, <1>4, <2>3
    <3> QED
      BY <3>1 DEF Fits
  <2> QED
    BY <1>1, <1>2, <2>1, <2>2, <2>3
<1> QED
  BY <1>2, <1>6, <1>11, <1>12, <1>13 DEF CallsOK

-----------------------------------------------------------------------------
(* Steps that leave the contexts and the symbols alone. *)

Reads == (\E t \in NextTokens : next_token(t)) \/ UNCHANGED <<cur, read>>
Moves == \E t : Replaces(Top, t, made') /\ Becomes(t)

QuietStep ==
  /\ verdict = "parsing" /\ Top.at # "file"
  /\ Reads /\ Moves
  /\ made' \in {made, made + 1}
  /\ UNCHANGED <<verdict, ctx, symbols>>

FailStep ==
  /\ Reads
  /\ verdict' = "rejected" /\ UNCHANGED <<calls, made, ctx, symbols>>

\* next_token keeps what has been read well formed.
LEMMA ReadsInv ==
  ReadOK /\ Reads => ReadOK'
<1> SUFFICES ASSUME ReadOK, Reads PROVE ReadOK'
  OBVIOUS
<1>1. CASE UNCHANGED <<cur, read>>
  BY <1>1 DEF ReadOK
<1>2. ASSUME NEW t \in NextTokens, next_token(t) PROVE ReadOK'
  <2>1. t \in Readable /\ EndToken \in Readable /\ EndToken.kind = "END"
    BY DEF NextTokens, Readable, EndToken
  <2>2. CASE AtEnd
    <3>1. t = EndToken /\ read # <<>> /\ read[Len(read)] \in Readable
      BY <2>2, ElementOfSeq DEF NextTokens, AtEnd, ReadOK, Last
    <3>2. Last(read) = EndToken
      BY <2>2, <3>1, TokensAssumption DEF AtEnd, Readable, Last
    <3> QED
      BY <1>2, <2>1, <2>2, <3>1, <3>2 DEF ReadOK, next_token
  <2>3. CASE ~AtEnd
    <3>1. cur' = t /\ read' = Append(read, t)
      BY <1>2, <2>3 DEF next_token
    <3> QED
      BY <2>1, <2>3, <3>1 DEF ReadOK, AtEnd, Last
  <2> QED
    BY <2>2, <2>3
<1> QED
  BY <1>1, <1>2 DEF Reads

\* Contexts and symbols that do not change stay right.
LEMMA TablesKept ==
  ASSUME TablesOK, made \in Nat, made' \in Nat, made <= made', UNCHANGED <<ctx, symbols>>
  PROVE  TablesOK'
<1>1. 0..made \subseteq 0..made' /\ 1..made \subseteq 1..made'
  OBVIOUS
<1>2. [name : Names \union {<<>>}, node : 0..made]
        \subseteq [name : Names \union {<<>>}, node : 0..made']
  BY <1>1
<1>3. ctx \in Seq([name : Names \union {<<>>}, node : 0..made'])
  BY <1>2, WiderSeq DEF TablesOK
<1>4. symbols \in [DOMAIN symbols -> 1..made']
  BY <1>1 DEF TablesOK
<1> QED
  BY <1>3, <1>4 DEF TablesOK, Names, Readable

\* The call on top.
LEMMA TopFacts ==
  ASSUME CallsOK
  PROVE  /\ Len(calls) \in Nat \ {0} /\ DOMAIN calls = 1..Len(calls)
         /\ Top = calls[Len(calls)] /\ FrameOK(Top, made)
         /\ Top.at # "file" => calls[1].at # "file"
<1>1. Len(calls) \in Nat \ {0} /\ DOMAIN calls = 1..Len(calls)
  BY SequenceFacts DEF CallsOK
<1> QED
  BY <1>1 DEF CallsOK, Top, Last

\* ContextIsCalls in the terms of Follows.
LEMMA ContextFollows ==
  ASSUME CallsOK, verdict = "parsing"
  PROVE  ContextIsCalls <=> IF calls[1].at = "file" THEN ctx = <<>> ELSE Follows(calls, ctx)
  BY TopFacts DEF ContextIsCalls, Follows

\* What the calls become and the contexts stay.
LEMMA MovesInv ==
  ASSUME IInv, verdict = "parsing", Top.at # "file", Moves,
         made' \in {made, made + 1}, UNCHANGED <<verdict, ctx>>
  PROVE  CallsOK' /\ ContextIsCalls'
<1>1. PICK t : Replaces(Top, t, made') /\ Becomes(t)
  BY DEF Moves
<1>2. made \in Nat /\ made' \in Nat /\ made <= made'
  BY DEF IInv
<1>3. CallsOK' /\ calls'[1].at # "file"
  BY <1>1, <1>2, ReplacesFits, FitsCalls DEF IInv
<1>4. IsSequence(calls) /\ calls # <<>> /\ calls[1].at # "file"
  BY TopFacts DEF IInv, CallsOK
<1>5. Follows(calls, ctx)
  BY <1>4, ContextFollows DEF IInv
<1>6. Follows(calls', ctx)
  BY <1>1, <1>4, <1>5, ReplacesFollows DEF Becomes, Top
<1>7. ContextIsCalls'
  <2>1. DOMAIN calls' = 1..Len(calls')
    BY <1>3, SequenceFacts DEF CallsOK
  <2> QED
    BY <1>3, <1>6, <2>1 DEF ContextIsCalls, Follows
<1> QED
  BY <1>3, <1>7

\* Quiet steps keep the invariant.
LEMMA QuietInv ==
  IInv /\ QuietStep => IInv'
<1> SUFFICES ASSUME IInv, QuietStep PROVE IInv'
  OBVIOUS
<1>1. made \in Nat /\ made' \in Nat /\ made <= made'
  BY DEF QuietStep, IInv
<1>2. CallsOK' /\ ContextIsCalls'
  BY MovesInv DEF QuietStep
<1> QED
  BY <1>1, <1>2, ReadsInv, TablesKept DEF QuietStep, IInv

\* Errors keep the invariant.
LEMMA FailInv ==
  IInv /\ FailStep => IInv'
<1> SUFFICES ASSUME IInv, FailStep PROVE IInv'
  OBVIOUS
<1>1. CallsOK'
  BY DEF IInv, CallsOK, FailStep, FrameOK, Names, Readable
<1>2. ContextIsCalls'
  BY DEF FailStep, ContextIsCalls
<1> QED
  BY <1>1, <1>2, ReadsInv, TablesKept DEF FailStep, IInv

\* Places a call may be at one after the other while its name and node stay.
RestPlaces == Places \ ({"var", "init", "fun", "param"} \union Roots \union FunPlaces)
SameCall(p, q) ==
  \E S \in {FunPlaces, RestPlaces, {"var", "init"}, {"module", "declared"}} :
    p \in S /\ q \in S

\* The call on top goes on at another place.
LEMMA GoesOn ==
  ASSUME NEW f, NEW m, FrameOK(f, m), NEW g, DOMAIN g = DOMAIN f,
         "name" \in DOMAIN f => g.name = f.name,
         "node" \in DOMAIN f => g.node = f.node,
         SameCall(f.at, g.at)
  PROVE  FrameOK(g, m) /\ Continues(f, g)
<1>1. /\ f.at \in FunPlaces <=> g.at \in FunPlaces
      /\ f.at \in Roots => g.at \in {"module", "declared"}
      /\ f.at \notin Roots => g.at \notin Roots
      /\ f.at \in {"var", "init"} <=> g.at \in {"var", "init"}
      /\ f.at # "fun" /\ g.at # "fun" /\ f.at # "param" /\ g.at # "param"
      /\ g.at \in Places
  BY DEF SameCall, RestPlaces, FunPlaces, Roots, Places
<1>2. FrameOK(g, m)
  BY <1>1 DEF FrameOK
<1>3. Continues(f, g)
  BY <1>1 DEF FrameOK, Continues, InFun, Plain
<1> QED
  BY <1>2, <1>3

\* The same, when the place is all that changes.
LEMMA PlaceChanged ==
  ASSUME NEW f, NEW m, FrameOK(f, m), NEW p, SameCall(f.at, p)
  PROVE  FrameOK([f EXCEPT !.at = p], m) /\ Continues(f, [f EXCEPT !.at = p])
<1> DEFINE g == [f EXCEPT !.at = p]
<1>1. /\ DOMAIN g = DOMAIN f /\ g.at = p
      /\ "name" \in DOMAIN f => g.name = f.name
      /\ "node" \in DOMAIN f => g.node = f.node
  BY DEF FrameOK
<1> HIDE DEF g
<1>2. FrameOK(g, m) /\ Continues(f, g)
  BY <1>1, GoesOn
<1> QED
  BY <1>2 DEF g

\* The ways of the actions to change the calls, each a move: Goto, ...
LEMMA GotoMoves ==
  ASSUME NEW g, FrameOK(g, made'), Continues(Top, g), Goto(g)
  PROVE  Moves
  BY OneFrame DEF Goto, Moves

\* ... Returns, ...
LEMMA ReturnsMoves ==
  ASSUME NEW v, Plain(Top), Returns(v)
  PROVE  Moves
  BY NoFrame DEF Returns, Moves

\* ... GotoPlace, ...
LEMMA GotoPlaceMoves ==
  ASSUME CallsOK, UNCHANGED made, NEW p, SameCall(Top.at, p), GotoPlace(p)
  PROVE  Moves
  BY TopFacts, PlaceChanged, GotoMoves DEF GotoPlace

\* ... Enter, ...
LEMMA EnterMoves ==
  ASSUME CallsOK, UNCHANGED made, NEW p, SameCall(Top.at, p),
         NEW u, PlainCalls(u, made), Enter(p, u)
  PROVE  Moves
<1>1. FrameOK(Top, made)
  BY TopFacts
<1>2. Replaces(Top, <<[Top EXCEPT !.at = p]>> \o u, made')
  BY <1>1, PlaceChanged, MoreFrames
<1> QED
  BY <1>2 DEF Enter, Moves

\* A frame without a name takes the place of another one.
LEMMA FreshMoves ==
  ASSUME Plain(Top), NEW g, "at" \in DOMAIN g, g.at \in RestPlaces, Goto(g)
  PROVE  Moves
<1>1. FrameOK(g, made') /\ Plain(g)
  BY DEF FrameOK, Plain, RestPlaces, Roots, FunPlaces
<1>2. Continues(Top, g)
  BY <1>1 DEF Continues, Plain, InFun
<1> QED
  BY <1>1, <1>2, GotoMoves

\* ... Goto with more fields changed than the place, ...
LEMMA SameFields ==
  ASSUME CallsOK, UNCHANGED made, NEW g, DOMAIN g = DOMAIN Top,
         "name" \in DOMAIN Top => g.name = Top.name,
         "node" \in DOMAIN Top => g.node = Top.node,
         SameCall(Top.at, g.at), Goto(g)
  PROVE  Moves
<1>1. FrameOK(Top, made)
  BY TopFacts
<1>2. FrameOK(g, made') /\ Continues(Top, g)
  BY <1>1, GoesOn
<1> QED
  BY <1>2, GotoMoves

\* ... and Operand.
LEMMA OperandMoves ==
  ASSUME Plain(Top), NEW g, "at" \in DOMAIN g, g.at \in RestPlaces,
         NEW u, PlainCalls(u, made), UNCHANGED made, Becomes(<<g>> \o u)
  PROVE  Moves
<1>1. FrameOK(g, made') /\ Plain(g)
  BY DEF FrameOK, Plain, RestPlaces, Roots, FunPlaces
<1>2. Continues(Top, g)
  BY <1>1 DEF Continues, Plain, InFun
<1> QED
  BY <1>1, <1>2, MoreFrames DEF Moves

\* parse_mod_body.
LEMMA ModuleSteps ==
  ASSUME IInv, ModuleDecl \/ Declared
  PROVE  QuietStep
<1>1. CallsOK /\ FrameOK(Top, made) /\ cur.text \in Names /\ made \in Nat
  BY TopFacts DEF IInv, ReadOK, Names
<1>2. ASSUME ModuleDecl PROVE QuietStep
  <2>1. Moves
    BY <1>1, <1>2, EnterMoves, Callees
    DEF ModuleDecl, At, SameCall, RestPlaces, Places, Roots, FunPlaces
  <2> QED
    BY <1>2, <2>1 DEF ModuleDecl, At, Reads, Skip, QuietStep
<1>3. ASSUME Declared PROVE QuietStep
  <2> DEFINE g == [at |-> "module", nodes |-> Append(Top.nodes, value)]
  <2>1. Goto(g) /\ UNCHANGED made
    BY <1>3 DEF Declared
  <2>2. FrameOK(g, made') /\ Continues(Top, g)
    BY <1>3 DEF Declared, At, FrameOK, Continues, InFun, Places, Roots, FunPlaces
  <2> HIDE DEF g
  <2>3. Moves
    BY <2>1, <2>2, GotoMoves
  <2> QED
    BY <1>3, <2>3 DEF Declared, At, Reads, Skip, QuietStep
<1> QED
  BY <1>2, <1>3

\* parse_type and parse_decl.
LEMMA DeclSteps ==
  ASSUME IInv, TypeRef \/ TypeBase \/ DeclVar \/ DeclFun \/ VarInit
  PROVE  QuietStep
<1>1. CallsOK /\ FrameOK(Top, made) /\ cur.text \in Names /\ made \in Nat
  BY TopFacts DEF IInv, ReadOK, Names
<1>2. ASSUME TypeRef PROVE QuietStep
  <2> DEFINE g == [Top EXCEPT !.refc = @ + 1]
  <2>1. Goto(g) /\ UNCHANGED made
    BY <1>2 DEF TypeRef
  <2>2. /\ DOMAIN g = DOMAIN Top
        /\ "name" \in DOMAIN Top => g.name = Top.name
        /\ "node" \in DOMAIN Top => g.node = Top.node
    OBVIOUS
  <2>3. SameCall(Top.at, g.at)
    BY <1>1, <1>2 DEF TypeRef, At, FrameOK, SameCall, RestPlaces, Places, Roots, FunPlaces
  <2> HIDE DEF g
  <2>4. Moves
    BY <1>1, <2>1, <2>2, <2>3, SameFields
  <2> QED
    BY <1>2, <2>4 DEF TypeRef, At, Reads, Skip, QuietStep
<1>3. ASSUME TypeBase PROVE QuietStep
  <2>1. Moves
    BY <1>1, <1>3, ReturnsMoves
    DEF TypeBase, At, Plain, Roots, FunPlaces
  <2> QED
    BY <1>3, <2>1 DEF TypeBase, At, Reads, Skip, QuietStep
<1>4. ASSUME DeclVar PROVE QuietStep
  <2> DEFINE g == VarFrame(value, cur.text, made')
  <2>1. Goto(g) /\ made' \in {made, made + 1}
    BY <1>1, <1>4 DEF DeclVar
  <2>2. FrameOK(g, made') /\ Plain(g) /\ Plain(Top)
    <3>1. made' \in 1..made'
      <4>1. made' = made + 1
        BY <1>4 DEF DeclVar
      <4> QED
        BY <1>1, <4>1
    <3>2. Top.at = "decl"
      BY <1>4 DEF DeclVar, At
    <3> QED
      BY <1>1, <3>1, <3>2 DEF FrameOK, VarFrame, Plain, Places, Roots, FunPlaces
  <2> HIDE DEF g
  <2>3. Continues(Top, g)
    BY <2>2 DEF Continues, Plain, InFun
  <2>4. Moves
    BY <2>1, <2>2, <2>3, GotoMoves
  <2> QED
    BY <1>4, <2>1, <2>4 DEF DeclVar, At, Reads, Skip, QuietStep
<1>5. ASSUME DeclFun PROVE QuietStep
  <2> DEFINE g == [at |-> "fun", type |-> value, name |-> cur.text]
  <2>1. Goto(g) /\ made' \in {made, made + 1}
    BY <1>1, <1>5 DEF DeclFun
  <2>2. FrameOK(g, made') /\ Plain(g) /\ Plain(Top)
    BY <1>1, <1>5, <2>1 DEF DeclFun, At, FrameOK, VarFrame, Plain, Places, Roots, FunPlaces
  <2> HIDE DEF g
  <2>3. Continues(Top, g)
    BY <2>2 DEF Continues, Plain, InFun
  <2>4. Moves
    BY <2>1, <2>2, <2>3, GotoMoves
  <2> QED
    BY <1>5, <2>1, <2>4 DEF DeclFun, At, Reads, Skip, QuietStep
<1>6. ASSUME VarInit PROVE QuietStep
  <2>1. Moves
    BY <1>1, <1>6, EnterMoves, Callees
    DEF VarInit, At, SameCall, RestPlaces, Places, Roots, FunPlaces
  <2> QED
    BY <1>6, <2>1 DEF VarInit, At, Reads, Skip, QuietStep
<1> QED
  BY <1>2, <1>3, <1>4, <1>5, <1>6

\* The parameters of parse_fun_decl.
LEMMA ParamSteps ==
  ASSUME IInv, ParamNext \/ ParamDecl \/ GotParam \/ ParamComma \/ ParamsEnd
  PROVE  QuietStep
<1>1. CallsOK /\ FrameOK(Top, made) /\ cur.text \in Names /\ made \in Nat
  BY TopFacts DEF IInv, ReadOK, Names
<1>2. ASSUME ParamNext PROVE QuietStep
  <2>1. Top.at = "params"
    BY <1>2 DEF ParamNext, At
  <2>2. SameCall(Top.at, "got_param")
    BY <2>1 DEF SameCall, FunPlaces
  <2>3. made > 0
    <3>1. Top.node \in 1..made
      BY <1>1, <2>1 DEF FrameOK, FunPlaces
    <3> QED
      BY <1>1, <3>1
  <2>4. Moves
    BY <1>1, <1>2, <2>2, <2>3, EnterMoves, Callees DEF ParamNext
  <2> QED
    BY <1>2, <2>4 DEF ParamNext, At, Reads, Skip, QuietStep
<1>3. ASSUME ParamDecl PROVE QuietStep
  <2> DEFINE g == VarFrame(value, cur.text, made')
  <2>1. Goto(g) /\ made' \in {made, made + 1}
    BY <1>1, <1>3 DEF ParamDecl
  <2>2. FrameOK(g, made') /\ Plain(g) /\ Plain(Top)
    BY <1>1, <1>3, <2>1 DEF ParamDecl, At, FrameOK, VarFrame, Plain, Places, Roots, FunPlaces
  <2> HIDE DEF g
  <2>3. Continues(Top, g)
    BY <2>2 DEF Continues, Plain, InFun
  <2>4. Moves
    BY <2>1, <2>2, <2>3, GotoMoves
  <2> QED
    BY <1>3, <2>1, <2>4 DEF ParamDecl, At, Reads, Skip, QuietStep
<1>4. ASSUME GotParam PROVE QuietStep
  <2>1. PICK t \in NextTokens :
          /\ next_token(t)
          /\ Goto([Top EXCEPT
                     !.at = IF t.idx = "," THEN "comma" ELSE "params",
                     !.params = IF TooMany(@) THEN @ ELSE Append(@, value)])
    BY <1>4 DEF GotParam
  <2> DEFINE g == [Top EXCEPT
                     !.at = IF t.idx = "," THEN "comma" ELSE "params",
                     !.params = IF TooMany(@) THEN @ ELSE Append(@, value)]
  <2>2. /\ DOMAIN g = DOMAIN Top
        /\ "name" \in DOMAIN Top => g.name = Top.name
        /\ "node" \in DOMAIN Top => g.node = Top.node
    OBVIOUS
  <2>3. SameCall(Top.at, g.at)
    BY <1>1, <1>4 DEF GotParam, At, FrameOK, SameCall, RestPlaces, Places, Roots, FunPlaces
  <2> HIDE DEF g
  <2>4. Moves
    BY <1>1, <1>4, <2>1, <2>2, <2>3, SameFields DEF GotParam, g
  <2> QED
    BY <1>4, <2>4 DEF GotParam, At, Reads, Skip, QuietStep
<1>5. ASSUME ParamComma PROVE QuietStep
  <2>1. Moves
    BY <1>1, <1>5, GotoPlaceMoves
    DEF ParamComma, At, SameCall, RestPlaces, Places, Roots, FunPlaces
  <2> QED
    BY <1>5, <2>1 DEF ParamComma, At, Reads, Skip, QuietStep
<1>6. ASSUME ParamsEnd PROVE QuietStep
  <2>1. Moves
    BY <1>1, <1>6, GotoPlaceMoves
    DEF ParamsEnd, At, SameCall, RestPlaces, Places, Roots, FunPlaces
  <2> QED
    BY <1>6, <2>1 DEF ParamsEnd, At, Reads, Skip, QuietStep
<1> QED
  BY <1>2, <1>3, <1>4, <1>5, <1>6

\* parse_fun_body.
LEMMA BodySteps ==
  ASSUME IInv, BodyDecl \/ BodyExpr \/ BodyReturn \/ ReturnNext
  PROVE  QuietStep
<1>1. CallsOK /\ FrameOK(Top, made) /\ cur.text \in Names /\ made \in Nat
  BY TopFacts DEF IInv, ReadOK, Names
<1>2. ASSUME BodyDecl PROVE QuietStep
  <2>1. Moves
    BY <1>1, <1>2, EnterMoves, Callees
    DEF BodyDecl, At, SameCall, RestPlaces, Places, Roots, FunPlaces
  <2> QED
    BY <1>2, <2>1 DEF BodyDecl, At, Reads, Skip, QuietStep
<1>3. ASSUME BodyExpr PROVE QuietStep
  <2>1. Moves
    BY <1>1, <1>3, EnterMoves, Callees
    DEF BodyExpr, At, SameCall, RestPlaces, Places, Roots, FunPlaces
  <2> QED
    BY <1>3, <2>1 DEF BodyExpr, At, Reads, Skip, QuietStep
<1>4. ASSUME BodyReturn PROVE QuietStep
  <2>1. Moves
    BY <1>1, <1>4, GotoPlaceMoves
    DEF BodyReturn, At, SameCall, RestPlaces, Places, Roots, FunPlaces
  <2> QED
    BY <1>4, <2>1 DEF BodyReturn, At, Reads, Skip, QuietStep
<1>5. ASSUME ReturnNext PROVE QuietStep
  <2>1. Moves
    BY <1>1, <1>5, EnterMoves, Callees
    DEF ReturnNext, At, SameCall, RestPlaces, Places, Roots, FunPlaces
  <2> QED
    BY <1>5, <2>1 DEF ReturnNext, At, Reads, Skip, QuietStep
<1> QED
  BY <1>2, <1>3, <1>4, <1>5

\* parse_unary, parse_value and parse_funcall.
LEMMA ValueSteps ==
  ASSUME IInv, Prefix \/ ValueLit \/ ValueIdent \/ CallOpen \/ ArgNext \/ GotArg \/ ArgsEnd
  PROVE  QuietStep
<1>1. CallsOK /\ FrameOK(Top, made) /\ cur.text \in Names /\ made \in Nat
  BY TopFacts DEF IInv, ReadOK, Names
<1>2. ASSUME Prefix PROVE QuietStep
  <2> DEFINE g == [Top EXCEPT !.ops = Append(@, cur.idx)]
  <2>1. Goto(g) /\ UNCHANGED made
    BY <1>2 DEF Prefix
  <2>2. /\ DOMAIN g = DOMAIN Top
        /\ "name" \in DOMAIN Top => g.name = Top.name
        /\ "node" \in DOMAIN Top => g.node = Top.node
    OBVIOUS
  <2>3. SameCall(Top.at, g.at)
    BY <1>1, <1>2 DEF Prefix, At, FrameOK, SameCall, RestPlaces, Places, Roots, FunPlaces
  <2> HIDE DEF g
  <2>4. Moves
    BY <1>1, <2>1, <2>2, <2>3, SameFields
  <2> QED
    BY <1>2, <2>4 DEF Prefix, At, Reads, Skip, QuietStep
<1>3. ASSUME ValueLit PROVE QuietStep
  <2>1. Moves
    BY <1>1, <1>3, ReturnsMoves
    DEF ValueLit, At, Plain, Roots, FunPlaces
  <2> QED
    BY <1>3, <2>1 DEF ValueLit, At, Reads, Skip, QuietStep
<1>4. ASSUME ValueIdent PROVE QuietStep
  <2>1. Plain(Top)
    BY <1>4 DEF ValueIdent, At, Plain, Roots, FunPlaces
  <2>2. Moves
    BY <1>4, <2>1, FreshMoves, ReturnsMoves
    DEF ValueIdent, RestPlaces, Places, Roots, FunPlaces
  <2> QED
    BY <1>4, <2>2 DEF ValueIdent, At, Reads, Skip, QuietStep
<1>5. ASSUME CallOpen PROVE QuietStep
  <2>1. Moves
    BY <1>1, <1>5, FreshMoves
    DEF CallOpen, At, Plain, RestPlaces, Places, Roots, FunPlaces
  <2> QED
    BY <1>5, <2>1 DEF CallOpen, At, Reads, Skip, QuietStep
<1>6. ASSUME ArgNext PROVE QuietStep
  <2>1. Moves
    BY <1>1, <1>6, EnterMoves, Callees
    DEF ArgNext, At, SameCall, RestPlaces, Places, Roots, FunPlaces
  <2> QED
    BY <1>6, <2>1 DEF ArgNext, At, Reads, Skip, QuietStep
<1>7. ASSUME GotArg PROVE QuietStep
  <2> DEFINE g == [Top EXCEPT !.at = "args", !.args = Append(@, value)]
  <2>1. Goto(g) /\ UNCHANGED made
    BY <1>7 DEF GotArg
  <2>2. /\ DOMAIN g = DOMAIN Top
        /\ "name" \in DOMAIN Top => g.name = Top.name
        /\ "node" \in DOMAIN Top => g.node = Top.node
    OBVIOUS
  <2>3. SameCall(Top.at, g.at)
    BY <1>1, <1>7 DEF GotArg, At, FrameOK, SameCall, RestPlaces, Places, Roots, FunPlaces
  <2> HIDE DEF g
  <2>4. Moves
    BY <1>1, <2>1, <2>2, <2>3, SameFields
  <2> QED
    BY <1>7, <2>4 DEF GotArg, At, Reads, Skip, QuietStep
<1>8. ASSUME ArgsEnd PROVE QuietStep
  <2>1. Moves
    BY <1>1, <1>8, ReturnsMoves
    DEF ArgsEnd, At, Plain, Roots, FunPlaces
  <2> QED
    BY <1>8, <2>1 DEF ArgsEnd, At, Reads, Skip, QuietStep
<1> QED
  BY <1>2, <1>3, <1>4, <1>5, <1>6, <1>7, <1>8

\* parse_expr.
LEMMA ExprSteps ==
  ASSUME IInv, SumOpen \/ ProductOpen \/ AssignOpen \/ SumEnd \/ ProductEnd \/ AssignEnd \/ ExprEnd
  PROVE  QuietStep
<1>1. CallsOK /\ FrameOK(Top, made) /\ cur.text \in Names /\ made \in Nat
  BY TopFacts DEF IInv, ReadOK, Names
<1>2. ASSUME SumOpen PROVE QuietStep
  <2>1. Moves
    BY <1>1, <1>2, OperandMoves, Callees
    DEF SumOpen, Operand, At, Plain, RestPlaces, Places, Roots, FunPlaces
  <2> QED
    BY <1>2, <2>1 DEF SumOpen, Operand, At, Reads, Skip, QuietStep
<1>3. ASSUME ProductOpen PROVE QuietStep
  <2>1. Moves
    BY <1>1, <1>3, OperandMoves, Callees
    DEF ProductOpen, Operand, At, Plain, RestPlaces, Places, Roots, FunPlaces
  <2> QED
    BY <1>3, <2>1 DEF ProductOpen, Operand, At, Reads, Skip, QuietStep
<1>4. ASSUME AssignOpen PROVE QuietStep
  <2>1. Moves
    BY <1>1, <1>4, OperandMoves, Callees
    DEF AssignOpen, Operand, At, Plain, RestPlaces, Places, Roots, FunPlaces
  <2> QED
    BY <1>4, <2>1 DEF AssignOpen, Operand, At, Reads, Skip, QuietStep
<1>5. ASSUME SumEnd PROVE QuietStep
  <2>1. Moves
    BY <1>1, <1>5, ReturnsMoves
    DEF SumEnd, At, Plain, Roots, FunPlaces
  <2> QED
    BY <1>5, <2>1 DEF SumEnd, At, Reads, Skip, QuietStep
<1>6. ASSUME ProductEnd PROVE QuietStep
  <2>1. Moves
    BY <1>1, <1>6, FreshMoves
    DEF ProductEnd, At, Plain, RestPlaces, Places, Roots, FunPlaces
  <2> QED
    BY <1>6, <2>1 DEF ProductEnd, At, Reads, Skip, QuietStep
<1>7. ASSUME AssignEnd PROVE QuietStep
  <2>1. Moves
    BY <1>1, <1>7, ReturnsMoves
    DEF AssignEnd, At, Plain, Roots, FunPlaces
  <2> QED
    BY <1>7, <2>1 DEF AssignEnd, At, Reads, Skip, QuietStep
<1>8. ASSUME ExprEnd PROVE QuietStep
  <2>1. Moves
    BY <1>1, <1>8, ReturnsMoves
    DEF ExprEnd, At, Plain, Roots, FunPlaces
  <2> QED
    BY <1>8, <2>1 DEF ExprEnd, At, Reads, Skip, QuietStep
<1> QED
  BY <1>2, <1>3, <1>4, <1>5, <1>6, <1>7, <1>8

\* The end of a statement, or the error for one that has no semicolon.
LEMMA StatementEnds ==
  ASSUME IInv, StmtEnd
  PROVE  QuietStep \/ FailStep
<1>1. CallsOK /\ Top.at \in {"stmt", "returned"} /\ verdict = "parsing" /\ UNCHANGED <<cur, read>>
  BY DEF IInv, StmtEnd, At
<1>2. CASE cur.idx = ";"
  <2> DEFINE g == [Top EXCEPT !.at = "body", !.nodes = Append(@, Statement)]
  <2>1. Goto(g) /\ UNCHANGED <<made, verdict, ctx, symbols>>
    BY <1>2 DEF StmtEnd
  <2>2. /\ DOMAIN g = DOMAIN Top
        /\ "name" \in DOMAIN Top => g.name = Top.name
        /\ "node" \in DOMAIN Top => g.node = Top.node
    OBVIOUS
  <2>3. SameCall(Top.at, g.at)
    BY <1>1, TopFacts DEF FrameOK, SameCall, FunPlaces
  <2> HIDE DEF g
  <2>4. Moves
    BY <1>1, <2>1, <2>2, <2>3, SameFields
  <2> QED
    BY <1>1, <2>1, <2>4 DEF Reads, QuietStep
<1>3. CASE cur.idx # ";"
  BY <1>1, <1>3 DEF StmtEnd, Rejects, Reads, FailStep
<1> QED
  BY <1>2, <1>3

\* The errors of the parser.
LEMMA Failures ==
  ASSUME \/ ModuleOther \/ DeclOther \/ BodyOther \/ ValueOther \/ ExprOther
         \/ FunOpen /\ CtxFull
  PROVE  FailStep
<1>1. CASE ModuleOther
  BY <1>1 DEF ModuleOther, Rejects, Reads, FailStep
<1>2. CASE DeclOther
  BY <1>2 DEF DeclOther, Rejects, Reads, FailStep
<1>3. CASE BodyOther
  BY <1>3 DEF BodyOther, Rejects, Reads, FailStep
<1>4. CASE ValueOther
  BY <1>4 DEF ValueOther, Rejects, Reads, FailStep
<1>5. CASE ExprOther
  BY <1>5 DEF ExprOther, Rejects, Reads, FailStep
<1>6. CASE FunOpen /\ CtxFull
  BY <1>6 DEF FunOpen, Rejects, Reads, Skip, FailStep
<1> QED
  BY <1>1, <1>2, <1>3, <1>4, <1>5, <1>6

-----------------------------------------------------------------------------
(* Steps that change the contexts or the symbols. *)

\* A frame is not nested deeper than one above it.
LEMMA OpenFunsGrows ==
  ASSUME NEW s, NEW n \in Nat, NEW i \in 0..n
  PROVE  OpenFuns(s, i) <= OpenFuns(s, n) /\ OpenFuns(s, i) \in Nat /\ OpenFuns(s, n) \in Nat
<1> DEFINE F(m) == {j \in 1..m : InFun(s[j])}
<1>1. IsFiniteSet(1..n)
  BY FS_Interval
<1>2. F(n) \subseteq 1..n /\ F(i) \subseteq F(n)
  OBVIOUS
<1>3. IsFiniteSet(F(n))
  BY <1>1, <1>2, FS_Subset
<1>4. Cardinality(F(i)) <= Cardinality(F(n))
  BY <1>2, <1>3, FS_Subset
<1>5. OpenFuns(s, i) <= OpenFuns(s, n)
  BY <1>4 DEF OpenFuns
<1>6. OpenFuns(s, i) \in Nat /\ OpenFuns(s, n) \in Nat
  BY OpenFunsCounts
<1> QED
  BY <1>5, <1>6

\* Inside a file the stack of contexts is that of the calls.
LEMMA InsideFacts ==
  ASSUME IInv, verdict = "parsing", Top.at # "file"
  PROVE  /\ Follows(calls, ctx) /\ CallsOK
         /\ calls[1].at # "file" /\ Len(ctx) \in Nat \ {0} /\ ctx # <<>>
         /\ ctx \in Seq([name : Names \union {<<>>}, node : 0..made])
         /\ Front(ctx) \in Seq([name : Names \union {<<>>}, node : 0..made])
         /\ Len(Front(ctx)) = Len(ctx) - 1
         /\ \A i \in 1..Len(ctx) - 1 : Front(ctx)[i] = ctx[i]
<1>1. CallsOK /\ calls[1].at # "file" /\ Len(calls) \in Nat
  BY TopFacts DEF IInv
<1>2. Follows(calls, ctx)
  BY <1>1, ContextFollows DEF IInv
<1> DEFINE C == [name : Names \union {<<>>}, node : 0..made]
<1>3. ctx \in Seq(C)
  BY DEF IInv, TablesOK
<1> HIDE DEF C
<1>4. Len(ctx) \in Nat \ {0} /\ ctx # <<>>
  <2>1. Len(ctx) = 1 + OpenFuns(calls, Len(calls)) /\ OpenFuns(calls, Len(calls)) \in Nat
    BY <1>1, <1>2, OpenFunsCounts DEF Follows
  <2> QED
    BY <1>3, <2>1
<1>5. /\ Front(ctx) \in Seq(C)
      /\ Len(Front(ctx)) = Len(ctx) - 1
      /\ \A i \in 1..Len(ctx) - 1 : Front(ctx)[i] = ctx[i]
  <2> DEFINE n == Len(ctx) - 1
  <2>1. n \in Nat /\ \A i \in 1..n : ctx[i] \in C
    BY <1>3, <1>4, ElementOfSeq
  <2> HIDE DEF n
  <2>2. /\ SubSeq(ctx, 1, n) \in Seq(C)
        /\ Len(SubSeq(ctx, 1, n)) = n
        /\ \A i \in 1..n : SubSeq(ctx, 1, n)[i] = ctx[i]
    BY <2>1, SubSeqProperties
  <2> QED
    BY <2>2 DEF Front, n
<1> QED
  BY <1>1, <1>2, <1>3, <1>4, <1>5 DEF C

\* A new symbol has a node that was made.
LEMMA SymbolAdded ==
  ASSUME TablesOK, NEW key, NEW node \in 1..made, add_symbol(key, node)
  PROVE  symbols' \in [DOMAIN symbols' -> 1..made]
<1>1. DOMAIN symbols' = DOMAIN symbols \union {key}
  BY DEF add_symbol
<1>2. \A k \in DOMAIN symbols' : symbols'[k] \in 1..made
  BY DEF add_symbol, TablesOK
<1>3. symbols' = [k \in DOMAIN symbols' |-> symbols'[k]]
  BY <1>1 DEF add_symbol
<1> QED
  BY <1>2, <1>3

\* The end of a variable declaration, ...
LEMMA VarEndFacts ==
  ASSUME IInv, VarEnd
  PROVE  /\ verdict = "parsing" /\ Top.at \in {"var", "init"} /\ Moves
         /\ Top.name \in Names /\ Top.node \in 1..made
         /\ add_symbol(ParseKey(ctx, Top.name), Top.node)
         /\ UNCHANGED <<cur, read, made, verdict, ctx>>
<1>1. /\ verdict = "parsing" /\ Top.at \in {"var", "init"}
      /\ add_symbol(ParseKey(ctx, Top.name), Top.node)
      /\ UNCHANGED <<cur, read, made, verdict, ctx>>
      /\ \E v : Returns(v)
  BY DEF VarEnd, At
<1>2. Top.name \in Names /\ Top.node \in 1..made
  BY <1>1, TopFacts DEF IInv, FrameOK
<1>3. Moves
  BY <1>1, ReturnsMoves DEF Plain, Roots, FunPlaces
<1> QED
  BY <1>1, <1>2, <1>3

\* ... which keeps the invariant.
LEMMA VarEndInv ==
  ASSUME IInv, VarEnd PROVE IInv'
<1>1. CallsOK' /\ ContextIsCalls'
  BY VarEndFacts, MovesInv
<1>2. TablesOK'
  <2>1. symbols' \in [DOMAIN symbols' -> 1..made]
    BY VarEndFacts, SymbolAdded DEF IInv
  <2> QED
    BY <2>1, VarEndFacts DEF IInv, TablesOK, Names, Readable
<1>3. ReadOK'
  BY VarEndFacts, ReadsInv DEF Reads, IInv
<1> QED
  BY <1>1, <1>2, <1>3, VarEndFacts DEF IInv

\* The first step opens the context of the file.
LEMMA ParseFileInv ==
  ASSUME IInv, ParseFile PROVE IInv'
<1> DEFINE g == [at |-> "module", nodes |-> <<>>]
<1>1. /\ verdict = "parsing" /\ Top.at = "file" /\ Becomes(<<g>>)
      /\ ctx' = Append(ctx, FileFrame(0))
      /\ UNCHANGED <<cur, read, made, verdict, symbols>>
  BY DEF ParseFile, At, Goto, ctx_push
<1>2. FrameOK(g, made') /\ g.at = "module"
  BY DEF FrameOK, Places, FunPlaces
<1> HIDE DEF g
<1>3. Len(calls) = 1 /\ calls[1].at = "file"
  <2>1. Len(calls) \in Nat \ {0} /\ Top = calls[Len(calls)]
    BY TopFacts DEF IInv
  <2> QED
    BY <1>1, <2>1 DEF IInv, CallsOK, Roots
<1>4. ctx = <<>>
  BY <1>1, <1>3 DEF IInv, ContextIsCalls
<1>5. ctx' = <<FileFrame(0)>>
  BY <1>1, <1>4
<1>6. IsSequence(<<g>>) /\ Len(<<g>>) = 1 /\ <<g>>[1] = g /\ <<g>> # <<>>
  BY Lists
<1>7. Fits(Top, <<g>>, made')
  BY <1>1, <1>2, <1>6 DEF Fits, Roots
<1>8. CallsOK'
  BY <1>1, <1>7, FitsCalls DEF IInv
<1>9. Len(calls') = 1 /\ calls'[1] = g
  <2>1. Replaced(calls, <<g>>, calls')
    BY <1>1, <1>6, ReplaceLast DEF Becomes, IInv, CallsOK
  <2> QED
    BY <1>3, <1>6, <2>1 DEF Replaced
<1>10. ContextIsCalls'
  <2>1. ~InFun(g)
    BY <1>2 DEF InFun, FunPlaces
  <2>2. OpenFuns(calls', 1) = 0
    BY <1>9, <2>1, OpenFunsCounts, OpenFunsFlat
  <2>3. DOMAIN calls' = 1..1
    BY <1>8, <1>9, SequenceFacts DEF CallsOK
  <2>4. Len(ctx') = 1 /\ ctx'[1] = FileFrame(0)
    BY <1>5
  <2> QED
    BY <1>2, <1>9, <2>1, <2>2, <2>3, <2>4 DEF ContextIsCalls
<1>11. TablesOK'
  <2>1. FileFrame(0) \in [name : Names \union {<<>>}, node : 0..made]
    BY DEF FileFrame, IInv
  <2>2. ctx' \in Seq([name : Names \union {<<>>}, node : 0..made])
    BY <1>5, <2>1
  <2> QED
    BY <1>1, <2>2 DEF IInv, TablesOK, Names, Readable
<1>12. ReadOK'
  BY <1>1, ReadsInv DEF Reads, IInv
<1> QED
  BY <1>1, <1>8, <1>10, <1>11, <1>12 DEF IInv

\* The last step closes it.
LEMMA ModuleEndInv ==
  ASSUME IInv, ModuleEnd PROVE IInv'
<1>1. /\ verdict = "parsing" /\ Top.at = "module" /\ verdict' = "parsed" /\ Reads
      /\ ctx' = Front(ctx) /\ UNCHANGED <<calls, made, symbols>>
  BY DEF ModuleEnd, At, ctx_pop, Reads
<1>2. CallsOK'
  BY <1>1 DEF IInv, CallsOK, FrameOK, Names, Readable
<1>3. TablesOK'
  <2>1. ctx' \in Seq([name : Names \union {<<>>}, node : 0..made])
    BY <1>1, InsideFacts
  <2> QED
    BY <1>1, <2>1 DEF IInv, TablesOK, Names, Readable
<1> QED
  BY <1>1, <1>2, <1>3, ReadsInv DEF IInv, ContextIsCalls

\* It leaves no context behind.
LEMMA ModuleEndEmpties ==
  ASSUME IInv, ModuleEnd PROVE ctx' = <<>>
<1>1. verdict = "parsing" /\ Top.at = "module" /\ ctx' = Front(ctx)
  BY DEF ModuleEnd, At, ctx_pop
<1>2. /\ Follows(calls, ctx) /\ CallsOK /\ ctx \in Seq([name : Names \union {<<>>}, node : 0..made])
      /\ Front(ctx) \in Seq([name : Names \union {<<>>}, node : 0..made])
      /\ Len(Front(ctx)) = Len(ctx) - 1
  BY <1>1, InsideFacts
<1>3. Len(calls) = 1
  <2>1. /\ Len(calls) \in Nat \ {0} /\ Top = calls[Len(calls)]
        /\ \A i \in 2..Len(calls) : calls[i].at \notin Roots
    BY TopFacts DEF IInv, CallsOK
  <2>2. ~(Len(calls) \in 2..Len(calls))
    BY <1>1, <2>1 DEF Roots
  <2>3. \A n \in Nat \ {0} : n = 1 \/ n \in 2..n
    OBVIOUS
  <2> QED
    BY <2>1, <2>2, <2>3
<1>4. OpenFuns(calls, 1) = 0
  <2>1. calls[1].at = "module"
    BY <1>1, <1>3, TopFacts DEF IInv
  <2>2. {j \in 1..1 : InFun(calls[j])} = {}
    BY <2>1 DEF InFun, FunPlaces
  <2> QED
    BY <2>2, FS_EmptySet DEF OpenFuns
<1>5. Len(ctx) = 1
  BY <1>2, <1>3, <1>4 DEF Follows
<1> QED
  BY <1>1, <1>2, <1>5, EmptySeq

\* The frame of a function that is opened is nested one deeper.
LEMMA Deeper ==
  ASSUME NEW s, IsSequence(s), s # <<>>, NEW c, NEW C, c \in Seq(C), Follows(s, c),
         ~InFun(Last(s)), NEW g, InFun(g), NEW r, NEW d, d = Append(c, FunFrame(g.name, g.node)),
         FunFrame(g.name, g.node) \in C, Replaced(s, <<g>>, r)
  PROVE  Follows(r, d)
<1> DEFINE n == Len(s)
<1>1. n \in Nat \ {0} /\ Last(s) = s[n]
  BY SequenceFacts DEF Last
<1>2. /\ Len(r) = n /\ r[n] = g
      /\ \A i \in 1..n - 1 : r[i] = s[i]
  <2>1. Len(<<g>>) = 1 /\ <<g>>[1] = g
    OBVIOUS
  <2> QED
    BY <1>1, <2>1 DEF Replaced
<1>3. Len(c) = 1 + OpenFuns(s, n) /\ c[1] = FileFrame(0)
  BY DEF Follows
<1> HIDE DEF n
<1>4. n - 1 \in Nat /\ n - 1 + 1 = n
  BY <1>1
<1>5. OpenFuns(s, n) = OpenFuns(s, n - 1) /\ OpenFuns(s, n - 1) \in Nat
  BY <1>1, <1>4, OpenFunsCounts
<1>6. \A i \in 0..n - 1 : OpenFuns(r, i) = OpenFuns(s, i)
  <2> TAKE i \in 0..n - 1
  <2>1. i \in Nat /\ \A j \in 1..i : r[j] = s[j]
    BY <1>1, <1>2
  <2> QED
    BY <2>1, OpenFunsAgrees
<1>7. OpenFuns(r, n) = OpenFuns(s, n) + 1
  <2>1. OpenFuns(r, n) = OpenFuns(r, n - 1) + 1
    BY <1>2, <1>4, OpenFunsCounts
  <2>2. OpenFuns(r, n - 1) = OpenFuns(s, n - 1)
    BY <1>4, <1>6
  <2> QED
    BY <1>5, <2>1, <2>2
<1>8. /\ Len(d) = Len(c) + 1 /\ d[Len(c) + 1] = FunFrame(g.name, g.node)
      /\ \A i \in 1..Len(c) : d[i] = c[i]
  BY AppendProperties
<1>9. Len(d) = 1 + OpenFuns(r, Len(r)) /\ d[1] = FileFrame(0)
  BY <1>2, <1>3, <1>5, <1>7, <1>8
<1>10. ASSUME NEW i \in 1..Len(r), InFun(r[i])
       PROVE  d[1 + OpenFuns(r, i)] = FunFrame(r[i].name, r[i].node)
  <2>1. CASE i = n
    <3>1. 1 + OpenFuns(r, i) = Len(c) + 1
      BY <1>3, <1>5, <1>7, <2>1
    <3> QED
      BY <1>2, <1>8, <2>1, <3>1
  <2>2. CASE i # n
    <3>1. i \in 1..n - 1 /\ i \in 1..n /\ i \in 0..n - 1 /\ i \in 0..n
      BY <1>1, <1>2, <2>2
    <3>2. r[i] = s[i] /\ OpenFuns(r, i) = OpenFuns(s, i)
      BY <1>2, <1>6, <3>1
    <3>3. 1 + OpenFuns(s, i) \in 1..Len(c)
      <4>1. OpenFuns(s, i) <= OpenFuns(s, n) /\ OpenFuns(s, i) \in Nat
        BY <1>1, <3>1, OpenFunsGrows
      <4> QED
        BY <1>3, <1>5, <4>1
    <3>4. c[1 + OpenFuns(s, i)] = FunFrame(s[i].name, s[i].node)
      BY <1>10, <3>1, <3>2 DEF Follows, n
    <3> QED
      BY <1>8, <3>2, <3>3, <3>4
  <2> QED
    BY <2>1, <2>2
<1> QED
  BY <1>9, <1>10 DEF Follows

\* When a function is left the contexts are those of the calls below.
LEMMA Shallower ==
  ASSUME NEW s, IsSequence(s), Len(s) > 1, NEW c, Follows(s, c),
         InFun(Last(s)), NEW r, Replaced(s, <<>>, r),
         NEW d, Len(d) = Len(c) - 1, \A i \in 1..Len(c) - 1 : d[i] = c[i]
  PROVE  Follows(r, d) /\ Last(c) = FunFrame(Last(s).name, Last(s).node)
<1> DEFINE n == Len(s)
<1>1. n \in Nat /\ n > 1 /\ Last(s) = s[n]
  BY SequenceFacts DEF Last
<1>2. Len(r) = n - 1 /\ \A i \in 1..n - 1 : r[i] = s[i]
  <2>1. Len(<<>>) = 0
    OBVIOUS
  <2> QED
    BY <1>1, <2>1 DEF Replaced
<1>3. Len(c) = 1 + OpenFuns(s, n) /\ c[1] = FileFrame(0)
  BY DEF Follows
<1>4. c[1 + OpenFuns(s, n)] = FunFrame(Last(s).name, Last(s).node)
  BY <1>1 DEF Follows
<1> HIDE DEF n
<1>5. n - 1 \in Nat /\ n - 1 + 1 = n
  BY <1>1
<1>6. OpenFuns(s, n) = OpenFuns(s, n - 1) + 1 /\ OpenFuns(s, n - 1) \in Nat
  BY <1>1, <1>5, OpenFunsCounts
<1>7. \A i \in 0..n - 1 : OpenFuns(r, i) = OpenFuns(s, i)
  <2> TAKE i \in 0..n - 1
  <2>1. i \in Nat /\ \A j \in 1..i : r[j] = s[j]
    BY <1>1, <1>2
  <2> QED
    BY <2>1, OpenFunsAgrees
<1>8. Last(c) = FunFrame(Last(s).name, Last(s).node)
  BY <1>3, <1>4 DEF Last
<1>9. Len(d) = 1 + OpenFuns(r, Len(r)) /\ d[1] = FileFrame(0)
  <2>1. OpenFuns(r, n - 1) = OpenFuns(s, n - 1)
    BY <1>5, <1>7
  <2>2. Len(d) = 1 + OpenFuns(s, n - 1) /\ 1 \in 1..Len(c) - 1
    BY <1>3, <1>6
  <2> QED
    BY <1>2, <1>3, <2>1, <2>2
<1>10. ASSUME NEW i \in 1..Len(r), InFun(r[i])
       PROVE  d[1 + OpenFuns(r, i)] = FunFrame(r[i].name, r[i].node)
  <2>1. i \in 1..n /\ i \in 0..n - 1 /\ r[i] = s[i]
    BY <1>1, <1>2
  <2>2. OpenFuns(r, i) = OpenFuns(s, i)
    BY <1>7, <2>1
  <2>3. OpenFuns(s, i) <= OpenFuns(s, n - 1) /\ OpenFuns(s, i) \in Nat
    BY <1>5, <2>1, OpenFunsGrows
  <2>4. 1 + OpenFuns(s, i) \in 1..Len(c) - 1
    BY <1>3, <1>6, <2>3
  <2>5. c[1 + OpenFuns(s, i)] = FunFrame(s[i].name, s[i].node)
    BY <1>10, <2>1 DEF Follows, n
  <2> QED
    BY <2>1, <2>2, <2>4, <2>5
<1> QED
  BY <1>8, <1>9, <1>10 DEF Follows

\* A context for calls that are well formed.
LEMMA FollowsIs ==
  ASSUME NEW s, NEW c, Follows(s, c), IsSequence(s)
  PROVE  \A i \in DOMAIN s : InFun(s[i]) =>
           c[1 + OpenFuns(s, i)] = FunFrame(s[i].name, s[i].node)
  BY SequenceFacts DEF Follows

\* The context of a function is opened for the call that is on top.
LEMMA FunOpenInv ==
  ASSUME IInv, FunOpen, ~CtxFull
  PROVE  IInv' /\ ctx' = Append(ctx, FunFrame(Top.name, made + 1))
<1> DEFINE g == [at |-> "params", type |-> Top.type, name |-> Top.name,
                 node |-> made + 1, params |-> <<>>, nodes |-> <<>>]
<1>1. /\ verdict = "parsing" /\ Top.at = "fun" /\ Becomes(<<g>>)
      /\ ctx' = Append(ctx, FunFrame(Top.name, made + 1))
      /\ made' = made + 1 /\ UNCHANGED <<verdict, symbols>> /\ Reads
  BY DEF FunOpen, At, Goto, ctx_push, Reads, Skip
<1>2. made \in Nat /\ made' \in Nat /\ made <= made' /\ Top.name \in Names
  BY <1>1, TopFacts DEF IInv, FrameOK
<1>3. /\ g.at = "params" /\ g.name = Top.name /\ g.node = made + 1
      /\ DOMAIN g = {"at", "type", "name", "node", "params", "nodes"}
  OBVIOUS
<1> HIDE DEF g
<1>4. FrameOK(g, made') /\ InFun(g) /\ g.at \notin Roots
  <2>1. g.node \in 1..made'
    BY <1>1, <1>2, <1>3
  <2> QED
    BY <1>2, <1>3, <2>1 DEF FrameOK, Places, FunPlaces, InFun, Roots
<1>5. IsSequence(<<g>>) /\ Len(<<g>>) = 1 /\ <<g>>[1] = g /\ <<g>> # <<>>
  BY Lists
<1>6. Fits(Top, <<g>>, made')
  BY <1>1, <1>4, <1>5 DEF Fits, Roots
<1>7. CallsOK' /\ calls'[1].at # "file"
  BY <1>1, <1>2, <1>6, FitsCalls DEF IInv
<1> DEFINE C == [name : Names \union {<<>>}, node : 0..made']
<1>8. ctx \in Seq(C)
  <2>1. 0..made \subseteq 0..made'
    BY <1>2
  <2>2. [name : Names \union {<<>>}, node : 0..made] \subseteq C
    BY <2>1
  <2> QED
    BY <2>2, WiderSeq DEF IInv, TablesOK
<1>9. FunFrame(Top.name, made + 1) \in C
  BY <1>1, <1>2 DEF FunFrame
<1> HIDE DEF C
<1>10. Follows(calls', ctx')
  <2>1. Replaced(calls, <<g>>, calls')
    BY <1>1, <1>5, ReplaceLast DEF Becomes, IInv, CallsOK
  <2>2. ~InFun(Last(calls))
    BY <1>1 DEF InFun, FunPlaces, Top
  <2>3. Follows(calls, ctx) /\ IsSequence(calls) /\ calls # <<>>
    BY <1>1, InsideFacts DEF CallsOK
  <2> QED
    BY <1>1, <1>3, <1>4, <1>8, <1>9, <2>1, <2>2, <2>3, Deeper
<1>11. ContextIsCalls'
  BY <1>7, <1>10, FollowsIs DEF ContextIsCalls, Follows, CallsOK
<1>12. TablesOK'
  <2>1. ctx' \in Seq(C)
    BY <1>1, <1>8, <1>9, AppendProperties
  <2>2. 1..made \subseteq 1..made'
    BY <1>2
  <2>3. symbols \in [DOMAIN symbols -> 1..made']
    BY <2>2 DEF IInv, TablesOK
  <2> QED
    BY <1>1, <2>1, <2>3 DEF TablesOK, C, Names, Readable
<1>13. ReadOK'
  BY <1>1, ReadsInv DEF IInv
<1> QED
  BY <1>1, <1>2, <1>7, <1>11, <1>12, <1>13 DEF IInv

\* The end of a function closes the context that was opened for it, ...
LEMMA BodyEndFacts ==
  ASSUME IInv, BodyEnd
  PROVE  /\ verdict = "parsing" /\ Top.at = "body" /\ Reads /\ Becomes(<<>>)
         /\ ctx' = Front(ctx) /\ ctx # <<>>
         /\ add_symbol(ParseKey(ctx', Top.name), Top.node)
         /\ UNCHANGED <<made, verdict>>
         /\ Top.node \in 1..made
         /\ Follows(calls', ctx') /\ Last(ctx) = FunFrame(Top.name, Top.node)
<1>1. /\ verdict = "parsing" /\ Top.at = "body" /\ Reads /\ Becomes(<<>>)
      /\ ctx' = Front(ctx)
      /\ add_symbol(ParseKey(ctx', Top.name), Top.node)
      /\ UNCHANGED <<made, verdict>>
  BY DEF BodyEnd, At, Reads, ctx_pop, Returns
<1>2. Top.node \in 1..made /\ InFun(Top)
  BY <1>1, TopFacts DEF IInv, FrameOK, FunPlaces, InFun
<1>3. IsSequence(calls) /\ calls # <<>> /\ Len(calls) > 1
  <2>1. Len(calls) \in Nat \ {0} /\ Top = calls[Len(calls)] /\ CallsOK
    BY TopFacts DEF IInv
  <2>2. Len(calls) # 1
    BY <1>1, <2>1 DEF CallsOK, Roots
  <2>3. IsSequence(calls) /\ calls # <<>>
    BY <2>1 DEF CallsOK
  <2> QED
    BY <2>1, <2>2, <2>3
<1>4. Replaced(calls, <<>>, calls')
  BY <1>1, <1>3, Lists, ReplaceLast DEF Becomes
<1>5. /\ Follows(calls, ctx) /\ ctx # <<>> /\ Len(ctx') = Len(ctx) - 1
      /\ \A i \in 1..Len(ctx) - 1 : ctx'[i] = ctx[i]
  BY <1>1, InsideFacts
<1>6. Follows(calls', ctx') /\ Last(ctx) = FunFrame(Top.name, Top.node)
  BY <1>2, <1>3, <1>4, <1>5, Shallower DEF Top
<1> QED
  BY <1>1, <1>2, <1>5, <1>6

\* ... which keeps the invariant.
LEMMA BodyEndInv ==
  ASSUME IInv, BodyEnd PROVE IInv'
<1>1. Fits(Top, <<>>, made')
  <2>1. IsSequence(<<>>)
    BY Lists
  <2>2. Len(<<>>) = 0 /\ 1..0 = {} /\ 2..0 = {}
    OBVIOUS
  <2>3. Top.at \notin Roots
    BY BodyEndFacts DEF Roots
  <2> QED
    BY <2>1, <2>2, <2>3 DEF Fits
<1>2. CallsOK' /\ calls'[1].at # "file"
  BY <1>1, BodyEndFacts, FitsCalls DEF IInv
<1>3. ContextIsCalls'
  BY <1>2, BodyEndFacts, FollowsIs DEF ContextIsCalls, Follows, CallsOK
<1>4. TablesOK'
  <2>1. symbols' \in [DOMAIN symbols' -> 1..made]
    BY BodyEndFacts, SymbolAdded DEF IInv
  <2>2. ctx' \in Seq([name : Names \union {<<>>}, node : 0..made])
    BY BodyEndFacts, InsideFacts
  <2> QED
    BY <2>1, <2>2, BodyEndFacts DEF TablesOK, Names, Readable
<1>5. ReadOK'
  BY BodyEndFacts, ReadsInv DEF IInv
<1> QED
  BY <1>2, <1>3, <1>4, <1>5, BodyEndFacts DEF IInv

-----------------------------------------------------------------------------
(* The theorems. *)

\* The invariant holds when the parser starts.
LEMMA InitInv ==
  Init => IInv
<1> SUFFICES ASSUME Init PROVE IInv
  OBVIOUS
<1> DEFINE g == [at |-> "file"]
<1>1. calls = <<g>> /\ ctx = <<>> /\ symbols = <<>> /\ made = 0 /\ read = <<>>
  BY DEF Init
<1>2. FrameOK(g, made) /\ g.at = "file"
  BY DEF FrameOK, Places, FunPlaces
<1> HIDE DEF g
<1>3. IsSequence(calls) /\ Len(calls) = 1 /\ calls[1] = g /\ calls # <<>>
  BY <1>1, Lists
<1>4. CallsOK
  BY <1>2, <1>3 DEF CallsOK, Roots
<1>5. ContextIsCalls
  BY <1>1, <1>2, <1>3 DEF ContextIsCalls
<1>6. TablesOK
  BY <1>1 DEF TablesOK
<1>7. ReadOK
  BY <1>1 DEF Init, ReadOK, Readable
<1> QED
  BY <1>1, <1>4, <1>5, <1>6, <1>7 DEF Init, IInv

\* Every step is one of these.
LEMMA StepKinds ==
  ASSUME IInv, Next
  PROVE  \/ QuietStep \/ FailStep \/ ParseFile \/ ModuleEnd \/ VarEnd
         \/ (FunOpen /\ ~CtxFull) \/ BodyEnd
<1>1. CASE Module
  BY <1>1, ModuleSteps, Failures DEF Module
<1>2. CASE Decl
  BY <1>2, DeclSteps, Failures DEF Decl
<1>3. CASE Function
  BY <1>3, ParamSteps, BodySteps, StatementEnds, Failures DEF Function
<1>4. CASE Value
  BY <1>4, ValueSteps, Failures DEF Value
<1>5. CASE Expr
  BY <1>5, ExprSteps, Failures DEF Expr
<1> QED
  BY <1>1, <1>2, <1>3, <1>4, <1>5 DEF Next

\* The file is parsed with no context open.
LEMMA ParsedEmpty ==
  ASSUME IInv, Next, verdict' = "parsed" PROVE ctx' = <<>>
<1>1. CASE ModuleEnd
  BY <1>1, ModuleEndEmpties
<1>2. CASE ~ModuleEnd
  <2>1. verdict = "parsing" /\ verdict' \in {verdict, "rejected"}
    BY <1>2, StepKinds DEF QuietStep, FailStep, ParseFile, VarEnd, FunOpen, BodyEnd, At
  <2> QED
    BY <2>1
<1> QED
  BY <1>1, <1>2

\* Every step keeps the invariant.
LEMMA NextInv ==
  IInv /\ [Next]_vars => IInv'
<1> SUFFICES ASSUME IInv, [Next]_vars PROVE IInv'
  OBVIOUS
<1>1. CASE Next
  BY <1>1, StepKinds, QuietInv, FailInv, ParseFileInv, ModuleEndInv, VarEndInv,
     FunOpenInv, BodyEndInv
<1>2. CASE UNCHANGED vars
  <2>1. CallsOK'
    BY <1>2 DEF vars, IInv, CallsOK, FrameOK, Names, Readable
  <2>2. TablesOK' /\ ReadOK' /\ ContextIsCalls'
    BY <1>2 DEF vars, IInv, TablesOK, Names, Readable, ReadOK, ContextIsCalls
  <2> QED
    BY <1>2, <2>1, <2>2 DEF vars, IInv
<1> QED
  BY <1>1, <1>2

\* The invariant always holds.
LEMMA InvHolds ==
  Spec => []IInv
<1> QED
  BY InitInv, NextInv, PTL DEF Spec

\* The variables of the parser keep their shape: frames, tokens, contexts and
\* symbols refer to declarations that have been made.
THEOREM TypeCorrect ==
  Spec => []TypeOK
<1> QED
  BY InvHolds, InvTypes, PTL

\* Whatever the tokens and however deep functions are nested, the contexts are
\* the file and the functions that are open (context.c, ast_build.c:455-540).
THEOREM ContextCorrect ==
  Spec => []ContextIsCalls
<1>1. IInv => ContextIsCalls
  BY DEF IInv
<1> QED
  BY <1>1, InvHolds, PTL

\* Adding a symbol binds its key, unless it is bound.
LEMMA AddBinds ==
  ASSUME TablesOK, NEW key, NEW node, add_symbol(key, node)
  PROVE  key \in DOMAIN symbols' /\ Scope!Binds(key, node)
         /\ Scope!Binds(key, symbols'[key])
<1>1. symbols' = [k \in DOMAIN symbols \union {key} |->
                    IF k \in DOMAIN symbols THEN symbols[k] ELSE node]
  BY DEF add_symbol
<1>2. symbols = [k \in DOMAIN symbols |-> symbols[k]]
  BY DEF TablesOK
<1>3. CASE key \in DOMAIN symbols
  <2>1. DOMAIN symbols \union {key} = DOMAIN symbols
    BY <1>3
  <2>2. symbols' = symbols
    BY <1>1, <1>2, <2>1
  <2> QED
    BY <1>3, <2>2 DEF Scope!Binds
<1>4. CASE key \notin DOMAIN symbols
  <2>1. symbols' = [k \in DOMAIN symbols \union {key} |->
                      IF k = key THEN node ELSE symbols[k]]
    BY <1>1, <1>4
  <2>2. key \in DOMAIN symbols' /\ symbols'[key] = node
    BY <2>1
  <2> QED
    BY <1>4, <2>1, <2>2 DEF Scope!Binds
<1> QED
  BY <1>3, <1>4

\* Every step does to contexts and symbols what Scopes allows, or nothing.
LEMMA ScopeStep ==
  IInv /\ [Next]_vars => [Scope!Next]_<<ctx, symbols>>
<1> SUFFICES ASSUME IInv, Next PROVE [Scope!Next]_<<ctx, symbols>>
  BY DEF vars
<1>1. CASE QuietStep \/ FailStep
  BY <1>1 DEF QuietStep, FailStep
<1>2. CASE ParseFile
  <2>1. Top.at = "file" /\ verdict = "parsing" /\ UNCHANGED symbols
        /\ ctx' = Append(ctx, FileFrame(0))
    BY <1>2 DEF ParseFile, At, ctx_push
  <2>2. Len(calls) \in Nat \ {0} /\ Top = calls[Len(calls)] /\ CallsOK
    BY TopFacts DEF IInv
  <2>3. calls[1].at = "file"
    BY <2>1, <2>2 DEF CallsOK, Roots
  <2>4. ctx = <<>>
    BY <2>1, <2>3 DEF IInv, ContextIsCalls
  <2>5. Len(ctx) = 0 /\ ctx' = <<FileFrame(0)>> /\ ctx' # <<>>
    BY <2>1, <2>4
  <2>6. ctx' = Append(ctx, ctx'[Len(ctx')])
    BY <2>4, <2>5
  <2>7. Scope!Enter
    BY <2>1, <2>5, <2>6, ContextAssumption DEF Scope!Enter, Scope!ctx_push, Scope!Last
  <2> QED
    BY <2>7 DEF Scope!Next
<1>3. CASE ModuleEnd
  <2>1. ctx # <<>> /\ ctx' = Front(ctx) /\ UNCHANGED symbols
    BY <1>3, InsideFacts DEF ModuleEnd, At, ctx_pop
  <2>2. Scope!Leave
    BY <2>1 DEF Scope!Leave, Scope!ctx_pop, Scope!Front, Front
  <2> QED
    BY <2>2 DEF Scope!Next
<1>4. CASE VarEnd
  <2>1. ctx # <<>> /\ UNCHANGED ctx /\ Top.name \in Names
        /\ add_symbol(ParseKey(ctx, Top.name), Top.node)
    BY <1>4, VarEndFacts, InsideFacts
  <2> DEFINE key == ParseKey(ctx, Top.name)
  <2>2. key \in DOMAIN symbols' /\ Scope!Binds(key, symbols'[key])
    BY <2>1, AddBinds DEF IInv
  <2>3. key = Scope!ctx_currname(ctx) \o Top.name
    BY DEF ParseKey, ctx_currname, Scope!ctx_currname, FlattenSeq, Scope!FlattenSeq
  <2> HIDE DEF key
  <2>4. Scope!Declare
    BY <2>1, <2>2, <2>3 DEF Scope!Declare, Names
  <2> QED
    BY <2>4 DEF Scope!Next
<1>5. CASE FunOpen /\ ~CtxFull
  <2>1. ctx' = Append(ctx, FunFrame(Top.name, made + 1)) /\ UNCHANGED symbols
    BY <1>5, FunOpenInv DEF FunOpen
  <2>2. PICK C : ctx \in Seq(C)
    BY DEF IInv, TablesOK
  <2>3. Len(ctx) \in Nat /\ Len(ctx) < MAX_CONTEXT
    BY <1>5, <2>2, ContextAssumption DEF CtxFull
  <2>4. ctx' # <<>> /\ ctx'[Len(ctx')] = FunFrame(Top.name, made + 1)
    BY <2>1, <2>2
  <2>5. Scope!Enter
    BY <2>1, <2>3, <2>4 DEF Scope!Enter, Scope!ctx_push, Scope!Last
  <2> QED
    BY <2>5 DEF Scope!Next
<1>6. CASE BodyEnd
  <2>1. /\ ctx' = Front(ctx) /\ ctx # <<>>
        /\ Last(ctx) = FunFrame(Top.name, Top.node)
        /\ add_symbol(ParseKey(ctx', Top.name), Top.node)
    BY <1>6, BodyEndFacts
  <2> DEFINE key == ParseKey(ctx', Top.name)
  <2>2. Scope!Binds(key, Top.node)
    BY <2>1, AddBinds DEF IInv
  <2>3. key = Scope!ctx_currname(ctx') \o Top.name
    BY DEF ParseKey, ctx_currname, Scope!ctx_currname, FlattenSeq, Scope!FlattenSeq
  <2>4. Scope!ctx_peek.name = Top.name /\ Scope!ctx_peek.node = Top.node
    BY <2>1 DEF Scope!ctx_peek, Scope!Last, Last, FunFrame
  <2> HIDE DEF key
  <2>5. Scope!LeaveDeclaring
    BY <2>1, <2>2, <2>3, <2>4
    DEF Scope!LeaveDeclaring, Scope!ctx_pop, Scope!Front, Front
  <2> QED
    BY <2>5 DEF Scope!Next
<1> QED
  BY <1>1, <1>2, <1>3, <1>4, <1>5, <1>6, StepKinds

\* What the parser does to the contexts and the symbols is what Scopes allows.
THEOREM ScopesKept ==
  Spec => KeepsScopes
<1>1. Init => Scope!Init
  BY DEF Init, Scope!Init
<1> QED
  BY <1>1, InvHolds, ScopeStep, PTL DEF Spec, KeepsScopes, Scope!Spec
=============================================================================
