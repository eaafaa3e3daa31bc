----------------------------- MODULE MCDesugar ------------------------------
(***************************************************************************)
(* Desugar on all the files of a few shapes, and on the samples of the     *)
(* repository.                                                             *)
(***************************************************************************)
EXTENDS TypeChecker, Samples

(***************************************************************************)
(* A function of one parameter and a main that declares two variables,     *)
(* runs a statement and returns.                                           *)
(***************************************************************************)
OneParam == {Fun(IntT, f, <<Decl(IntT, p)>>, <<Return(P)>>),
             Fun(IntT, f, <<Decl(IntT, p)>>, <<Return(Add(P, Mul(P, IntLit)))>>),
             Fun(IntT, f, <<Decl(PtrTo(IntT), p)>>, <<Return(Deref(P))>>),
             Fun(PtrTo(CharT), f, <<Decl(PtrTo(IntT), p)>>, <<Return(StrLit)>>)}
Values == {CharLit, A, B, Deref(A), Ref(A), Ref(B), Deref(Ref(B)), Ref(CharLit),
           Ref(IntLit), Add(A, B), Mul(A, B), Call(f, <<A>>), Call(f, <<Ref(B)>>),
           Deref(Call(f, <<Ref(CharLit)>>))}
Statements == {Assign(d, v) : d \in {A, Deref(A)}, v \in Values} \union
              {Call(f, <<v>>) : v \in Values} \union
              {Call(f, <<StrLit, A>>), Call(a, <<>>), Assign(Assign(A, B), CharLit)}
Shapes ==
  {<<fun, Main(<<Decl(ta, a), Decl(tb, b), s, Return(r)>>)>> :
     fun \in OneParam, ta \in {IntT, PtrTo(IntT)}, tb \in {IntT, CharT},
     s \in Statements, r \in {IntLit, A, B, Add(IntLit, B), Deref(A), Call(f, <<B>>)}}

(* Redeclarations, initialisers (one may read its own variable, or one that *)
(* is initialised later), the order of declarations.                        *)
Redeclarations ==
  {<<Main(<<Let(t, a, e), Var(u, n, i), Assign(A, v), Return(IntLit)>>)>> :
     t \in {IntT, CharT, PtrTo(CharT), PtrTo(IntT), FooT}, u \in {IntT, CharT}, n \in {a, b},
     e \in {IntLit, CharLit, StrLit, Deref(A), Ref(A), Ref(B)},
     i \in {<<>>, <<IntLit>>, <<Deref(A)>>}, v \in {A, B, CharLit}}

(* A parameter has an initialiser when its name is "=" (Parser). *)
Initialised ==
  LET eq == <<"=">>
  IN  {<<Fun(IntT, f, params, <<Return(IntLit)>>), Main(<<Return(Call(f, <<x, y>>))>>)>> :
         params \in {<<Let(t, eq, e), Decl(u, p)>> : t, u \in {IntT, PtrTo(IntT)},
                                                   e \in {IntLit, P, Ref(P), Ref(CharLit)}}
                    \union {<<Decl(u, p), Let(IntT, eq, IntLit)>> : u \in {IntT, PtrTo(IntT)}},
         x, y \in {CharLit, StrLit, IntLit}}

(* Variables and functions of the file. *)
Globals ==
  {<<Decl(t, a), Fun(u, f, <<Decl(v, p)>>, body), Main(<<s, Return(Mul(IntLit, IntLit))>>)>> :
     t \in {IntT, CharT, PtrTo(CharT), FooT}, u \in {IntT, CharT, PtrTo(CharT), FooT},
     v \in {IntT, FooT},
     body \in {<<>>, <<Return(P)>>, <<Call(f, <<P>>)>>, <<Return(A)>>},
     s \in {Call(f, <<CharLit>>), Call(f, <<Call(f, <<CharLit>>)>>),
            Assign(CharLit, Call(f, <<CharLit>>)), Call(a, <<>>), A}}

(* Functions inside functions, up to one more than MAX_CONTEXT allows. *)
RECURSIVE Nested(_)
Nested(depth) ==
  Fun(IntT, <<"g">>, <<>>, IF depth = 1 THEN <<Return(IntLit)>>
                                       ELSE <<Decl(IntT, a), Nested(depth - 1)>>)
Nests == {<<Nested(depth)>> : depth \in 1..4}

(* One key for several declarations, all in files the parser accepts: f_x is  *)
(* a function or x of f, f_x_x is x_x of f or x of f_x; f may be there twice. *)
Namesakes ==
  LET x == <<"x">>
      x_x == x \o x
      f_x == f \o x
      body(v, w, r) == <<Decl(IntT, v), Decl(PtrTo(CharT), w), Return(Ident(r))>>
  IN  {<<Fun(s, m, <<>>, body(u, v, r)), Fun(t, n, <<Decl(IntT, w)>>, body(v, u, r)),
         Main(<<Return(Call(c, <<>>))>>)>> :
         m, n, c \in {f, f_x}, u, v, r \in {x, x_x}, w \in {x, p}, s, t \in {IntT, PtrTo(CharT)}}

AllPrograms == {Program(file) : file \in
  Shapes \union Redeclarations \union Initialised \union Globals \union Nests \union
  Namesakes \union Samples}

ValRet69 == {Program(val_ret_69)}
ValFunArgs == {Program(val_fun_args)}
ValPtr1 == {Program(val_ptr1)}
ErrVarDecl1 == {Program(err_var_decl1)}
=============================================================================
