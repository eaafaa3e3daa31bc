------------------------------ MODULE Samples -------------------------------
(***************************************************************************)
(* Names and short forms for the trees of the instances, and the trees of  *)
(* the samples of the repository.                                          *)
(***************************************************************************)
EXTENDS Syntax

IntT == Type(VT_INT, 0)
CharT == Type(VT_CHAR, 0)
FooT == Type(UNRESOLVED, 0)          \* a name that is no type
PtrTo(t) == Type(t.id, t.refc + 1)

main == <<"main">>
f == <<"f">>
a == <<"a">>
b == <<"b">>
p == <<"p">>

Decl(type, name) == Var(type, name, <<>>)
Let(type, name, e) == Var(type, name, <<e>>)
Main(body) == Fun(IntT, main, <<>>, body)

A == Ident(a)
B == Ident(b)
P == Ident(p)

(***************************************************************************)
(* The samples of the repository the compiler has a syntax for.            *)
(***************************************************************************)
bar == <<"bar">>
val_ret_0 == <<Main(<<Return(IntLit)>>)>>
val_add1 == <<Main(<<Let(IntT, b, IntLit),
                     Let(IntT, a, Add(IntLit, Add(B, IntLit))), Return(A)>>)>>
val_add_ret_69 ==
  <<Main(<<Let(IntT, a, IntLit), Let(IntT, b, IntLit), Return(Add(A, B))>>)>>
val_ret_69 ==
  <<Main(<<Let(IntT, a, IntLit), Let(IntT, b, IntLit), Assign(A, B), Return(A)>>)>>
val_math1 ==
  <<Main(<<Let(IntT, a, IntLit), Assign(A, Add(A, IntLit)),
           Return(Add(Mul(A, IntLit), Add(Mul(Mul(IntLit, IntLit), IntLit), A)))>>)>>
\* Its function foo, without an assignment like the one of val_ret_69, and the
\* first declaration of its main.
val_fun_args ==
  LET foo == Fun(IntT, <<"foo">>, <<Decl(IntT, bar)>>,
                 <<Return(Add(Ident(bar), IntLit))>>)
  IN  <<foo, Main(<<Let(IntT, a, Mul(Call(<<"foo">>, <<IntLit>>), IntLit)),
                    Return(IntLit)>>)>>
val_ptr1 == <<Main(<<Decl(PtrTo(IntT), a), Assign(Deref(A), IntLit),
                     Return(Deref(A))>>)>>
err_var_decl1 == <<Main(<<Let(IntT, a, IntLit), Let(IntT, a, IntLit), Return(A)>>)>>

\* val_ptr1 with the only assignment the compiler takes, a char into an int.
DoubleRead == <<Main(<<Decl(PtrTo(IntT), a), Assign(Deref(A), CharLit),
                       Return(Deref(A))>>)>>

Samples == {val_ret_0, val_add1, val_add_ret_69, val_ret_69, val_math1,
            val_fun_args, val_ptr1, err_var_decl1, DoubleRead}
=============================================================================
