------------------------------ MODULE MCTerms ------------------------------
(***************************************************************************)
(* Programs for the runs of the compiler, as trees.                        *)
(***************************************************************************)
EXTENDS Language

Call1(f, a) == App(Var(f), <<a>>)

Plus(l, r)  == Bin("Add", l, r)
Minus(l, r) == Bin("Sub", l, r)

(* let x = 1; let f = fn (a) => { let b = 10 + a; fn (c) => { p + (fn (d)  *)
(* => { q + r })(c) } }; print(f(20)(100)): the uses p, q and r capture    *)
(* from one, two or three functions away, and in any order.                *)
Captures(p, q, r) ==
  Let("x", Lit(1),
  Let("f", Fun(<<"a">>,
             Let("b", Plus(Lit(10), Var("a")),
             Fun(<<"c">>, Plus(Var(p),
                               App(Fun(<<"d">>, Plus(Var(q), Var(r))),
                                   <<Var("c")>>))))),
  Out(App(Call1("f", Lit(20)), <<Lit(100)>>))))

CaptureTerms ==
  FlattenSeq([i \in 1..3 |-> FlattenSeq([j \in 1..4 |-> [k \in 1..3 |->
    Captures(<<"x", "b", "c">>[i], <<"x", "a", "b", "d">>[j],
             <<"x", "b", "c">>[k])]])])

Fib ==
  Let("fib", Fun(<<"n">>,
        If(Bin("Lt", Var("n"), Lit(2)), Var("n"),
           Plus(Call1("fib", Minus(Var("n"), Lit(1))),
                Call1("fib", Minus(Var("n"), Lit(2)))))),
  Out(Call1("fib", Lit(4))))

(* let loop = fn (n, acc) => { if (n == 0) { acc } else { loop(n - 1, (n,  *)
(* acc)) } }; print(first(second(loop(4, true))))                          *)
Loop ==
  Let("loop", Fun(<<"n", "acc">>,
        If(Bin("Eq", Var("n"), Lit(0)), Var("acc"),
           App(Var("loop"), <<Minus(Var("n"), Lit(1)),
                              Tup(Var("n"), Var("acc"))>>))),
  Out(First(Second(App(Var("loop"), <<Lit(4), Bln("true")>>)))))

(* A second declaration hides the first, for the code after it.            *)
Hides ==
  Let("x", Lit(1),
  Let("f", Fun(<<>>, Var("x")),
  Let("x", Str("s"),
  Let("y", Fun(<<"x">>, Plus(Var("x"), App(Var("f"), <<>>))),
  Out(Tup(Var("x"), Call1("y", Var("x"))))))))

(* Recursion through a closure that is captured twice.                     *)
Inner ==
  Let("f", Fun(<<"n">>,
        Let("g", Fun(<<"k">>,
              If(Bin("Eq", Var("k"), Var("n")), Var("k"),
                 Call1("f", Var("k")))),
        Plus(Lit(1), Call1("g", Lit(0))))),
  Out(Call1("f", Lit(2))))

(* Ifs in every place an if may stand, whose values come from no call.     *)
Ifs ==
  Let("a", If(Bln("true"), If(Bln("false"), Lit(1), Lit(2)), Lit(3)),
  Let("f", Fun(<<"b", "c">>,
             If(If(Var("b"), Bln("false"), Bln("true")), Out(Var("c")),
                Plus(If(Var("c"), Lit(5), Lit(6)), Var("a")))),
  Tup(Out(App(Var("f"), <<Bln("true"), Bln("false")>>)),
      App(Var("f"), <<Bln("false"), Str("q")>>))))

Strings ==
  Let("f", Fun(<<"x">>, Plus(Str("a"), Plus(Var("x"), Str("b")))),
  Bin("Neq", Out(Call1("f", Lit(12))), Out(Plus(Bln("true"), Str("")))))

(* 1500 is above UINT16_MAX.                                               *)
Numbers ==
  Out(Plus(Lit(1500), Bin("Mul", Bin("Div", Lit(7), Lit(2)),
                                 Bin("Rem", Lit(7), Lit(4)))))

Logic ==
  Let("t", Fun(<<>>, Out(Bln("true"))),
  Out(Tup(Bin("And", Bln("false"), App(Var("t"), <<>>)),
          Bin("Or", Bin("Gte", Lit(1), Lit(2)), Bin("Lte", Str("a"), Str("a"))))))

Ordering == Out(Bin("Gt", Lit(1), Bin("Lt", Lit(1), Lit(2))))

NotCallable == Let("f", Lit(1), Out(Call1("f", Out(Lit(2)))))
WrongArity  == Out(App(Fun(<<"x", "y">>, Var("x")), <<Lit(1)>>))
NotTuple    == Out(Second(Lit(1)))
ByZero      == Bin("Div", Out(Lit(1)), Lit(0))
Unknown     == Let("x", Lit(1), Plus(Var("x"), Fun(<<"a">>, Var("y"))))
TopTail     == Let("f", Fun(<<"n">>, If(Bin("Gt", Var("n"), Lit(1)), Out(Var("n")),
                                        Call1("f", Plus(Var("n"), Lit(1))))),
               Call1("f", Lit(0)))
TooLarge    == Out(Lit(5000))

(* Lets where something is pending, or in the branches of an if.           *)
NestedLets == <<
  Out(Minus(Lit(10), Let("x", Lit(2), Var("x")))),
  Out(If(Bln("false"), Let("x", Lit(1), Var("x")), Let("y", Lit(2), Var("y")))),
  Let("a", Let("b", Lit(5), Var("b")), Out(Var("a"))) >>

(* More is to do with the value of an if or a let that comes from a call.  *)
NestedCalls == <<
  Let("f", Fun(<<>>, Lit(5)),
  Let("x", If(Bln("true"), App(Var("f"), <<>>), Lit(1)),
  Out(Plus(Var("x"), Lit(1))))) >>

(* A use after the term its variable is declared for.                      *)
Leaks == << Plus(Let("x", Lit(1), Var("x")), Out(Var("x"))) >>

(* n variables in one function.                                            *)
Variables(n) ==
  LET lets[i \in 0..n] == IF i = 0 THEN Lit(1) ELSE Let("x", Lit(1), lets[i - 1])
  IN lets[n]

ManyVariables == << Variables(31), Variables(32), Variables(33) >>

(* n functions in one, the last of which is the value.                     *)
Siblings(n) ==
  LET tuples[i \in 1..n] == IF i = n THEN Fun(<<>>, Lit(n))
                            ELSE Tup(Fun(<<>>, Lit(i)), tuples[i + 1])
  IN tuples[1]

(* A function of n parameters and a call of it.                            *)
Wide(n) == App(Fun([i \in 1..n |-> "x"], Var("x")), [i \in 1..n |-> Lit(i)])

Curated == <<Fib, Loop, Hides, Inner, Ifs, Strings, Numbers, Logic, Ordering,
             NotCallable, WrongArity, NotTuple, ByZero, TopTail>>

Rejected == <<Unknown, TooLarge>>
=============================================================================
