------------------------------ MODULE Language ------------------------------
(***************************************************************************)
(* The language, independently of its implementation: terms as trees, the  *)
(* tokens of a file (docs/rinha-ast.ebnf), what a term evaluates to and    *)
(* where its parts stand.  For TLC.                                        *)
(***************************************************************************)
EXTENDS Reference, SequencesExt

-----------------------------------------------------------------------------
(* Texts.                                                                  *)

(* The text t begins with the text w.                                      *)
BeginsWith(t, w) == Len(w) <= Len(t) /\ SubSeq(t, 1, Len(w)) = w

(* The characters that are printed, but the grave accent (96), in the order *)
(* of ASCII.                                                               *)
Printable ==
  " !\"#$%&'()*+,-./0123456789:;<=>?@ABCDEFGHIJKLMNOPQRSTUVWXYZ" \o
  "[\\]^_abcdefghijklmnopqrstuvwxyz{|}~"

CodeOf ==
  [c \in {SubSeq(Printable, k, k) : k \in 1..Len(Printable)} |->
     LET k == CHOOSE k \in 1..Len(Printable) : SubSeq(Printable, k, k) = c
     IN  IF k <= 64 THEN 31 + k ELSE 32 + k]

CodesOf(t) == [i \in 1..Len(t) |-> CodeOf[SubSeq(t, i, i)]]

-----------------------------------------------------------------------------
(* Tokens.                                                                 *)

Token(kind, text, num) == [kind |-> kind, text |-> text, num |-> num]

Mark(kind)   == << Token(kind, "", 0) >>
Quoted(text) == << Token("STRING", text, 0) >>
Number(n)    == << Token("INT", "", n) >>

Listed(open, parts, close) ==
  Mark(open)
  \o FlattenSeq([i \in DOMAIN parts |->
                   IF i = 1 THEN parts[i] ELSE Mark(",") \o parts[i]])
  \o Mark(close)

Object(fields) == Listed("{", fields, "}")

Member(key, tokens) == Quoted(key) \o Mark(":") \o tokens

Location ==
  Member("location", Object(<< Member("start", Number(0)), Member("end", Number(0)),
                              Member("filename", Quoted("f")) >>))

Parameter(x) == Object(<< Member("text", Quoted(x)), Location >>)

Array(ts) == Listed("[", ts, "]")

File(t) ==
  Object(<< Member("name", Quoted("f")), Member("expression", t.tokens),
            Location >>) \o Mark("EOF")

-----------------------------------------------------------------------------
(* Terms.  A term carries its tokens.                                      *)

Written(kind, members) ==
  Object(<< Member("kind", Quoted(kind)) >> \o members \o << Location >>)

Each(ts) == [i \in DOMAIN ts |-> ts[i].tokens]

Lit(n) == [kind |-> "Int", value |-> n,
           tokens |-> Written("Int", << Member("value", Number(n)) >>)]

Str(t) == [kind |-> "Str", value |-> t,
           tokens |-> Written("Str", << Member("value", Quoted(t)) >>)]

Bln(w) == [kind |-> "Bool", value |-> w,
           tokens |-> Written("Bool", << Member("value", Mark(w)) >>)]

Var(x) == [kind |-> "Var", text |-> x,
           tokens |-> Written("Var", << Member("text", Quoted(x)) >>)]

Let(x, v, n) ==
  [kind |-> "Let", name |-> x, value |-> v, next |-> n,
   tokens |-> Written("Let", << Member("name", Parameter(x)),
                                Member("value", v.tokens),
                                Member("next", n.tokens) >>)]

Fun(xs, v) ==
  LET parameters == Array([i \in DOMAIN xs |-> Parameter(xs[i])])
  IN [kind |-> "Function", parameters |-> xs, value |-> v,
      tokens |-> Written("Function", << Member("parameters", parameters),
                                        Member("value", v.tokens) >>)]

App(f, as) ==
  [kind |-> "Call", callee |-> f, arguments |-> as,
   tokens |-> Written("Call", << Member("callee", f.tokens),
                                 Member("arguments", Array(Each(as))) >>)]

If(c, t, e) ==
  [kind |-> "If", condition |-> c, then |-> t, otherwise |-> e,
   tokens |-> Written("If", << Member("condition", c.tokens),
                               Member("then", t.tokens),
                               Member("otherwise", e.tokens) >>)]

Bin(op, l, r) ==
  [kind |-> "Binary", op |-> op, lhs |-> l, rhs |-> r,
   tokens |-> Written("Binary", << Member("lhs", l.tokens),
                                   Member("op", Quoted(op)),
                                   Member("rhs", r.tokens) >>)]

Tup(a, b) ==
  [kind |-> "Tuple", first |-> a, second |-> b,
   tokens |-> Written("Tuple", << Member("first", a.tokens),
                                  Member("second", b.tokens) >>)]

Single(kind, v) == [kind |-> kind, value |-> v,
                    tokens |-> Written(kind, << Member("value", v.tokens) >>)]

Out(v)    == Single("Print", v)
First(v)  == Single("First", v)
Second(v) == Single("Second", v)

-----------------------------------------------------------------------------
(* Evaluation.  A state s of it holds the value of the last term, the      *)
(* values printed, the closures made, and how things stand.                *)

Started == [v |-> Failure, out |-> <<>>, closures |-> <<>>, status |-> "ok"]

Ok(s)         == s.status = "ok"
Yields(s, v)  == [s EXCEPT !.v = v]
Stops(s, how) == [s EXCEPT !.status = how]

Outcome(s, r) == IF r = Failure THEN Stops(s, "error")
                 ELSE IF r = Killed THEN Stops(s, "trap") ELSE Yields(s, r)

RECURSIVE Eval(_, _, _), EvalList(_, _, _)

(* The terms in order; v becomes the sequence of their values.             *)
EvalList(ts, env, s) ==
  IF ts = <<>> THEN Yields(s, <<>>)
  ELSE LET s1 == Eval(Head(ts), env, s)
           s2 == EvalList(Tail(ts), env, s1)
       IN IF ~Ok(s1) THEN s1 ELSE IF ~Ok(s2) THEN s2
          ELSE Yields(s2, <<s1.v>> \o s2.v)

Bind(xs, vs, env) ==
  [x \in ToSet(xs) \cup DOMAIN env |->
     IF x \notin ToSet(xs) THEN env[x]
     ELSE vs[CHOOSE i \in DOMAIN xs : xs[i] = x
                                      /\ \A j \in DOMAIN xs : xs[j] = x => j <= i]]

(* A function named by let can call itself.                                *)
Eval(t, env, s) ==
  IF ~Ok(s) THEN s
  ELSE CASE t.kind = "Int"  -> Yields(s, Num(t.value))
         [] t.kind = "Str"  -> Yields(s, Text(CodesOf(t.value)))
         [] t.kind = "Bool" -> Yields(s, Bool(t.value = "true"))
         [] t.kind = "Var"  -> Yields(s, env[t.text])
         [] t.kind = "Function" ->
              [s EXCEPT !.v = Closure(Len(s.closures) + 1),
                        !.closures = Append(@, [parameters |-> t.parameters,
                                                value |-> t.value, env |-> env])]
         [] t.kind = "Let" ->
              LET self == IF t.value.kind # "Function" THEN env
                          ELSE Bind(<<t.name>>, <<Closure(Len(s.closures) + 1)>>, env)
                  s1   == Eval(t.value, self, s)
              IN IF Ok(s1) THEN Eval(t.next, Bind(<<t.name>>, <<s1.v>>, env), s1)
                 ELSE s1
         [] t.kind = "If" ->
              LET s1 == Eval(t.condition, env, s)
              IN IF ~Ok(s1) THEN s1
                 ELSE Eval(IF Falsy(s1.v) THEN t.otherwise ELSE t.then, env, s1)
         [] t.kind = "Binary" ->
              LET s1 == EvalList(<<t.lhs, t.rhs>>, env, s)
              IN IF ~Ok(s1) THEN s1
                 ELSE Outcome(s1, CHOOSE r \in Outcomes(t.op, s1.v[1], s1.v[2]) : TRUE)
         [] t.kind = "Tuple" ->
              LET s1 == EvalList(<<t.first, t.second>>, env, s)
              IN IF Ok(s1) THEN Yields(s1, Pair(s1.v[1], s1.v[2])) ELSE s1
         [] t.kind = "Print" ->
              LET s1 == Eval(t.value, env, s)
              IN IF Ok(s1) THEN [s1 EXCEPT !.out = Append(@, s1.v)] ELSE s1
         [] t.kind \in {"First", "Second"} ->
              LET s1 == Eval(t.value, env, s)
              IN IF ~Ok(s1) THEN s1
                 ELSE IF s1.v[1] # "tuple" THEN Stops(s1, "error")
                 ELSE Yields(s1, s1.v[IF t.kind = "First" THEN 2 ELSE 3])
         [] t.kind = "Call" ->
              LET s1 == EvalList(<<t.callee>> \o t.arguments, env, s)
                  f  == s1.v[1]
                  c  == s1.closures[f[2]]
              IN IF ~Ok(s1) THEN s1
                 ELSE IF f[1] # "closure" THEN Stops(s1, "error")
                 ELSE IF Len(c.parameters) # Len(t.arguments)
                      THEN Stops(s1, "error")
                 ELSE Eval(c.value, Bind(c.parameters, Tail(s1.v), c.env), s1)

Meaning(t) == Eval(t, << >>, Started)

-----------------------------------------------------------------------------
(* Where lets and calls stand.                                             *)

Components(t) ==
  CASE t.kind = "Let"    -> <<t.value, t.next>>
    [] t.kind = "Call"   -> <<t.callee>> \o t.arguments
    [] t.kind = "If"     -> <<t.condition, t.then, t.otherwise>>
    [] t.kind = "Binary" -> <<t.lhs, t.rhs>>
    [] t.kind = "Tuple"  -> <<t.first, t.second>>
    [] t.kind \in {"Print", "First", "Second"} -> <<t.value>>
    [] OTHER -> <<>>

(* Every variable of t is among the names or declared around its use.      *)
RECURSIVE Scoped(_, _)
Scoped(t, names) ==
  CASE t.kind = "Var"      -> t.text \in names
    [] t.kind = "Function" -> Scoped(t.value, names \cup ToSet(t.parameters))
    [] t.kind = "Let" ->
         /\ Scoped(t.value, IF t.value.kind = "Function" THEN names \cup {t.name}
                                                         ELSE names)
         /\ Scoped(t.next, names \cup {t.name})
    [] OTHER -> \A i \in DOMAIN Components(t) : Scoped(Components(t)[i], names)

(* Does the value of t come from a call?                                   *)
RECURSIVE EndsInCall(_)
EndsInCall(t) ==
  \/ t.kind = "Call"
  \/ t.kind = "Let" /\ EndsInCall(t.next)
  \/ t.kind = "If" /\ (EndsInCall(t.then) \/ EndsInCall(t.otherwise))

(* Lets stand only where nothing is pending: at the start of a program or  *)
(* of a function, or after another let.                                    *)
RECURSIVE LetsFirst(_, _)
LetsFirst(t, first) ==
  /\ t.kind = "Let" => first
  /\ t.kind = "Function" => LetsFirst(t.value, TRUE)
  /\ \A i \in DOMAIN Components(t) :
       LetsFirst(Components(t)[i], t.kind = "Let" /\ i = 2)

(* Where more is to do with the value of a let or an if, that value does   *)
(* not come from a call.                                                   *)
RECURSIVE CallsLast(_, _)
CallsLast(t, last) ==
  /\ t.kind \in {"Let", "If"} /\ ~last => ~EndsInCall(t)
  /\ t.kind = "Function" => CallsLast(t.value, TRUE)
  /\ \A i \in DOMAIN Components(t) :
       CallsLast(Components(t)[i], last /\ t.kind \in {"Let", "If"} /\ i > 1)
=============================================================================
