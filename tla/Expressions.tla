---------------------------- MODULE Expressions ----------------------------
(***************************************************************************)
(* The expression language of core.Calculate and of edge and node guards   *)
(* (expr.rs).  The parser evaluates while it descends, so the operators    *)
(* below return a value, an error and the position reached.  They descend  *)
(* through the function `parse`, which Parser ties to them.  A power is    *)
(* given for the exponents that keep a rational rational.                  *)
(***************************************************************************)
EXTENDS Values, SequencesExt

CONSTANT MaxDepth      \* expr.rs MAX_DEPTH

\* The binary operators by precedence, the loosest first.
Levels == <<{"||"}, {"&&"}, {"==", "!="}, {"<", "<=", ">", ">="},
            {"+", "-"}, {"*", "/", "%"}>>
UnaryLevel == Len(Levels) + 1
UnaryOps == {"-", "+", "!"}

\* Rust's % on floats: the quotient is truncated towards zero.
Trunc(v) == IF v.n >= 0 THEN v.n \div v.d ELSE -((-v.n) \div v.d)
Rem(a, b) == Plus(a, Minus(Times(Number(Trunc(Over(a, b)), 1), b)))
Power(a, b) ==
    LET raise[k \in Nat] == IF k = 0 THEN Number(1, 1)
                                     ELSE Times(a, raise[k - 1])
        e == Trunc(b)
    IN IF e >= 0 THEN raise[e] ELSE Over(Number(1, 1), raise[-e])

Apply(op, a, b) ==
    CASE op = "||" -> FromBool(Truthy(a) \/ Truthy(b))
      [] op = "&&" -> FromBool(Truthy(a) /\ Truthy(b))
      [] op = "==" -> FromBool(Same(a, b))
      [] op = "!=" -> FromBool(~Same(a, b))
      [] op = "<" -> FromBool(Less(a, b))
      [] op = "<=" -> FromBool(~Less(b, a))
      [] op = ">" -> FromBool(Less(b, a))
      [] op = ">=" -> FromBool(~Less(a, b))
      [] op = "+" -> Plus(a, b)
      [] op = "-" -> Plus(a, Minus(b))
      [] op = "*" -> Times(a, b)
      [] op = "/" -> Over(a, b)
      [] op = "%" -> Rem(a, b)
      [] op = "^" -> Power(a, b)

ApplyUnary(op, a) == CASE op = "-" -> Minus(a)
                       [] op = "+" -> a
                       [] op = "!" -> FromBool(~Truthy(a))

Got(v, pos) == [ok |-> TRUE, v |-> v, pos |-> pos, error |-> "none"]
Failed(error) == [ok |-> FALSE, v |-> Null, pos |-> 0, error |-> error]

At(ts, pos, symbols) == /\ pos <= Len(ts) /\ ts[pos].k = "symbol"
                        /\ ts[pos].s \in symbols

\* Parser::resolve: only numbers and booleans (kept as numbers) are visible.
ResolveName(x, scope) ==
    IF x \in DOMAIN scope /\ scope[x].t = "number" THEN Got(scope[x], 0)
    ELSE Failed("UnknownVariable")

ParsePrimary(parse, ts, pos, depth, scope) ==
    IF pos > Len(ts) THEN Failed("UnexpectedEnd")
    ELSE CASE ts[pos].k = "number" -> Got(Number(ts[pos].n, 1), pos + 1)
           [] ts[pos].k = "ident" ->
                IF ts[pos].s \in {"true", "false"}
                THEN Got(FromBool(ts[pos].s = "true"), pos + 1)
                ELSE [ResolveName(ts[pos].s, scope) EXCEPT !.pos = pos + 1]
           [] At(ts, pos, {"("}) ->
                LET inner == parse[1, pos + 1, depth] IN
                IF ~inner.ok THEN inner
                ELSE IF At(ts, inner.pos, {")"})
                     THEN Got(inner.v, inner.pos + 1)
                     ELSE Failed("UnexpectedToken")
           [] OTHER -> Failed("UnexpectedToken")

ParsePower(parse, ts, pos, depth, scope) ==
    LET base == ParsePrimary(parse, ts, pos, depth, scope) IN
    IF ~base.ok \/ ~At(ts, base.pos, {"^"}) THEN base
    ELSE LET exponent == parse[UnaryLevel, base.pos + 1, depth] IN
         IF ~exponent.ok THEN exponent
         ELSE IF IsZero(base.v) /\ exponent.v.n < 0 THEN Failed("Infinite")
         ELSE Got(Power(base.v, exponent.v), exponent.pos)

Unary(parse, ts, pos, depth, scope) ==
    IF depth >= MaxDepth THEN Failed("TooComplex")
    ELSE IF At(ts, pos, UnaryOps)
         THEN LET arg == parse[UnaryLevel, pos + 1, depth + 1] IN
              IF arg.ok THEN Got(ApplyUnary(ts[pos].s, arg.v), arg.pos) ELSE arg
         ELSE ParsePower(parse, ts, pos, depth + 1, scope)

\* One turn of the loop over the operators of a level, behind the operand `left`.
\* Mutant of Operand: a level that associates to the right.
OperandRight(parse, level, ts, depth, left) ==
    IF ~left.ok \/ ~At(ts, left.pos, Levels[level]) THEN left
    ELSE LET right == parse[level, left.pos + 1, depth]
             zero == ts[left.pos].s \in {"/", "%"} /\ IsZero(right.v)
         IN IF right.ok /\ ~zero
            THEN Got(Apply(ts[left.pos].s, left.v, right.v), right.pos)
            ELSE Failed("UnexpectedToken")
Operand(parse, level, ts, depth, left) ==
    IF ~left.ok \/ ~At(ts, left.pos, Levels[level]) THEN left
    ELSE LET op == ts[left.pos].s
             right == parse[level + 1, left.pos + 1, depth]
         IN IF ~right.ok THEN right
            ELSE IF op \in {"/", "%"} /\ IsZero(right.v)
                 THEN Failed("DivisionByZero")
            ELSE Got(Apply(op, left.v, right.v), right.pos)

\* parse_or ... parse_factor, by level: an operand, and further ones while there is
\* an operator, of which there are fewer than tokens.
Binary(parse, level, ts, pos, depth) ==
    LET upTo[n \in Nat] == IF n = 0 THEN parse[level + 1, pos, depth]
                           ELSE Operand(parse, level, ts, depth, upTo[n - 1])
    IN upTo[Len(ts)]

Parser(ts, scope) ==
    LET parse[level \in 1..UnaryLevel, pos \in Nat, depth \in Nat] ==
            IF level = UnaryLevel THEN Unary(parse, ts, pos, depth, scope)
            ELSE Binary(parse, level, ts, pos, depth)
    IN parse

\* evaluate_expression: nothing may be left over.
Whole(ts, value) == IF value.ok /\ value.pos # Len(ts) + 1
                    THEN Failed("UnexpectedToken") ELSE value
Evaluate(ts, scope) == IF ts = <<>> THEN Failed("UnexpectedEnd")
                       ELSE Whole(ts, Parser(ts, scope)[1, 1, 0])

-----------------------------------------------------------------------------
(***************************************************************************)
(* What an expression means, read off the documented grammar instead of    *)
(* the parser: split it at the operator that binds loosest.                *)
(***************************************************************************)
Nesting(ts, i) ==
    LET depth[k \in Nat] ==
            IF k = 0 THEN 0
            ELSE depth[k - 1] + (IF At(ts, k, {"("}) THEN 1
                                 ELSE IF At(ts, k, {")"}) THEN -1 ELSE 0)
    IN depth[i]

\* Positions of a binary operator of ops outside every parenthesis.
Splits(ts, ops) ==
    {i \in 2..Len(ts) : /\ At(ts, i, ops) /\ Nesting(ts, i) = 0
                        /\ ts[i - 1].k # "symbol" \/ At(ts, i - 1, {")"})}

\* The two sides of the operator at i; `mean` is what the parts mean.
Split(mean, ts, i) ==
    LET op == ts[i].s
        a == mean[SubSeq(ts, 1, i - 1)]
        b == mean[SubSeq(ts, i + 1, Len(ts))]
    IN IF /\ a.ok /\ b.ok
          /\ op \in {"/", "%"} => Truthy(b.v)
          /\ op = "^" => Truthy(a.v) \/ b.v.n >= 0
       THEN Got(Apply(op, a.v, b.v), 0) ELSE Failed("error")

\* Neither a binary operator nor a sign is left.
MeaningOfPrimary(mean, ts, scope) ==
    IF At(ts, 1, {"("}) /\ At(ts, Len(ts), {")"}) /\ Nesting(ts, Len(ts)) = 0
    THEN mean[SubSeq(ts, 2, Len(ts) - 1)]
    ELSE IF Len(ts) # 1 THEN Failed("error")
    ELSE CASE ts[1].k = "number" -> Got(Number(ts[1].n, 1), 0)
           [] ts[1].k = "ident" /\ ts[1].s \in {"true", "false"} ->
                 Got(FromBool(ts[1].s = "true"), 0)
           [] ts[1].k = "ident" -> ResolveName(ts[1].s, scope)
           [] OTHER -> Failed("error")

\* Left-associative operators are split at the last, a power at the first.
MeaningOf(mean, ts, scope) ==
    LET loosest == {l \in DOMAIN Levels : Splits(ts, Levels[l]) # {}} IN
    IF ts = <<>> THEN Failed("error")
    ELSE IF loosest # {}
    THEN LET l == CHOOSE l \in loosest : \A m \in loosest : l <= m
         IN Split(mean, ts, CHOOSE i \in Splits(ts, Levels[l]) :
                                \A j \in Splits(ts, Levels[l]) : j <= i)
    ELSE IF At(ts, 1, UnaryOps)
    THEN LET a == mean[Tail(ts)]
         IN IF a.ok THEN Got(ApplyUnary(ts[1].s, a.v), 0) ELSE a
    ELSE IF Splits(ts, {"^"}) # {}
    THEN Split(mean, ts, CHOOSE i \in Splits(ts, {"^"}) :
                             \A j \in Splits(ts, {"^"}) : i <= j)
    ELSE MeaningOfPrimary(mean, ts, scope)

Meaning(tokens, scope) ==
    LET mean[ts \in Seq(ToSet(tokens))] == MeaningOf(mean, ts, scope)
    IN mean[tokens]

=============================================================================
