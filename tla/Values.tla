------------------------------- MODULE Values -------------------------------
(***************************************************************************)
(* The JSON values of a document and of a run, the tokens of an expression *)
(* and the arithmetic on numbers.  An f64 is a rational number here:       *)
(* rounding, NaN and the infinities are left out.  The lexer's characters  *)
(* are left out: an expression is the sequence of its tokens.              *)
(***************************************************************************)
EXTENDS Integers, Sequences

\* A JSON value.  A string is plain text s, or a number written out
\* (s = "digits"), or the template "{{s}}" ("exact") or "...{{s}}..." ("mixed"),
\* or an expression e.  Arrays and objects are opaque.
Json(t, n, d, s, e) == [t |-> t, n |-> n, d |-> d, s |-> s, e |-> e]
Null == Json("null", 0, 1, "", <<>>)
Number(n, d) == Json("number", n, d, "", <<>>)
Text(s) == Json("string", 0, 1, s, <<>>)
Digits(v) == Json("string", v.n, v.d, "digits", <<>>)
Exact(x) == Json("exact", 0, 1, x, <<>>)
Mixed(x) == Json("mixed", 0, 1, x, <<>>)
Expression(e) == Json("expression", 0, 1, "", e)
Object == Json("object", 0, 1, "", <<>>)
\* Values by name, [name |-> s, of |-> v], in their order: the expressions of a
\* core.CalculateMany, or its seed variables.
Named(items) == Json("named", 0, 1, "", items)

Num(n) == [k |-> "number", n |-> n, s |-> ""]
Id(x) == [k |-> "ident", n |-> 0, s |-> x]
Sym(s) == [k |-> "symbol", n |-> 0, s |-> s]

IsZero(v) == v.n = 0
Truthy(v) == ~IsZero(v)
FromBool(b) == Number(IF b THEN 1 ELSE 0, 1)
Less(a, b) == a.n * b.d < b.n * a.d
Same(a, b) == a.n * b.d = b.n * a.d
Minus(a) == Number(-a.n, a.d)
Plus(a, b) == Number(a.n * b.d + b.n * a.d, a.d * b.d)
Times(a, b) == Number(a.n * b.n, a.d * b.d)
\* Division keeps the denominator positive.
Over(a, b) == IF b.n > 0 THEN Number(a.n * b.d, a.d * b.n)
                         ELSE Number(-a.n * b.d, -a.d * b.n)
=============================================================================
