------------------------------ MODULE Assertions ------------------------------
(***************************************************************************)
(* The assertions of hypothesis_check (src/src/workflow/hypothesis.cpp):   *)
(* what the regular expressions find in the text GDB printed and in the    *)
(* expected text, and the verdict made of it.                              *)
(*                                                                         *)
(* A text is a sequence of symbols: a run of digits, a hexadecimal number, *)
(* a run of letters, or one of the characters the expressions tell apart.  *)
(* Runs are maximal, as they are for the greedy expressions.  Digits are   *)
(* read as decimal numbers; neither GDB nor a caller writes octal ones.    *)
(***************************************************************************)
EXTENDS Integers, Sequences, FiniteSets

CONSTANTS
    MaxLong,   \* the largest long long; a longer number is not an integer
    Occurs     \* external: the pairs <<e, t>> of texts such that e occurs in t

ASSUME MaxLongAssumption == MaxLong \in Nat

Symbol == [k : {"digits", "hex", "letters", "nullptr", "nil", "$", "-", "=", "space", ".", ".."},
           v : Nat]

Text == Seq(Symbol)

Alnum == {"digits", "hex", "letters", "nullptr"}

Is(s, i, kinds) == i \in DOMAIN s /\ s[i].k \in kinds

\* A match from symbol i to symbol j is not part of a longer word.
Apart(s, i, j) == ~Is(s, i - 1, Alnum) /\ ~Is(s, j + 1, Alnum)

\* The sign belongs to the match.
Start(s, i) == IF Is(s, i - 1, {"-"}) THEN i - 1 ELSE i

Value(s, i) == IF Is(s, i - 1, {"-"}) THEN -s[i].v ELSE s[i].v

\* parse_integer_token()
Parses(v) == -MaxLong - 1 <= v /\ v <= MaxLong

NumericAt(s, i) ==
    /\ Is(s, i, {"digits", "hex"})
    /\ ~Is(s, Start(s, i) - 1, {"$"})
    /\ Apart(s, Start(s, i), i)
    /\ Parses(Value(s, i))

\* extract_numeric_values(), extract_address_values(): an assertion asks only
\* which values there are.
Numbers(s)   == {Value(s, i) : i \in {j \in DOMAIN s : NumericAt(s, j)}}
Addresses(s) == {s[i].v : i \in {j \in DOMAIN s : Is(s, j, {"hex"}) /\ Apart(s, j, j)}}

\* extract_single_numeric_value(), extract_single_address_value()
Single(values) == \E v \in values : values = {v}
The(values)    == CHOOSE v \in values : TRUE

\* contains_null_marker()
NullMarker(s) ==
    \E i \in DOMAIN s :
        \/ s[i].k = "hex" /\ s[i].v = 0
        \/ /\ s[i].k = "digits" /\ s[i].v = 0
           /\ i > 1 => Is(s, i - 1, {"=", "space"})
           /\ i < Len(s) => Is(s, i + 1, {"space"})
        \/ s[i].k = "nullptr" /\ Is(s, i - 1, {"space"}) /\ Is(s, i - 2, {"="})
        \/ s[i].k = "nil"

Comparisons == {"greater_than", "less_than", "greater_equal", "less_equal",
                "equals_number", "not_equals_number"}
Addressing  == {"address_non_null", "address_equals"}
Wording     == {"contains", "not_contains", "equals", "not_equals"}
Expecting   == Comparisons \cup Wording \cup {"between", "address_equals"}

Assertion == Expecting \cup {"none", "is_null", "non_null", "address_non_null", "other"}

Status == {"passed", "failed", "unknown"}

Holds(test) == IF test THEN "passed" ELSE "failed"

Compared(a, x, y) ==
    CASE a = "greater_than"      -> x > y
      [] a = "less_than"         -> x < y
      [] a = "greater_equal"     -> x >= y
      [] a = "less_equal"        -> x <= y
      [] a = "equals_number"     -> x = y
      [] a = "not_equals_number" -> x # y

\* parse_between_bounds(): one "..", and one integer on either side of it.
Separators(s) == {i \in DOMAIN s : s[i].k = ".."}
Low(s)  == Numbers(SubSeq(s, 1, The(Separators(s)) - 1))
High(s) == Numbers(SubSeq(s, The(Separators(s)) + 1, Len(s)))

Bounds(s) ==
    /\ Single(Separators(s)) /\ Single(Low(s)) /\ Single(High(s))
    /\ The(Low(s)) <= The(High(s))

Worded(a, observed, expected) ==
    CASE a = "contains"     -> <<expected, observed>> \in Occurs
      [] a = "not_contains" -> <<expected, observed>> \notin Occurs
      [] a = "equals"       -> observed = expected
      [] a = "not_equals"   -> observed # expected

\* Whether the assertion can be evaluated at all.
Evaluable(a, observed, expected) ==
    /\ a # "other" /\ observed # <<>>
    /\ a \in Expecting => expected # <<>>
    /\ a \in Comparisons => Single(Numbers(observed)) /\ Single(Numbers(expected))
    /\ a = "between" => Single(Numbers(observed)) /\ Bounds(expected)
    /\ a \in Addressing => Single(Addresses(observed))
    /\ a = "address_equals" => Single(Addresses(expected))

\* evaluate_hypothesis_assertion(); "none" passes whatever was observed.
Verdict(a, observed, expected) ==
    CASE a = "none" -> "passed"
      [] a # "none" /\ ~Evaluable(a, observed, expected) -> "unknown"
      [] OTHER ->
           CASE a \in Comparisons ->
                    Holds(Compared(a, The(Numbers(observed)), The(Numbers(expected))))
             [] a \in Wording -> Holds(Worded(a, observed, expected))
             [] a = "is_null" -> Holds(NullMarker(observed))
             [] a = "non_null" -> Holds(~NullMarker(observed))
             [] a = "between" ->
                    Holds(/\ The(Low(expected)) <= The(Numbers(observed))
                          /\ The(Numbers(observed)) <= The(High(expected)))
             [] a = "address_non_null" -> Holds(The(Addresses(observed)) # 0)
             [] a = "address_equals" ->
                    Holds(The(Addresses(observed)) = The(Addresses(expected)))

-------------------------------------------------------------------------------
(* What the manual says (docs/agent_actions.en.md:355-395), of a text given by
   what it means: the pieces GDB or the caller put into it. *)

\* v: the number of the piece; a "float" prints as v.v, a "name" as letters with v,
\* "history" as $v.
Piece == [p : {"int", "hex", "float", "history", "name", "word", "eq", "nullptr", "nil",
               "dots"}, v : Int]

S(kind, v) == [k |-> kind, v |-> v]

Printed(piece) ==
    LET v == piece.v
    IN  CASE piece.p = "int"     -> IF v < 0 THEN <<S("-", 0), S("digits", -v)>>
                                            ELSE <<S("digits", v)>>
          [] piece.p = "hex"     -> <<S("hex", v)>>
          [] piece.p = "float"   -> <<S("digits", v), S(".", 0), S("digits", v)>>
          [] piece.p = "history" -> <<S("$", 0), S("digits", v)>>
          [] piece.p = "name"    -> <<S("letters", 0), S("digits", v)>>
          [] piece.p = "word"    -> <<S("letters", 0)>>
          [] piece.p = "eq"      -> <<S("=", 0)>>
          [] piece.p = "nullptr" -> <<S("nullptr", 0)>>
          [] piece.p = "nil"     -> <<S("nil", 0)>>
          [] piece.p = "dots"    -> <<S("..", 0)>>

\* The text of the first n pieces, one after the other with a space between them,
\* given that of the first n - 1.
Joined(upto, pieces, n) ==
    CASE n = 0 -> <<>>
      [] n = 1 -> Printed(pieces[1])
      [] n > 1 -> upto[n - 1] \o <<S("space", 0)>> \o Printed(pieces[n])

Rendered(pieces) ==
    LET upto[n \in 0 .. Len(pieces)] == Joined(upto, pieces, n)
    IN  upto[Len(pieces)]

Means(pieces, kinds) == {x.v : x \in {pieces[i] : i \in DOMAIN pieces} \cap [p : kinds, v : Int]}

Has(pieces, kinds) == \E i \in DOMAIN pieces : pieces[i].p \in kinds

Integer(pieces) == Means(pieces, {"int", "hex"})

\* One integer that can be represented, and no floating-point value.
OneInteger(pieces) ==
    /\ Single(Integer(pieces)) /\ ~Has(pieces, {"float"})
    /\ \A v \in Integer(pieces) : Parses(v)

Interval(pieces) ==
    /\ Len(pieces) = 3 /\ pieces[2].p = "dots"
    /\ OneInteger(<<pieces[1]>>) /\ OneInteger(<<pieces[3]>>)
    /\ pieces[1].v <= pieces[3].v

DocumentedVerdict(a, observed, expected) ==
    CASE a = "none" -> "passed"
      [] a = "other" \/ (a # "none" /\ observed = <<>>) \/ (a \in Expecting /\ expected = <<>>) ->
             "unknown"
      [] OTHER ->
           CASE a \in Comparisons ->
                    IF OneInteger(observed) /\ OneInteger(expected)
                    THEN Holds(Compared(a, The(Integer(observed)), The(Integer(expected))))
                    ELSE "unknown"
             [] a = "between" ->
                    IF OneInteger(observed) /\ Interval(expected)
                    THEN Holds(The(Integer(observed)) \in expected[1].v .. expected[3].v)
                    ELSE "unknown"
             [] a \in Addressing ->
                    IF /\ Single(Means(observed, {"hex"}))
                       /\ a = "address_equals" => Single(Means(expected, {"hex"}))
                    THEN Holds(IF a = "address_equals"
                               THEN Means(observed, {"hex"}) = Means(expected, {"hex"})
                               ELSE Means(observed, {"hex"}) # {0})
                    ELSE "unknown"
             [] a \in {"is_null", "non_null"} ->
                    Holds((a = "is_null") <=> Has(observed, {"nullptr", "nil"})
                                               \/ 0 \in Integer(observed))
             [] a \in Wording -> Holds(Worded(a, Rendered(observed), Rendered(expected)))

\* The texts the manual describes: no floating-point value, whose digits the
\* expressions take for integers; no integer too long for the program next to one
\* that is not; a nullptr as GDB prints it; and no third piece next to two bounds.
Plain(pieces) ==
    /\ ~Has(pieces, {"float"})
    /\ Single(Integer(pieces)) \/ \A v \in Integer(pieces) : Parses(v)
    /\ \A i \in DOMAIN pieces : pieces[i].p = "nullptr" => i > 1 /\ pieces[i - 1].p = "eq"

PlainBounds(pieces) == Single({i \in DOMAIN pieces : pieces[i].p = "dots"}) => Len(pieces) = 3

===============================================================================
