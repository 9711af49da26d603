------------------------------ MODULE MCHypotheses ------------------------------
(***************************************************************************)
(* Small sessions for Hypotheses: a few checks that pass, fail or come to  *)
(* nothing, conclusions and creates, with and without an id, after each    *)
(* other.  What a verdict is depends on nothing but the assertion and two  *)
(* texts: every assertion is compared with the manual on all those below.  *)
(***************************************************************************)
EXTENDS Hypotheses

P(p, v) == [p |-> p, v |-> v]

\* "$5 = ..."
Shown(pieces) == <<P("history", 5), P("eq", 0)>> \o pieces

AnyPrints ==
    {<<>>,
     Shown(<<P("int", 5)>>), Shown(<<P("int", -5)>>), Shown(<<P("int", 0)>>),
     Shown(<<P("int", 200)>>), Shown(<<P("word", 0)>>),
     Shown(<<P("word", 0), P("hex", 0)>>), Shown(<<P("word", 0), P("hex", 6)>>),
     Shown(<<P("name", 7), P("eq", 0), P("int", 5)>>),
     Shown(<<P("name", 7), P("eq", 0), P("int", 5), P("name", 8), P("eq", 0), P("hex", 6)>>),
     Shown(<<P("hex", 6), P("hex", 0)>>), Shown(<<P("int", 6), P("hex", 6)>>),
     Shown(<<P("nullptr", 0)>>), Shown(<<P("nil", 0)>>)}

FewPrints == {<<>>, Shown(<<P("int", 5)>>), Shown(<<P("int", -5)>>),
              Shown(<<P("word", 0), P("hex", 6)>>)}

FloatPrints == {Shown(<<P("int", 5)>>), Shown(<<P("float", 5)>>)}

Expected ==
    {<<>>, <<P("int", 5)>>, <<P("int", -5)>>, <<P("hex", 6)>>, <<P("word", 0)>>,
     Shown(<<P("int", 5)>>), <<P("int", 5), P("int", 6)>>, <<P("int", 200)>>,
     <<P("int", -5), P("dots", 0), P("int", 5)>>, <<P("hex", 6), P("dots", 0), P("int", 5)>>,
     <<P("int", 5), P("dots", 0), P("word", 0)>>,
     <<P("int", 5), P("dots", 0), P("hex", 6), P("dots", 0), P("int", 5)>>}

MCOccurs == {<<Rendered(e), Rendered(Shown(t))>> :
                e \in {<<P("int", 5)>>}, t \in {<<P("int", 5)>>, <<P("int", -5)>>}}
            \cup {<<Rendered(Shown(<<P("int", 5)>>)), Rendered(Shown(<<P("int", 5)>>))>>}

CheckOf(id, a, e) == [NoAsk EXCEPT !.op = "check", !.id = id, !.assertion = a, !.expected = e]

Few == {CheckOf(1, "greater_than", <<P("int", 0)>>), CheckOf(2, "equals_number", <<P("int", 5)>>),
        CheckOf(2, "address_non_null", <<>>),
        CheckOf(0, "none", <<>>),
        [NoAsk EXCEPT !.id = 1], NoAsk,
        [NoAsk EXCEPT !.op = "conclude", !.id = 1, !.conclusion = "supported"],
        [NoAsk EXCEPT !.op = "conclude", !.id = 2, !.conclusion = "refuted"]}

FewAsks == <<Few, Few, Few>>

FloatAsks == <<{CheckOf(1, "equals_number", <<P("int", 5)>>)}>>

\* evaluate_hypothesis_assertion() gives the verdict of the manual for each of these
\* texts and what a caller may expect.
ASSUME VerdictsOnTexts ==
    \A a \in Assertion, t \in AnyPrints, e \in Expected :
        Verdict(a, Rendered(t), Rendered(e)) = DocumentedVerdict(a, t, e)

\* Only the floating-point values are beyond what the manual describes.
ASSUME TextsPlain == Prints # FloatPrints => PlainTexts

===============================================================================
