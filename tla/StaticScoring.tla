--------------------------- MODULE StaticScoring ----------------------------
(***************************************************************************)
(* The two deterministic evaluators that compare documents                 *)
(* (evaluation/evaluators.py ExtractionEvaluator and JSONEvaluator, with   *)
(* evaluation/normalization.py flatten_json): every pair of an expected    *)
(* and a predicted JSON document that nests at most two objects.  What     *)
(* recurses over a document is written as its body, given what it does to  *)
(* a child, and applied once per level.                                    *)
(*                                                                         *)
(* A document is a leaf [type, value] or a node: its keys in the order they *)
(* were written and the child of each; a list is a node keyed by indices.  *)
(* A path is the text flatten_json joins, cut at every "." and "[": key    *)
(* "a.b" is <<"a", "b">>, so its path within an object is that of key "b"  *)
(* in the object at key "a".  "x" and "X" are two strings that             *)
(* normalize_answer makes equal; TRUE and 1 have one value and two types.  *)
(* Scores are exact fractions.                                             *)
(***************************************************************************)
EXTENDS Integers, FiniteSets, Sequences, Functions

CONSTANTS
    Segments,    \* what "." and "[" cut a path into
    Keys,        \* the keys of objects
    KeyLists,    \* the keys an object has, in their order
    InnerLists,  \* the same of an object within an object
    Leaves       \* the scalar values: <<type, value>>

DocumentsAssumption ==
    /\ Keys \subseteq Seq(Segments) \ {<<>>}
    /\ KeyLists \cup InnerLists \subseteq {ks \in Seq(Keys) : IsInjective(ks)}

VARIABLES
    expected,  \* the task's reference document
    predicted, \* the document the response parsed to
    scores     \* what the two evaluators returned

vars == <<expected, predicted, scores>>

Leaf(v) == [kind |-> "leaf", type |-> v[1], value |-> v[2],
            keys |-> <<>>, fields |-> [k \in {} |-> 0]]
Node(ks, f) == [kind |-> "node", type |-> "object", value |-> "none", keys |-> ks, fields |-> f]

Objects(orders, children) == UNION {{Node(ks, f) : f \in [Range(ks) -> children]} : ks \in orders}
Scalars == {Leaf(v) : v \in Leaves}
Inner == Objects(InnerLists, Scalars)
Documents == Scalars \cup Objects(KeyLists, Scalars \cup Inner)

(* What the child at d's i-th key becomes, below path.                     *)
At(d, path, i, flattenChild(_, _)) == flattenChild(d.fields[d.keys[i]], path \o d.keys[i])

(* flatten_json: the leaves by path; an empty container has none, and of   *)
(* two children that come to the same path the later one overwrites the    *)
(* earlier.                                                                *)
FlattenWith(d, path, flattenChild(_, _)) ==
    IF d.kind = "leaf" THEN {[path |-> path, type |-> d.type, value |-> d.value]}
    ELSE UNION {{x \in At(d, path, i, flattenChild) :
                    \A j \in DOMAIN d.keys : j > i =>
                        \A y \in At(d, path, j, flattenChild) : y.path # x.path} :
                i \in DOMAIN d.keys}

flatten_scalar(d, path) == {[path |-> path, type |-> d.type, value |-> d.value]}
flatten_inner(d, path) == FlattenWith(d, path, flatten_scalar)
flatten_json(d, path) == FlattenWith(d, path, flatten_inner)

Normalized(v) == IF v = "X" THEN "x" ELSE v

(* _json_equal, on two leaves: strings are normalised, nothing is coerced. *)
_json_equal(a, b) ==
    /\ a.type = b.type
    /\ IF a.type = "str" THEN Normalized(a.value) = Normalized(b.value) ELSE a.value = b.value

Matching(e, p, Same(_, _)) == Cardinality({x \in e : \E y \in p : x.path = y.path /\ Same(x, y)})

_f1_RecallOnly(matched, expectedCount, predictedCount) ==
    IF expectedCount = 0 THEN <<1, 1>> ELSE <<matched, expectedCount>>

(* _f1: 2pr/(p+r) with p = m/predicted and r = m/expected is               *)
(* 2m/(expected + predicted).                                              *)
_f1(matched, expectedCount, predictedCount) ==
    IF expectedCount = 0 /\ predictedCount = 0 THEN <<1, 1>>
    ELSE <<2 * matched, expectedCount + predictedCount>>

ExtractionScore(e, p) == _f1(Matching(e, p, _json_equal), Cardinality(e), Cardinality(p))

SameType(a, b) == a.type = b.type

ValueScore(e, p) ==
    IF e = {} THEN <<IF p = {} THEN 1 ELSE 0, 1>>
    ELSE <<Matching(e, p, _json_equal), Cardinality(e)>>

(* (1 + schema + values) / 3                                               *)
JSONScore(e, p) ==
    LET s == _f1(Matching(e, p, SameType), Cardinality(e), Cardinality(p))
        v == ValueScore(e, p)
    IN  <<s[2] * v[2] + s[1] * v[2] + v[1] * s[2], 3 * s[2] * v[2]>>

Flat(d) == flatten_json(d, <<>>)
Unparsed == [kind |-> "none"]
Unscored == [extraction |-> <<0, 1>>, json |-> <<0, 1>>]

-----------------------------------------------------------------------------
Init == expected \in Documents /\ predicted = Unparsed /\ scores = Unscored

(* score() on a response that is valid JSON.                               *)
Evaluate ==
    /\ predicted = Unparsed
    /\ predicted' \in Documents
    /\ scores' = [extraction |-> ExtractionScore(Flat(expected), Flat(predicted')),
                  json |-> JSONScore(Flat(expected), Flat(predicted'))]
    /\ UNCHANGED expected

(* score() on anything else: zero, whatever was expected.                  *)
EvaluateInvalid ==
    /\ predicted = Unparsed
    /\ predicted' = [kind |-> "invalid"]
    /\ scores' = Unscored
    /\ UNCHANGED expected

Next == Evaluate \/ EvaluateInvalid

Spec == Init /\ [][Next]_vars

-----------------------------------------------------------------------------
(* Both scores are fractions between zero and one, as component_scores     *)
(* and quality_score must be.                                              *)
ScoresAreFractions ==
    \A s \in {scores.extraction, scores.json} : s[2] > 0 /\ s[1] \in 0..s[2]

(* Every value of one has its counterpart in the other, where they were    *)
(* flattened to.                                                           *)
Correspond(e, p) ==
    /\ \A x \in e : \E y \in p : x.path = y.path /\ _json_equal(x, y)
    /\ \A y \in p : \E x \in e : x.path = y.path /\ _json_equal(x, y)

(* No key has a "." or a "[" in it.                                        *)
PlainInner(d) == \A k \in DOMAIN d.fields : Len(k) = 1
Plain(d) == PlainInner(d) /\ \A k \in DOMAIN d.fields : PlainInner(d.fields[k])

(* The reference: the documents agree value by value, once containers that *)
(* hold nothing are taken out of both.                                     *)
Meaning(d) == IF d.type = "str" THEN Normalized(d.value) ELSE d.value

AgreeWith(d, c, EmptyChild(_), AgreeChild(_, _)) ==
    LET shown(x) == {k \in DOMAIN x.fields : ~EmptyChild(x.fields[k])}
    IN  \/ /\ d.kind = "leaf" /\ c.kind = "leaf"
           /\ d.type = c.type /\ Meaning(d) = Meaning(c)
        \/ /\ d.kind = "node" /\ c.kind = "node"
           /\ shown(d) = shown(c)
           /\ \A k \in shown(d) : AgreeChild(d.fields[k], c.fields[k])

EmptyScalar(d) == FALSE
EmptyInner(d) == d.kind = "node" /\ DOMAIN d.fields = {}
AgreeScalar(d, c) == d.type = c.type /\ Meaning(d) = Meaning(c)
AgreeInner(d, c) == AgreeWith(d, c, EmptyScalar, AgreeScalar)
Agree(d, c) == AgreeWith(d, c, EmptyInner, AgreeInner)

(* At the default threshold of 1.0 both evaluators accept exactly the      *)
(* documents whose flattened values correspond: no partial credit adds up  *)
(* to full marks, no type is coerced (TRUE is not 1), and no extra or      *)
(* missing path slips by.                                                  *)
FullMarksMeanCorrespondence ==
    predicted # Unparsed =>
        \A s \in {scores.extraction, scores.json} :
            (s[1] = s[2]) <=>
                (predicted.kind # "invalid" /\ Correspond(Flat(expected), Flat(predicted)))

(* Where keys are plain, those are the documents that agree as JSON.  They *)
(* need not where a key has a "." or a "[": {"a.b": 1} is then marked as   *)
(* {"a": {"b": 1}}, and of a document with both one value is lost.         *)
PlainMarksMeanAgreement ==
    (predicted.kind \in {"leaf", "node"} /\ Plain(expected) /\ Plain(predicted)) =>
        \A s \in {scores.extraction, scores.json} : (s[1] = s[2]) <=> Agree(expected, predicted)

(* Both scores are proper fractions that measure agreement: of the         *)
(* flattened values always, of the documents where keys are plain.         *)
ScoresMeasureAgreement ==
    ScoresAreFractions /\ FullMarksMeanCorrespondence /\ PlainMarksMeanAgreement
=============================================================================
