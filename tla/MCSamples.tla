-------------------------------- MODULE MCSamples -------------------------------
(***************************************************************************)
(* Small data for Codecs: values and schemas nested three deep, the         *)
(* durations around every unit, every short text over five characters,      *)
(* errors and token counts, and agents whose names share prefixes.          *)
(***************************************************************************)
EXTENDS Integers, Sequences, TLC

Value(k, n, f, i) == [kind |-> k, num |-> n, fields |-> f, items |-> i]
Object(f) == Value("object", 0, f, <<>>)
Array(i) == Value("array", 0, <<>>, i)
Null == Value("null", 0, <<>>, <<>>)
Leaves == {Value("number", n, <<>>, <<>>) : n \in {0, 1, 9}} \cup {Value("boolean", 0, <<>>, <<>>), Null}
Flat ==
  Leaves \cup {Object(f) : f \in {<<>>} \cup [{"x"} -> Leaves]}
    \cup {Array(i) : i \in {<<>>, <<Null, Object(<<>>)>>} \cup {<<a>> : a \in Leaves}}
Values == {Object("x" :> a) : a \in Flat \cup {Array(<<a>>) : a \in Flat}}

Schema(t, r, p, i) == [type |-> t, required |-> r, props |-> p, items |-> i]
LeafSchemas ==
  {Schema(t, <<>>, <<>>, <<>>) : t \in {"", "integer", "number", "object", "array", "null"}}
FlatSchemas ==
  LeafSchemas
    \cup {Schema(t, r, p, <<>>) : t \in {"", "object"}, r \in {<<>>, <<{"x"}>>},
                                  p \in {<<>>} \cup {<<"x" :> a>> : a \in LeafSchemas}}
    \cup {Schema(t, r, <<>>, <<a>>) : t \in {"", "array"}, r \in {<<>>, <<{"x"}>>},
                                    a \in LeafSchemas}
Schemas ==
  {Schema("object", r, <<[f \in {"x", "y"} |-> a]>>, <<>>) :
     r \in {<<>>, <<{"y"}>>}, a \in FlatSchemas \cup {Schema("array", <<>>, <<>>, <<b>>) : b \in FlatSchemas}}

Durations ==
  {-120, -1, 0, 1, 2, 3, 118, 119, 120, 121, 122, 7199, 7200, 7202, 7318, 7320, 7322, 200000}
ShortTexts == UNION {[1 .. n -> {"$", "{", "}", "a", "1"}] : n \in 0 .. 4}
Characters == {"$", "{", "}", "a", "1", "b", "/", "_", "w", "m", "n"}
Variables == (<<"a">> :> <<"$", "a">>) @@ (<<"a", "1">> :> <<"}">>)

Error(around, messages, joined) == [around |-> around, messages |-> messages, joined |-> joined]
Errors ==
  {Error(a, m, Len(m) > 1) : a \in {<<>>, <<"w">>}, m \in {<<>>, << <<"m">> >>, << <<"m">>, <<"n">> >>}}
    \cup {Error(<<"w">>, << <<"m">> >>, TRUE)}

AllSamples ==
  [kind : {"result"}, value : Values, schema : Schemas]
    \cup [kind : {"duration"}, halves : Durations]
    \cup [kind : {"text"}, text : ShortTexts]
    \cup [kind : {"stored"}, error : Errors, usage : [{"input", "output"} -> {0, 5}]]
    \cup [kind : {"keys"}, keys : {{<<>>, <<"/">>, <<"b">>, <<"b", "/">>}},
          agents : SUBSET {<<"a">>, <<"b">>, <<"a", "b">>, <<"a", "/">>, <<"a", "_">>}]
===============================================================================
