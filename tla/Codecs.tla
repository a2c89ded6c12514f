--------------------------------- MODULE Codecs ---------------------------------
(***************************************************************************)
(* The conversions of the data that runs exchange, each with what it must   *)
(* preserve: the check of a submitted result against its schema             *)
(* (submit_result.go), durations (duration.go), references to environment   *)
(* variables (env_expand.go), stored errors and token counts                *)
(* (storage_schema.go), keys of the shared memory (shared_memory.go).       *)
(***************************************************************************)
EXTENDS Integers, Sequences, FiniteSets, SequencesExt

CONSTANTS
  Samples,  \* the data to convert, see the properties
  Env,      \* the values of the environment variables that are set
  Char,     \* a text is a sequence of characters
  SafeInt,  \* integers beyond it lose precision
  SchemaDepth  \* how deep the schema of a sampled result is nested

VARIABLE sample

CodecInit == sample \in Samples
-------------------------------------------------------------------------------
(* validateResultSchema.  A value is [kind, num, fields, items], a schema is  *)
(* [type, required, props, items] where "" is no type, required is <<>> or a  *)
(* set of names, props gives the schemas of fields and items is <<>> or one   *)
(* schema.  A number counts halves: an odd one is not an integer.             *)

checkType(v, type) ==
  CASE type = "integer" -> v.kind = "number" /\ (v.num % 2) = 0 /\ v.num \in -2 * SafeInt .. 2 * SafeInt
    [] type \in {"boolean", "string", "number", "object", "array", "null"} -> v.kind = type
    [] OTHER -> TRUE
hasObjectShape(s) == s.props # <<>> \/ s.required # <<>>
Nested(s) == s.type = "object" \/ hasObjectShape(s)

\* The values inside a value, each with its schema: the fields of an object and the elements
\* of an array, as JSON Schema has it.
Fields(v, s) ==
  IF v.kind = "object" /\ s.props # <<>>
  THEN {<<v.fields[f], s.props[1][f]>> : f \in DOMAIN s.props[1] \cap DOMAIN v.fields}
  ELSE {}
Items(v, s) ==
  IF v.kind = "array" /\ s.items # <<>>
  THEN {<<e, s.items[1]>> : e \in ToSet(v.items)}
  ELSE {}
Inside(p) == Fields(p[1], p[2]) \cup Items(p[1], p[2])

\* The recursion looks at the elements of an array only if its schema says that it is one
\* and has not the shape of an object.
ItemsRead(s) == s.type = "array" /\ ~hasObjectShape(s)
Elements(v, s) == IF ItemsRead(s) THEN Items(v, s) ELSE {}

\* All places of a value, by their depth, whether the recursion gets there or not; the
\* first are its fields.
Levels(v, s) ==
  LET level[d \in 0 .. SchemaDepth] ==
        IF d = 0 THEN Fields(v, s) ELSE UNION {Inside(p) : p \in level[d - 1]}
  IN  level
Within(v, s) == UNION {Levels(v, s)[d] : d \in 0 .. SchemaDepth}

IgnoresItems(v, s, OK) ==      \* mutant
  /\ s.required # <<>> => s.required[1] \subseteq DOMAIN v.fields
  /\ \A p \in Fields(v, s) : checkType(p[1], p[2].type)
\* The fields of an object, if OK are the places without an error.
FieldsOK(v, s, OK) ==
  /\ s.required # <<>> => s.required[1] \subseteq DOMAIN v.fields
  /\ Fields(v, s) \subseteq OK
\* A field's value or an element, if OK are the places without an error inside it.
ElementOK(v, s, OK) ==
  /\ checkType(v, s.type)
  /\ Nested(s) /\ v.kind = "object" => FieldsOK(v, s, OK)
  /\ Elements(v, s) \subseteq OK
\* The recursion, unrolled to the depth of the schema.
ElementsOK(v, s) ==
  LET ok[d \in 0 .. SchemaDepth + 1] ==
        IF d = 0 THEN {} ELSE {p \in Within(v, s) : ElementOK(p[1], p[2], ok[d - 1])}
  IN  ok
validateResultSchema(v, s) == FieldsOK(v, s, ElementsOK(v, s)[SchemaDepth + 1])

Lacks(v, s) == s.required # <<>> /\ ~(s.required[1] \subseteq DOMAIN v.fields)
Contradicts(v, s) == ~checkType(v, s.type) \/ (v.kind = "object" /\ Lacks(v, s))

\* A submitted result in which no required field is missing and no place contradicts its
\* schema is accepted.  One that is accepted is such a result, provided every schema with
\* items is one whose items are read: a bad element beside a missing type, or beside
\* required, is let through (submit_result.go:113-121, 136-141).
ResultsSound(v, s) ==
  LET fits == ~Lacks(v, s) /\ \A p \in Within(v, s) : ~Contradicts(p[1], p[2])
  IN  /\ fits => validateResultSchema(v, s)
      /\ (\A p \in Within(v, s) : p[2].items # <<>> => ItemsRead(p[2])) =>
           (validateResultSchema(v, s) => fits)
-------------------------------------------------------------------------------
(* A duration counts half seconds, its text is a sign and <<number, unit>>    *)
(* parts, h for 3600, m for 60 and s for 1.                                   *)

Term(n, unit) == IF n > 0 THEN << <<n, unit>> >> ELSE <<>>
FormatDuration(d) ==
  LET sec == (IF d < 0 THEN -d ELSE d) \div 2
      written == Term(sec \div 3600, 3600) \o Term((sec \div 60) % 60, 60) \o Term(sec % 60, 1)
  IN  [negative |-> d < 0, parts |-> IF written = <<>> THEN << <<0, 1>> >> ELSE written]

\* Parts of descending units; an empty or negative duration is refused.
Readable(t) ==
  /\ ~t.negative /\ t.parts # <<>>
  /\ \A i, j \in DOMAIN t.parts : i < j => t.parts[i][2] > t.parts[j][2]
Amounts(parts) ==
  LET sum[i \in 0 .. Len(parts)] == IF i = 0 THEN 0 ELSE sum[i - 1] + parts[i][1] * parts[i][2]
  IN  sum
ParseDurationStrict(t) == 2 * Amounts(t.parts)[Len(t.parts)]

\* What is written can be read back unless it is negative, cut to whole seconds.
DurationsSound(d) ==
  d >= 0 => /\ Readable(FormatDuration(d))
            /\ ParseDurationStrict(FormatDuration(d)) = d - (d % 2)
-------------------------------------------------------------------------------
(* expandEnvVars.                                                             *)

IsNameStart(c) == c \in {"a", "b", "_"}
IsNameChar(c) == IsNameStart(c) \/ c = "1"
IsEnvName(n) == n # <<>> /\ IsNameStart(n[1]) /\ \A i \in DOMAIN n : IsNameChar(n[i])
Getenv(n) == IF n \in DOMAIN Env THEN Env[n] ELSE <<>>
After(s, i) == SubSeq(s, i + 1, Len(s))

\* How much of a text that starts with a dollar is replaced, and by what.
Reference(s) ==
  LET close == SelectInSeq(s, LAMBDA c : c = "}")
      name == SubSeq(s, 3, close - 1)
      end == CHOOSE j \in 1 .. Len(s) :
               /\ \A i \in 2 .. j : IsNameChar(s[i])
               /\ j < Len(s) => ~IsNameChar(s[j + 1])
  IN  CASE Len(s) = 1 -> [length |-> 1, by |-> <<"$">>]
        [] Len(s) > 1 /\ s[2] = "$" -> [length |-> 2, by |-> <<"$">>]
        [] Len(s) > 1 /\ s[2] = "{" /\ close > 0 /\ IsEnvName(name) ->
             [length |-> close, by |-> Getenv(name)]
        [] Len(s) > 1 /\ IsNameStart(s[2]) -> [length |-> end, by |-> Getenv(SubSeq(s, 2, end))]
        [] OTHER -> [length |-> 1, by |-> <<"$">>]

\* The loop: one round copies a character or replaces a reference at the place i.
Expanded(s, now) ==
  IF now.i > Len(s) THEN now
  ELSE IF s[now.i] # "$" THEN [i |-> now.i + 1, out |-> Append(now.out, s[now.i])]
  ELSE LET ref == Reference(After(s, now.i - 1))
       IN  [i |-> now.i + ref.length, out |-> now.out \o ref.by]
Expansion(s) ==
  LET round[n \in 0 .. Len(s)] ==
        IF n = 0 THEN [i |-> 1, out |-> <<>>] ELSE Expanded(s, round[n - 1])
  IN  round
expandEnvVars(s) == Expansion(s)[Len(s)].out

\* The dollars of the first n characters doubled.
Doubled(s) ==
  LET to[n \in 0 .. Len(s)] ==
        IF n = 0 THEN <<>>
        ELSE to[n - 1] \o (IF s[n] = "$" THEN <<"$", "$">> ELSE <<s[n]>>)
  IN  to
Escaped(s) == Doubled(s)[Len(s)]
\* Doubling its dollars protects every text, and a text without a reference is not changed.
ExpansionSound(s) ==
  /\ expandEnvVars(Escaped(s)) = s
  /\ (\A i \in 1 .. Len(s) - 1 : s[i] = "$" => s[i + 1] # "{" /\ s[i + 1] # "$" /\ ~IsNameStart(s[i + 1]))
       => expandEnvVars(s) = s
-------------------------------------------------------------------------------
(* An error is the texts wrapped around it and the messages joined in it.     *)

errorToSchema(e) ==
  IF e.messages = <<>> THEN [messages |-> <<>>, joined |-> FALSE]
  ELSE IF e.joined THEN [messages |-> e.messages, joined |-> TRUE]
  ELSE [messages |-> <<e.around \o e.messages[1]>>, joined |-> FALSE]
errorFromSchema(m) ==
  [around |-> <<>>, messages |-> m.messages, joined |-> m.joined /\ Len(m.messages) > 1]

\* Counts of zero are not written; older files have other keys.
Counter == {"input", "output"}
tokensToSchema(u) == [new |-> [k \in {k \in Counter : u[k] # 0} |-> u[k]], legacy |-> <<>>]
Or(j, k) == IF k \in DOMAIN j THEN j[k] ELSE 0
tokensFromSchema(j) ==
  [k \in Counter |-> IF Or(j.new, k) # 0 THEN Or(j.new, k) ELSE Or(j.legacy, k)]

\* A stored error comes back with all its messages, and with the texts around them unless
\* it joins several; token counts come back from either form of the file.
StoredSound(e, u) ==
  LET back == errorFromSchema(errorToSchema(e))
      Whole(x) == [i \in DOMAIN x.messages |-> x.around \o x.messages[i]]
  IN  /\ Len(back.messages) = Len(e.messages)
      /\ e.joined => back.messages = e.messages
      /\ ~e.joined => Whole(back) = Whole(e)
      /\ tokensFromSchema(tokensToSchema(u)) = u
      /\ tokensFromSchema([new |-> <<>>, legacy |-> u]) = u
-------------------------------------------------------------------------------
(* Keys of the shared memory: the agent's name, a slash, its own key.         *)

Write(agent, key) == [i \in DOMAIN agent |-> IF agent[i] = "/" THEN "_" ELSE agent[i]] \o <<"/">> \o key
ListByAgent(keys, agent) ==
  {After(k, Len(agent) + 1) : k \in {k \in keys : IsPrefix(agent \o <<"/">>, k)}}

\* Agents with different names share no key, whatever keys they choose, and each lists
\* what it wrote, unless their names contain slashes.
KeysSound(agents, keys) ==
  LET written == {Write(a, k) : a \in agents, k \in keys}
  IN  (\A a \in agents : ~Contains(a, "/")) =>
        /\ Cardinality(written) = Cardinality(agents) * Cardinality(keys)
        /\ \A a \in agents : ListByAgent(written, a) = keys
-------------------------------------------------------------------------------
\* The data the code can hold.  The schema is of finite depth, an error that joins none
\* has one message at most, and a token is counted in its two kinds.
Text == Seq(Char)
Sampled(x) ==
  \/ x.kind = "result" /\ Levels(x.value, x.schema)[SchemaDepth] = {}
  \/ x.kind = "duration" /\ x.halves \in Int
  \/ x.kind = "text" /\ x.text \in Text
  \/ /\ x.kind = "stored" /\ x.error.around \in Text /\ x.error.messages \in Seq(Text)
     /\ x.error.joined \in BOOLEAN
     /\ Len(x.error.messages) > 1 => x.error.joined
     /\ x.usage \in [Counter -> Nat]
  \/ /\ x.kind = "keys" /\ x.agents \subseteq Text /\ x.keys \subseteq Text
     /\ IsFiniteSet(x.agents) /\ IsFiniteSet(x.keys)
ASSUME CodecsAssumption ==
  /\ SafeInt \in Nat /\ SchemaDepth \in Nat
  /\ \A n \in DOMAIN Env : Env[n] \in Text
  /\ \A x \in Samples : Sampled(x)

CodecSpec == CodecInit /\ [][FALSE]_sample  \* the data does not change

CodecTypeOK == Sampled(sample)

\* Every conversion preserves what its readers rely on.
CodecsSound ==
  CASE sample.kind = "result" -> ResultsSound(sample.value, sample.schema)
    [] sample.kind = "duration" -> DurationsSound(sample.halves)
    [] sample.kind = "text" -> ExpansionSound(sample.text)
    [] sample.kind = "stored" -> StoredSound(sample.error, sample.usage)
    [] sample.kind = "keys" -> KeysSound(sample.agents, sample.keys)
===============================================================================
