-------------------------- MODULE StructuralSchemas --------------------------
(***************************************************************************)
(* The structural schemas a CustomResourceDefinition carries and what the  *)
(* API server does with an object that arrives: it drops the fields the    *)
(* schema does not know, fills in the defaults, and validates the result.  *)
(* The API server is not part of the repository; this module says what the *)
(* kubebuilder markers of the Go types mean to it.                         *)
(*                                                                         *)
(* An object is a record that holds the fields that are present, so the    *)
(* `has(self.f)' of a CEL rule is f \in DOMAIN self.  Lists are sequences. *)
(* A schema is a value: scalars, lists and structs of fields.              *)
(***************************************************************************)
EXTENDS Integers, Sequences, FiniteSets, TLC

Channels == {"standard", "experimental"}

has(self, f) == f \in DOMAIN self

-----------------------------------------------------------------------------
(* Schemas *)

\* A string whose pattern every value of the models satisfies: a name, a
\* namespace, a header value, a regular expression.
Text == [t |-> "text"]

\* A text that an update may not change (self == oldSelf).
Unchanging == [t |-> "unchanging"]

\* A map from strings to strings.
MapOf(key, value, max) == [t |-> "map", key |-> key, value |-> value, max |-> max]

Enum(values) == [t |-> "enum", values |-> values]

IntRange(min, max) == [t |-> "int", min |-> min, max |-> max]

\* A host name is the sequence of its labels; "*" may only come first, before
\* another label, and only where wildcards are allowed.
Host(wildcard) == [t |-> "host", wildcard |-> wildcard]

Struct(name, fields, rules) ==
    [t |-> "struct", name |-> name, fields |-> fields, rules |-> rules]

\* listType=map with its keys, listType=set, or the atomic default.
MapList(of, min, max, keys, rules) ==
    [t |-> "list", type |-> "map", of |-> of, min |-> min, max |-> max,
     keys |-> keys, rules |-> rules]

SetList(of, max) ==
    [t |-> "list", type |-> "set", of |-> of, min |-> 0, max |-> max,
     keys |-> {}, rules |-> {}]

AtomicList(of, min, max, rules) ==
    [t |-> "list", type |-> "atomic", of |-> of, min |-> min, max |-> max,
     keys |-> {}, rules |-> rules]

-----------------------------------------------------------------------------
(* Fields of a struct.  An optional field is a pointer in Go unless it is  *)
(* a list or a map; validations are the rules that only one channel has.   *)

Required(schema) ==
    [schema |-> schema, required |-> TRUE, pointer |-> FALSE, default |-> <<>>,
     tags |-> {}, validations |-> [c \in Channels |-> {}]]

Optional(schema) ==
    [Required(schema) EXCEPT !.required = FALSE, !.pointer = TRUE]

\* An optional field (omitempty) that is held by value.
ByValue(schema) == [Required(schema) EXCEPT !.required = FALSE]

Default(field, value) == [field EXCEPT !.default = <<value>>]

Experimental(field) == [field EXCEPT !.tags = @ \cup {"experimental"}]

ValidateIPAddress(field) == [field EXCEPT !.tags = @ \cup {"validateIPAddress"}]

ChannelRules(field, standard, experimental) ==
    [field EXCEPT !.validations =
        [c \in Channels |-> IF c = "standard" THEN standard ELSE experimental]]

-----------------------------------------------------------------------------
(* CEL macros over lists *)

\* list.exists_one(x, x \in S): exactly one element of the list is in S.
exists_one(list, Test(_)) == Cardinality({i \in DOMAIN list : Test(list[i])}) = 1

exists(list, Test(_)) == \E i \in DOMAIN list : Test(list[i])

all(list, Test(_)) == \A i \in DOMAIN list : Test(list[i])

\* The field f of an element, or "" where a rule reads absent and "" alike.
OrEmpty(self, f) == IF has(self, f) THEN <<self[f]>> ELSE <<>>

-----------------------------------------------------------------------------
(* Pruning and defaulting *)

\* An object as the schema takes it: without the fields the schema does not
\* know, and with the defaults of those that are absent.
RECURSIVE Conformed(_, _)
Conformed(s, v) ==
    CASE s.t = "struct" ->
            LET known == {f \in DOMAIN s.fields :
                            f \in DOMAIN v \/ s.fields[f].default # <<>>}
                given(f) == IF f \in DOMAIN v THEN v[f] ELSE s.fields[f].default[1]
            IN [f \in known |-> Conformed(s.fields[f].schema, given(f))]
      [] s.t = "list" -> [i \in DOMAIN v |-> Conformed(s.of, v[i])]
      [] OTHER -> v

-----------------------------------------------------------------------------
(* The part of validation that is not a CEL rule: bounds, enumerations,    *)
(* required fields, unique keys.                                           *)

WellFormedHost(s, v) ==
    /\ v # <<>>
    /\ \A i \in DOMAIN v : v[i] = "*" => s.wildcard /\ i = 1 /\ Len(v) > 1

\* The key of an element of a listType=map list.
KeyOf(s, e) == [k \in s.keys |-> e[k]]

DistinctElements(s, v) ==
    /\ s.type = "map" => \A i, j \in DOMAIN v : i < j => KeyOf(s, v[i]) # KeyOf(s, v[j])
    /\ s.type = "set" => \A i, j \in DOMAIN v : i < j => v[i] # v[j]

ScalarIsValid(s, v) ==
    CASE s.t = "enum" -> v \in s.values
      [] s.t = "int" -> v \in s.min .. s.max
      [] s.t = "host" -> WellFormedHost(s, v)
      [] s.t = "map" -> Cardinality(DOMAIN v) <= s.max
      [] OTHER -> TRUE
=============================================================================
