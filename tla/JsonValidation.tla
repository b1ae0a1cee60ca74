----------------------------- MODULE JsonValidation -----------------------------
(***************************************************************************)
(* The validator of packages/tiktok-live/src/json-validation.ts, for the   *)
(* part of JSON Schema the package's schemas use.                          *)
(*                                                                         *)
(* A JSON value is a record with its type t; text and numbers are members  *)
(* of small sets. A schema is a record whose fields are its keywords; a    *)
(* pattern is the set of strings that match it, and the schema "true" is   *)
(* the record without keywords. Where the code reports the path and the    *)
(* expectation of the first failure, Check only says whether there is one. *)
(* $ref is left out: no schema of the package has one.                     *)
(***************************************************************************)
EXTENDS Integers, Sequences, FiniteSets, TLC

CONSTANT MaxSafe     \* Number.MAX_SAFE_INTEGER

Null == [t |-> "null"]
Bool(b) == [t |-> "boolean", bool |-> b]
Num(n) == [t |-> "number", num |-> n]
Fraction == [t |-> "fraction"]               \* a number that is no integer
Str(s) == [t |-> "string", text |-> s]
Arr(s) == [t |-> "array", items |-> s]
Obj(f) == [t |-> "object", fields |-> f]

(* The strings of the model: decimal integers, a few URLs, and words.      *)
Digits == {ToString(n) : n \in 0 .. MaxSafe + 1}
SignedDigits == {ToString(n) : n \in -1 .. MaxSafe + 1}
IsUri(s) == s \in {"https://a", "https://b", "https://u@c", "https:///d", "ftp://e", "data:f"}

Has(schema, keyword) == keyword \in DOMAIN schema
Scalars == {"null", "boolean", "number", "string"}
SameValue(a, b) == a.t = b.t /\ a.t \in Scalars /\ a = b

MatchesType(value, type) ==
    CASE type = "integer" -> value.t = "number"
      [] type = "number" -> value.t \in {"number", "fraction"}
      [] OTHER -> value.t = type

RECURSIVE Check(_, _)
Check(value, schema) ==
    /\ ~Has(schema, "never")
    /\ Has(schema, "const") => SameValue(value, schema.const)
    /\ Has(schema, "enum") => \E item \in schema.enum : SameValue(item, value)
    /\ Has(schema, "allOf") => \A i \in DOMAIN schema.allOf : Check(value, schema.allOf[i])
    /\ Has(schema, "anyOf") => \E i \in DOMAIN schema.anyOf : Check(value, schema.anyOf[i])
    /\ Has(schema, "oneOf") /\ ~Has(schema, "anyOf") =>
         Cardinality({i \in DOMAIN schema.oneOf : Check(value, schema.oneOf[i])}) = 1
    /\ Has(schema, "type") => \E type \in schema.type : MatchesType(value, type)
    /\ value.t = "string" =>
         /\ Has(schema, "pattern") => value.text \in schema.pattern
         /\ Has(schema, "format") => IsUri(value.text)
    /\ value.t = "number" =>
         /\ Has(schema, "minimum") => value.num >= schema.minimum
         /\ Has(schema, "maximum") => value.num <= schema.maximum
    /\ value.t = "array" /\ Has(schema, "items") =>
         \A i \in DOMAIN value.items : Check(value.items[i], schema.items)
    /\ value.t = "object" =>
         LET known == IF Has(schema, "properties") THEN DOMAIN schema.properties ELSE {}
         IN  /\ Has(schema, "required") => schema.required \subseteq DOMAIN value.fields
             /\ \A key \in known \cap DOMAIN value.fields :
                  Check(value.fields[key], schema.properties[key])
             /\ Has(schema, "closed") => DOMAIN value.fields \subseteq known
             /\ Has(schema, "additional") =>
                  \A key \in DOMAIN value.fields \ known : Check(value.fields[key], schema.additional)
================================================================================
