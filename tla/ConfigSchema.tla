----------------------------- MODULE ConfigSchema -----------------------------
(***************************************************************************)
(* A provider's settings schema and the profile documents checked against  *)
(* it (internal/provider/schema.go, validProfileConfig).                   *)
(*                                                                         *)
(* A value carries the Go type it was decoded to.  Numbers count halves,   *)
(* so that a float may be no integer; a list holds the kinds of its items. *)
(* An absent value is Nil, and so is an optional part of a field.          *)
(***************************************************************************)
EXTENDS Integers, Sequences, FiniteSets

CONSTANTS
  Candidates,   \* fields a manifest may declare
  Values        \* values a document may hold

(* What a field declares; dep and value are its DependsOn. *)
SettingsField == {"key", "type", "default", "required", "options", "min", "max", "dep", "value"}

(* What a decoder yields: only a float counts an odd number of halves. *)
Decoded(x) ==
  /\ x = [kind |-> x.kind, v |-> x.v]
  /\ x.kind \in {"int", "float"} => x.v \in Int
  /\ x.kind = "int" => x.v % 2 = 0

ASSUME SchemaAssumption ==
  /\ \A f \in Candidates : DOMAIN f = SettingsField /\ Decoded(f.default) /\ Decoded(f.value)
  /\ \A x \in Values : Decoded(x)

VARIABLES
  schema,       \* the fields of the loaded manifest, or << >> if it was refused
  saved         \* the last document that was accepted, or NoDoc

config == <<schema, saved>>

Nil == [kind |-> "nil", v |-> 0]
NoDoc == << >>
None == "none"

ConfigInit == schema = << >> /\ saved = NoDoc
Equal(a, b) == a.kind = b.kind /\ a.v = b.v

(* asInt takes every encoding of a whole number. *)
IsInt(x) == x.kind = "int" \/ (x.kind = "float" /\ x.v % 2 = 0)

IsEmpty(x) == x.kind = "nil" \/ Equal(x, [kind |-> "string", v |-> ""])

(* Mutant: no bridge between the numbers of JSON and YAML. *)
StrictEqual(a, b) == Equal(a, b)

(* looseEqual *)
LooseEqual(a, b) == IF IsInt(a) /\ IsInt(b) THEN a.v = b.v ELSE Equal(a, b)

(* "text" and "password" are checked as "string" is. *)
FieldTypes == {"string", "bool", "int", "select", "list"}

(* checkFieldValue *)
Fits(f, x) ==
  CASE f.type = "string" -> x.kind = "string"
    [] f.type = "bool"   -> x.kind = "bool"
    [] f.type = "int"    -> IsInt(x) /\ x.v >= f.min /\ x.v <= f.max
    [] f.type = "select" -> x.kind = "string" /\ x.v \in f.options
    [] f.type = "list"   -> x.kind = "list" /\ \A i \in DOMAIN x.v : x.v[i] = "string"

(* validateSchema *)
WellFormed(fields) ==
  /\ \A i, j \in DOMAIN fields : fields[i].key = fields[j].key => i = j
  /\ \A i \in DOMAIN fields :
       LET f == fields[i] IN
       /\ f.type \in FieldTypes
       /\ f.type = "select" => f.options # {}
       /\ f.min <= f.max
       /\ f.default.kind # "nil" => Fits(f, f.default)
       /\ f.dep # None => \E j \in DOMAIN fields : fields[j].key = f.dep

(* loadManifest: a broken schema disables the provider. *)
LoadManifest(fields) ==
  /\ schema' = IF WellFormed(fields) THEN fields ELSE << >>
  /\ saved' = NoDoc

At(doc, key) == IF key \in DOMAIN doc THEN doc[key] ELSE Nil

(* dependencySatisfied *)
Active(f, doc) == f.dep = None \/ LooseEqual(At(doc, f.dep), f.value)

(* ValidateConfig: the keys it complains of. *)
Problems(fields, doc) ==
  {f.key : f \in {g \in {fields[i] : i \in DOMAIN fields} :
     IF IsEmpty(At(doc, g.key)) THEN g.required /\ Active(g, doc)
                                ELSE ~ Fits(g, At(doc, g.key))}}

(* validProfileConfig, on the way to a saved profile.  (An import, and a   *)
(* profile created without a configuration, do not ask it.)                *)
SaveProfile(doc) ==
  /\ schema # << >>
  /\ Problems(schema, doc) = {}       \* else 400
  /\ saved' = doc
  /\ UNCHANGED schema

Keys == {f.key : f \in Candidates}
Docs == UNION {[ks -> Values] : ks \in SUBSET Keys \ {{}}}

ConfigNext ==
  \/ \E fields \in UNION {[1..k -> Candidates] : k \in 1..2} : LoadManifest(fields)
  \/ saved = NoDoc /\ \E doc \in Docs : SaveProfile(doc)   \* bound: one per manifest

ConfigSpec == ConfigInit /\ [][ConfigNext]_config

-----------------------------------------------------------------------------
(* JSON, in which the form answers and documents are stored, has one kind  *)
(* of number; YAML, in which defaults and dependencies are written, two.   *)
AsJSON(x) == IF x.kind = "int" THEN [x EXCEPT !.kind = "float"] ELSE x
Same(x, y) == Equal(AsJSON(x), AsJSON(y))

(* "Default pre-fills the form; its type must match Type": a form sent     *)
(* back as it was pre-filled is refused only where a required field has no *)
(* default.                                                                *)
FormRoundTrips ==
  LET Prefilled == [k \in {schema[i].key : i \in DOMAIN schema} |->
        AsJSON((CHOOSE f \in {schema[i] : i \in DOMAIN schema} : f.key = k).default)]
  IN \A i \in DOMAIN schema :
       schema[i].key \in Problems(schema, Prefilled)
         => schema[i].required /\ IsEmpty(schema[i].default)

(* "Required fields must be present and non-empty - unless an unsatisfied  *)
(* DependsOn hides them": no document is accepted that lacks a field which *)
(* the value of another one shows, however either number was written.      *)
NoShownFieldMissing ==
  saved # NoDoc =>
    \A i \in DOMAIN schema :
      LET f == schema[i] IN
      f.required /\ (f.dep # None => Same(At(saved, f.dep), f.value))
        => ~ IsEmpty(At(saved, f.key))

SchemaHolds == FormRoundTrips /\ NoShownFieldMissing

(* The inductive invariant: a manifest that is loaded is a well-formed one *)
(* and a saved document one it has nothing to complain of.                 *)
ConfigInv ==
  /\ WellFormed(schema) /\ \A i \in DOMAIN schema : schema[i] \in Candidates
  /\ saved # NoDoc =>
       Problems(schema, saved) = {} /\ \A key \in DOMAIN saved : saved[key] \in Values
=============================================================================
