------------------------------ MODULE LspBase ------------------------------
(***************************************************************************)
(* How the values of the language-server protocol become JSON and back:    *)
(* the code that src/lsp/schema repeats for every type, once, as a         *)
(* function of the type's shape, and the scalar types of lsp_base.c.       *)
(*                                                                         *)
(* A JSON value is a pair of its kind and what it holds: a number, the     *)
(* text of another scalar, a sequence, or a function from the names of an  *)
(* object.  A value of the program has the same form; a union holds its    *)
(* tag, the alternative whose memory was written, and that alternative's   *)
(* value.                                                                  *)
(***************************************************************************)
EXTENDS Integers, Sequences, FiniteSets

CONSTANT Word  \* how many numbers an unsigned int has, and an int: 2^32

ASSUME WordAssumption == Word \in Nat \ {0}

Absent == <<"absent", "">>
Kind(json) == json[1]
Held(json) == json[2]
JsonObject(f) == <<"object", f>>
JsonArray(s) == <<"array", s>>

-----------------------------------------------------------------------------
(* The shapes of types.  A named type has a decoder of its own; unions and     *)
(* nested objects are decoded inside that of the type they belong to.          *)

Plain(kind) == [is |-> "plain", kind |-> kind]
Enum(kind, names) == [is |-> "enum", kind |-> kind, names |-> names]
ListOf(type) == [is |-> "list", of |-> type, asserted |-> TRUE]
Object(members) == [is |-> "object", members |-> members]
Nested(members) == [is |-> "nested", members |-> members]
OneOf(alternatives) == [is |-> "union", alternatives |-> alternatives]

Required(name, type) == [name |-> name, type |-> type, required |-> TRUE]
Optional(name, type) == [name |-> name, type |-> type, required |-> FALSE]

IndexOf(type, name) ==
  CHOOSE i \in DOMAIN type.members : type.members[i].name = name

Inlined(type) == type.is \in {"union", "nested"}

StringView == Plain("string")
StringViews == ListOf(StringView)
Bool == Plain("boolean")
UInt32 == Plain("int")
UInt32s == [is |-> "list", of |-> UInt32, asserted |-> FALSE]
Null == Plain("null")
JSONValue == [is |-> "any"]
JSONValues == ListOf(JSONValue)
(* An int is encoded as a number.  Its decoder wants a JSON value whose kind   *)
(* is that of a number and, in the next line, equals I32, which no kind does.  *)
Integer == [is |-> "int"]

-----------------------------------------------------------------------------
(* From text to JSON.  The sign of a number is not skipped before its first    *)
(* digit is looked for: none is found, and the number is 0.                    *)
RECURSIVE json_decode(_)
json_decode(json) ==
  CASE Kind(json) = "int" -> IF Held(json) < 0 THEN <<"int", 0>> ELSE json
    [] Kind(json) = "array" ->
         JsonArray([i \in DOMAIN Held(json) |-> json_decode(Held(json)[i])])
    [] Kind(json) = "object" ->
         JsonObject([f \in DOMAIN Held(json) |-> json_decode(Held(json)[f])])
    [] OTHER -> json

-----------------------------------------------------------------------------
(* Decoding: a value, nothing, or the end of the program.                      *)

Got(value) == [got |-> "value", value |-> value]
Empty == [got |-> "empty", value |-> Absent]
Missing == [got |-> "absent", value |-> Absent]
Abort == [got |-> "abort", value |-> Absent]

(* json_get: nothing when what is asked is no object.                          *)
json_get(json, name) ==
  IF Kind(json) = "object" /\ name \in DOMAIN Held(json)
  THEN Held(json)[name]
  ELSE Absent

(* A number is read by the lowest 32 of its 64 bits.                           *)
DecodePlain(type, json) ==
  IF Kind(json) # type.kind THEN Empty
  ELSE IF type.kind = "int" THEN Got(<<"int", Held(json) % Word>>)
  ELSE Got(json)

(* json_int_value ends the program for a number that is no int.                *)
DecodeEnum(type, json) ==
  IF json = Absent THEN Empty
  ELSE IF Kind(json) # type.kind \/ (type.kind = "int" /\ Held(json) >= Word \div 2) THEN Abort
  ELSE IF Held(json) \in type.names THEN Got(json)
  ELSE Empty

First(indices) == CHOOSE i \in indices : \A j \in indices : i <= j
Failures(outcomes) == {i \in DOMAIN outcomes : outcomes[i].got \in {"empty", "abort"}}

\* Mutant: the last element is left out.
AllButLast(outcomes) ==
  IF Failures(outcomes) # {}
  THEN outcomes[First(Failures(outcomes))]
  ELSE Got(JsonArray([i \in 1..(Len(outcomes) - 1) |-> outcomes[i].value]))

(* The elements are decoded one after the other; the first that cannot be      *)
(* decides.                                                                    *)
Elements(outcomes) ==
  IF Failures(outcomes) # {}
  THEN outcomes[First(Failures(outcomes))]
  ELSE Got(JsonArray([i \in DOMAIN outcomes |-> outcomes[i].value]))

Members(members, outcomes) ==
  LET present == {i \in DOMAIN members : outcomes[i].got = "value"}
  IN  IF Failures(outcomes) # {}
      THEN outcomes[First(Failures(outcomes))]
      ELSE Got(JsonObject([f \in {members[i].name : i \in present} |->
                             outcomes[CHOOSE i \in present : members[i].name = f].value]))

\* Mutant: a required scalar that is not there keeps the value it was zeroed to.
MemberZeroed(member, decoded) ==
  IF decoded.got # "empty" THEN decoded
  ELSE IF ~member.required THEN Missing
  ELSE IF member.type.is = "plain" THEN Got(<<member.type.kind, IF member.type.kind = "int" THEN 0 ELSE "">>)
  ELSE decoded

(* FORWARD_OPTIONAL gives up for a required member; an optional one is absent  *)
(* when it cannot be decoded.                                                  *)
Member(member, decoded) ==
  IF decoded.got = "empty" /\ ~member.required THEN Missing ELSE decoded

(* The first alternative that can be decoded.  The tag is set for a named      *)
(* type; an object that is spelled out writes its members and leaves the tag   *)
(* as it was.                                                                  *)
Alternative(type, outcomes) ==
  LET taken == {i \in DOMAIN outcomes : outcomes[i].got # "empty"}
      first == First(taken)
      tag == IF Inlined(type.alternatives[first]) THEN 0 ELSE first - 1
  IN  IF taken = {} THEN Empty
      ELSE IF outcomes[first].got = "abort" THEN Abort
      ELSE Got(<<"union", <<tag, first - 1, outcomes[first].value>>>>)

RECURSIVE Decode(_, _)
DecodeMembers(members, json) ==
  LET Outcome(m) ==
        LET found == json_get(json, m.name)
        IN  IF ~Inlined(m.type) THEN Member(m, Decode(m.type, found))
            ELSE IF found # Absent THEN Decode(m.type, found)
            ELSE IF m.required THEN Abort ELSE Missing
  IN  Members(members, [i \in DOMAIN members |-> Outcome(members[i])])

Decode(type, json) ==
  CASE type.is = "plain" -> DecodePlain(type, json)
    [] type.is = "int" -> Empty
    [] type.is = "any" -> IF json = Absent THEN Empty ELSE Got(json)
    [] type.is = "enum" -> DecodeEnum(type, json)
    [] type.is = "list" ->
         IF json = Absent THEN Empty
         ELSE IF Kind(json) # "array" THEN IF type.asserted THEN Abort ELSE Empty
         ELSE Elements([i \in DOMAIN Held(json) |-> Decode(type.of, Held(json)[i])])
    [] type.is = "object" ->
         IF Kind(json) = "object" THEN DecodeMembers(type.members, json) ELSE Empty
    [] type.is = "nested" -> DecodeMembers(type.members, json)
    [] type.is = "union" ->
         IF json = Absent THEN Empty
         ELSE Alternative(type, [i \in DOMAIN type.alternatives |->
                                   Decode(type.alternatives[i], json)])

-----------------------------------------------------------------------------
(* Encoding.                                                                   *)

RECURSIVE Encode(_, _)
(* The tag says how the memory of a union is read, whatever was written there. *)
EncodeUnion(type, union) ==
  IF union[1] = union[2]
  THEN Encode(type.alternatives[union[1] + 1], union[3])
  ELSE <<"garbled", "">>

Encode(type, value) ==
  CASE type.is = "list" ->
         JsonArray([i \in DOMAIN Held(value) |-> Encode(type.of, Held(value)[i])])
    [] type.is \in {"object", "nested"} ->
         JsonObject([f \in DOMAIN Held(value) |->
           Encode(type.members[IndexOf(type, f)].type, Held(value)[f])])
    [] type.is = "union" -> EncodeUnion(type, Held(value))
    [] OTHER -> value
=============================================================================
