--------------------------- MODULE ProtoConverters ---------------------------
(***************************************************************************)
(* QueryProtoConverter and CollisionProtoConverter: queries and collisions *)
(* as the messages of collision.proto.  A query is deserialized by every   *)
(* rank it comes to and serialized for the next one, and so are results on *)
(* their way back, but for those that go through shared memory.            *)
(*                                                                         *)
(* A query is a sequence of field queries, a message one of conditions.    *)
(* The data of a condition has the member of its oneof that is set, if     *)
(* there is one; the others read as zero or as an empty string.            *)
(***************************************************************************)
EXTENDS CollisionFields

Types == {"HAS_VALUE", "EQUALS", "LESS_THAN", "GREATER_THAN", "CONTAINS"}

-----------------------------------------------------------------------------
(* QueryProtoConverter *)

\* The member of the oneof for values of a type.
Member == [UINT8_T |-> "uint8_data", FIXED_STRING |-> "string_data"]

Read(condition, member) ==
    IF member \in DOMAIN condition.data THEN condition.data[member]
    ELSE IF member = "string_data" THEN <<>> ELSE 0

\* The type of the value is that of the field, whatever member is set, which is
\* all that Query::create asks for.  There are no dates and times in a message,
\* not even for HAS_VALUE, which has no use for a value.
from_proto_query_value(condition) ==
    CASE field_to_value_type[condition.field] = "UINT8_T" -> UInt8(Read(condition, "uint8_data"))
      [] field_to_value_type[condition.field] = "FIXED_STRING" ->
             CollisionString(Read(condition, "string_data"))
      [] field_to_value_type[condition.field] = "DATE" -> Thrown

create(condition) ==
    [name |-> condition.field, type |-> condition.type,
     value |-> from_proto_query_value(condition),
     invert_match |-> condition.not, case_insensitive |-> condition.case_insensitive]

\* A type that this program does not know throws, and so does queries.at(0)
\* when there is no condition.
deserialize(message) ==
    IF \/ message = <<>>
       \/ \E k \in DOMAIN message :
              message[k].type \notin Types \/ from_proto_query_value(message[k]) = Thrown
    THEN Thrown
    ELSE [k \in DOMAIN message |-> create(message[k])]

serialize(query) ==
    [k \in DOMAIN query |->
        [field |-> query[k].name, type |-> query[k].type,
         data |-> [member \in {Member[field_to_value_type[query[k].name]]} |-> query[k].value],
         not |-> query[k].invert_match, case_insensitive |-> query[k].case_insensitive]]

-----------------------------------------------------------------------------
(* CollisionProtoConverter *)

\* Only the fields with a value are set.  A date is written in full and comes
\* back as the same.
serialize_collision(collision) ==
    [f \in {f \in Fields : collision[f] # NoValue} |-> collision[f]]

deserialize_collision(message) ==
    [f \in Fields |->
        IF f \notin DOMAIN message THEN NoValue
        ELSE CASE field_to_value_type[f] = "DATE" -> message[f]
               [] field_to_value_type[f] = "UINT8_T" -> UInt8(message[f])
               [] field_to_value_type[f] = "FIXED_STRING" -> CollisionString(message[f])]
=============================================================================
