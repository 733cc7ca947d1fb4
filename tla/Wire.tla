-------------------------------- MODULE Wire --------------------------------
(***************************************************************************)
(* The frames of wsmq: the protobuf messages of message.proto as the       *)
(* generated code writes, sizes and reads them.                            *)
(*                                                                         *)
(* A message is a record.  Its schema has the same field names and gives   *)
(* each its number and kind.  A frame is the set of the fields in it, each *)
(* with the place where it starts, so that a frame may hold a field twice  *)
(* or out of order; a field cut off by the end of the data has the wire    *)
(* type "cut".  Byte vectors are opaque values with a length.              *)
(***************************************************************************)
EXTENDS Naturals, FiniteSetsExt

CONSTANTS
  Bytes,    \* byte vectors
  Empty,    \* the vector of length 0
  ByteLen,  \* their lengths
  Word      \* how many values an enum field has on the wire: 2^32

ASSUME BytesAssumption ==
  /\ Empty \in Bytes
  /\ ByteLen \in [Bytes -> Nat]
  /\ \A b \in Bytes : ByteLen[b] = 0 <=> b = Empty

ASSUME WordAssumption == Word \in Nat /\ Word > 3

-----------------------------------------------------------------------------
(* The enums, and what Uuid::from_slice takes for a uuid. *)
Type == [ONESHOT |-> 0, BEGIN |-> 1, PROCESS |-> 2, END |-> 3]

Compression == [NONE |-> 0, SNAPPY |-> 1]

Uuid == {b \in Bytes : ByteLen[b] = 16}

-----------------------------------------------------------------------------
(* The schemas. *)
Field(number, kind) == [num |-> number, kind |-> kind]

HeaderFields ==
  [type |-> Field(1, "Type"), uuid |-> Field(2, "bytes")]

OneshotFields ==
  [type |-> Field(1, "Type"), uuid |-> Field(2, "bytes"), message |-> Field(3, "bytes")]

BeginFields ==
  [type        |-> Field(1, "Type"),
   uuid        |-> Field(2, "bytes"),
   compression |-> Field(3, "Compression"),
   length      |-> Field(4, "uint64")]

ProcessFieldsMutant ==   \* numbers the chunk before the uuid, unlike Header
  [type    |-> Field(1, "Type"),
   seq     |-> Field(2, "uint64"),
   uuid    |-> Field(3, "bytes"),
   message |-> Field(4, "bytes")]

ProcessFields ==
  [type    |-> Field(1, "Type"),
   uuid    |-> Field(2, "bytes"),
   seq     |-> Field(3, "uint64"),
   message |-> Field(4, "bytes")]

EndFields ==
  [type |-> Field(1, "Type"), uuid |-> Field(2, "bytes")]

Schemas == {HeaderFields, OneshotFields, BeginFields, ProcessFields, EndFields}

-----------------------------------------------------------------------------
(* What a field of each kind holds, where it starts from, how it is written. *)
Values(kind) == CASE kind = "Type"        -> 0..3
                  [] kind = "Compression" -> 0..1
                  [] kind = "uint64"      -> Nat
                  [] kind = "bytes"       -> Bytes

Default(kind) == IF kind = "bytes" THEN Empty ELSE 0

WireType(kind) == IF kind = "bytes" THEN "len" ELSE "varint"

Messages(schema) ==
  {m \in [DOMAIN schema -> Nat \cup Bytes] :
     \A n \in DOMAIN schema : m[n] \in Values(schema[n].kind)}

-----------------------------------------------------------------------------
(* A field as it comes: what is not a field of theirs, such as a varint of  *)
(* more than 64 bits, is cut off.                                            *)
WireField ==
  [at : Nat, num : Nat, wire : {"len"}, val : Bytes]
    \cup [at : Nat, num : Nat, wire : {"varint", "cut"}, val : Nat]

(* write_to_bytes: the fields that differ from their default, by number. *)
Encode(schema, message) ==
  {[at   |-> schema[n].num,
    num  |-> schema[n].num,
    wire |-> WireType(schema[n].kind),
    val  |-> message[n]] :
       n \in {k \in DOMAIN schema : message[k] # Default(schema[k].kind)}}

(* compute_size: every tag takes one byte. *)
varint[n \in Nat] == IF n < 128 THEN 1 ELSE 1 + varint[n \div 128]

FieldSize(f) ==
  1 + (IF f.wire = "len" THEN varint[ByteLen[f.val]] + ByteLen[f.val] ELSE varint[f.val])

FrameSize(frame) == MapThenSumSet(FieldSize, frame)

-----------------------------------------------------------------------------
(* merge_from fails on a known field of another wire type and at the end of  *)
(* cut off data; it skips fields it does not know.                           *)
Malformed(schema, frame) ==
  \E f \in frame :
    \/ f.wire = "cut"
    \/ \E n \in DOMAIN schema :
         f.num = schema[n].num /\ f.wire # WireType(schema[n].kind)

(* An enum is read as an int32, which drops the upper half of the varint. *)
Cast(kind, val) == IF kind \in {"Type", "Compression"} THEN val % Word ELSE val

(* The last of several values stays; an enum value the code does not know    *)
(* changes nothing; a field that is not there has its default, and for the   *)
(* type that is ONESHOT in every message, whatever message.proto says.       *)
SettingsRawMutant(schema, frame, n) ==   \* takes whatever number it reads
  {f \in frame : f.num = schema[n].num}

Settings(schema, frame, n) ==
  {f \in frame : /\ f.num = schema[n].num
                 /\ Cast(schema[n].kind, f.val) \in Values(schema[n].kind)}

LastOf(fields) == CHOOSE f \in fields : \A g \in fields : g.at <= f.at

Read(schema, frame, n) ==
  IF Settings(schema, frame, n) = {}
    THEN Default(schema[n].kind)
    ELSE Cast(schema[n].kind, LastOf(Settings(schema, frame, n)).val)

(* parse_from_bytes, where it succeeds. *)
Parse(schema, frame) == [n \in DOMAIN schema |-> Read(schema, frame, n)]

=============================================================================
