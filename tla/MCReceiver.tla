----------------------------- MODULE MCReceiver -----------------------------
(* An instance of Receiver: a large message sent twice and an empty one in one *)
(* conversation, a Oneshot as long as the bandwidth, and the frames of others. *)
EXTENDS Receiver

CONSTANTS large, again, empty, full,           \* messages
          u1, u2, u3, short,            \* uuids, and 8 bytes that are none
          chunk1, chunk2, chunk3, raw1, raw3    \* payloads

MCByteLen ==
  [b \in Bytes |-> CASE b = Empty            -> 0
                     [] b \in {u1, u2, u3}   -> 16
                     [] b = short            -> 8
                     [] b \in {chunk1, chunk2, raw3} -> Bandwidth
                     [] b = chunk3           -> 60
                     [] b = raw1             -> 500]

MCUuidOf == [m \in Msg |-> IF m = full THEN u2 ELSE u1]
MCRaw    == [m \in Msg |-> CASE m \in {large, again} -> raw1 [] m = empty -> Empty [] m = full -> raw3]
MCChunks == [m \in Msg |-> IF m \in {large, again} THEN <<chunk1, chunk2, chunk3>> ELSE <<>>]

(* The compressed form of raw1, and one that others send. *)
MCDecode == [s \in {<<chunk1, chunk2, chunk3>>, <<chunk3>>} |-> IF s = <<chunk3>> THEN raw3 ELSE raw1]

Item(n, wire, val) == [at |-> n, num |-> n, wire |-> wire, val |-> val]

MCForeign ==
  { {},                                                     \* a ping, an empty close
    {Item(0, "cut", 0)},                                    \* a close with a reason
    {Item(1, "varint", 3), Item(2, "len", short)},          \* uuid of the wrong length
    {Item(1, "varint", 4), Item(2, "len", u3)},             \* a type of a later version
    {Item(1, "varint", 1), Item(2, "len", u1), Item(3, "len", raw3)},     \* bodies that
    {Item(1, "varint", 2), Item(2, "len", u1), Item(4, "varint", 1)},     \* do not parse
    {Item(2, "len", u1), Item(3, "varint", 1)},
    {Item(1, "varint", Word + 1), Item(2, "len", u3), Item(3, "varint", 7),  \* unknown, in
     Item(4, "varint", 60)},                                  \* a type with a bit too many,
    {Item(1, "varint", 1), Item(2, "len", u3), Item(3, "varint", 1),      \* compressed,
     Item(4, "varint", 60)},
    {Item(1, "varint", 2), Item(2, "len", u3), Item(4, "len", chunk2)},   \* half of it,
    {Item(1, "varint", 2), Item(2, "len", u3), Item(4, "len", chunk3)},   \* all of it,
    {Item(1, "varint", 2), Item(2, "len", u3), Item(9, "len", raw3),      \* its end, with
     [at |-> 10, num |-> 1, wire |-> "varint", val |-> 3]} }              \* a field twice

=============================================================================
