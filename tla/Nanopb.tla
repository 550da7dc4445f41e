------------------------------- MODULE Nanopb -------------------------------
(* nanopb: the encoder and decoder of protocol buffers that the Firebase     *)
(* pods link.  The C structure is a function from tags to entries: the       *)
(* sequence of the values a field holds (one of a required field, none or    *)
(* one of an optional or oneof field, count of them in an array).  The build *)
(* has no PB_ENABLE_MALLOC, so pointer fields are not decoded.               *)
(*                                                                           *)
(* Widths are scaled: a byte has 4 bits, of which a varint uses 3 for its    *)
(* group; uint32_t has kBits32 and uint64_t kBits64 bits.  Tags of a         *)
(* descriptor are distinct, so where the iterator stands does not matter.    *)
EXTENDS Integers, Sequences, SequencesExt, FiniteSets

CONSTANTS Fields,          \* the descriptor of the writer: a sequence of fields
          Readers,         \* the descriptors of readers
          Entries(_),      \* the entries the application may give a field
          MaxSet           \* bound: fields the application sets

VARIABLES msg, wire, got
pbVars == <<msg, wire, got>>

Group == 8
Byte == 16
kBits32 == 8
kBits64 == 16
PB_WT_VARINT == 0
PB_WT_64BIT == 1
PB_WT_STRING == 2
PB_WT_32BIT == 5

Packable == {"varint", "uvarint", "svarint", "fixed32", "fixed64"}

Signed(v, bits) == IF v >= 2^(bits - 1) THEN v - 2^bits ELSE v
Cast(v, bits) == Signed(v % 2^bits, bits)
CString(v) == LET n == SelectInSeq(v, LAMBDA b : b = 0)
              IN IF n = 0 THEN v ELSE SubSeq(v, 1, n - 1)

(***************************************************************************)
(* Output streams.  A stream without a callback only counts.                *)
(***************************************************************************)
PB_OSTREAM_SIZING == [ok |-> TRUE, sizing |-> TRUE, out |-> <<>>, written |-> 0, max |-> 0]
pb_ostream_from_buffer(size) == [PB_OSTREAM_SIZING EXCEPT !.sizing = FALSE, !.max = size]

(* The first failure ends the encoding: a failed stream takes nothing more.  *)
Failed(s) == [s EXCEPT !.ok = FALSE]

pb_write(s, bytes) ==
  LET n == s.written + Len(bytes)
  IN IF ~s.ok THEN s
     ELSE IF s.sizing THEN [s EXCEPT !.written = n]
     ELSE IF n > s.max THEN Failed(s)
     ELSE [s EXCEPT !.written = n, !.out = @ \o bytes]

RECURSIVE Varint(_)
Varint(v) == IF v < Group THEN <<v>>
             ELSE <<(v % Group) + Group>> \o Varint(v \div Group)
pb_encode_varint(s, v) == pb_write(s, Varint(v % 2^kBits64))
pb_encode_svarint(s, v) == pb_encode_varint(s, IF v < 0 THEN -2 * v - 1 ELSE 2 * v)
LittleEndian(v, n) == [i \in 1..n |-> (v \div Byte^(i - 1)) % Byte]
pb_encode_tag(s, wiretype, tag) == pb_encode_varint(s, 8 * tag + wiretype)
pb_encode_string(s, bytes) == pb_write(pb_encode_varint(s, Len(bytes)), bytes)

pb_encode_tag_for_field(s, f) ==
  CASE f.ltype \in {"varint", "uvarint", "svarint"} -> pb_encode_tag(s, PB_WT_VARINT, f.tag)
    [] f.ltype = "fixed32" -> pb_encode_tag(s, PB_WT_32BIT, f.tag)
    [] f.ltype = "fixed64" -> pb_encode_tag(s, PB_WT_64BIT, f.tag)
    [] f.ltype \in {"bytes", "string", "submessage", "fixed_length_bytes"}
         -> pb_encode_tag(s, PB_WT_STRING, f.tag)
    [] OTHER -> Failed(s)

(* The zero value of a proto3 field.  In a structure only the first entry of *)
(* an array is compared.                                                     *)
RECURSIVE pb_check_proto3_default_value(_, _)
pb_check_proto3_default_value(f, v) ==
  CASE f.ltype = "bytes" -> v = <<>>
    [] f.ltype = "string" -> CString(v) = <<>>
    [] f.ltype = "fixed_length_bytes" -> f.size = 0
    [] f.ltype = "submessage" ->
         \A i \in DOMAIN f.sub :
           LET g == f.sub[i]  e == v[g.tag]
           IN e = <<>> \/ (g.atype # "callback" /\ pb_check_proto3_default_value(g, e[1]))
    [] OTHER -> v = 0

(***************************************************************************)
(* Encoding.                                                                *)
(***************************************************************************)
RECURSIVE pb_encode(_, _, _), EncodeAll(_, _, _), EncodeEach(_, _, _), encode_extension_field(_, _)

(* Broken variant: the second pass is not compared with the first.           *)
SecondPassUnchecked(s, n, sub) ==
  IF ~s.ok \/ s.written + n > s.max \/ ~sub.ok THEN Failed(s)
  ELSE [s EXCEPT !.written = @ + sub.written, !.out = @ \o sub.out]

(* The callbacks run again, into a stream of n bytes; one that writes less   *)
(* than it did the first time is caught.                                     *)
SecondPass(s, n, sub) ==
  IF ~s.ok \/ s.written + n > s.max \/ sub.written # n \/ ~sub.ok THEN Failed(s)
  ELSE [s EXCEPT !.written = @ + n, !.out = @ \o sub.out]

Zeros(n) == [i \in 1..n |-> 0]

(* A submessage is encoded twice: to learn its size, then into the stream.   *)
EncodeOfSize(s, sized, fields, v) ==
  LET n == sized.written
  IN IF ~sized.ok THEN Failed(s)
     ELSE IF s.sizing THEN pb_write(pb_encode_varint(s, n), Zeros(n))
     ELSE SecondPass(pb_encode_varint(s, n), n, pb_encode(pb_ostream_from_buffer(n), fields, v))
pb_encode_submessage(s, fields, v) ==
  EncodeOfSize(s, pb_encode(PB_OSTREAM_SIZING, fields, v), fields, v)

EncodeValue(s, f, v) ==
  CASE f.ltype \in {"varint", "uvarint"} -> pb_encode_varint(s, v)
    [] f.ltype = "svarint" -> pb_encode_svarint(s, v)
    [] f.ltype = "fixed32" -> pb_write(s, LittleEndian(v, 2))
    [] f.ltype = "fixed64" -> pb_write(s, LittleEndian(v, 4))
    [] f.ltype = "bytes" -> IF Len(v) > f.size THEN Failed(s) ELSE pb_encode_string(s, v)
    [] f.ltype = "string" ->
         pb_encode_string(s, LET c == CString(v) IN SubSeq(c, 1, IF Len(c) < f.size THEN Len(c) ELSE f.size))
    [] f.ltype = "submessage" -> pb_encode_submessage(s, f.sub, v)
    [] f.ltype = "fixed_length_bytes" -> pb_encode_string(s, v)

EncodeAll(s, f, e) == IF e = <<>> THEN s ELSE EncodeAll(EncodeValue(s, f, e[1]), f, Tail(e))

EncodeTagged(s, f, v) == EncodeValue(pb_encode_tag_for_field(s, f), f, v)
EncodeEach(s, f, e) == IF e = <<>> THEN s ELSE EncodeEach(EncodeTagged(s, f, e[1]), f, Tail(e))

PackedSize(f, e) == CASE f.ltype = "fixed32" -> 2 * Len(e)
                      [] f.ltype = "fixed64" -> 4 * Len(e)
                      [] OTHER -> EncodeAll(PB_OSTREAM_SIZING, f, e).written

encode_array(s, f, e) ==
  LET n == PackedSize(f, e)
      header == pb_encode_varint(pb_encode_tag(s, PB_WT_STRING, f.tag), n)
  IN IF e = <<>> THEN s
     ELSE IF Len(e) > f.array_size THEN Failed(s)
     ELSE IF f.ltype \notin Packable THEN EncodeEach(s, f, e)
     ELSE IF s.sizing THEN pb_write(header, Zeros(n))
     ELSE EncodeAll(header, f, e)

(* A field without a has_ member counts as present when it is not zero.      *)
Present(f, e) == e # <<>> /\ (f.has \/ ~pb_check_proto3_default_value(f, e[1]))

encode_basic_field(s, f, e) ==
  CASE f.htype = "required" -> EncodeTagged(s, f, e[1])
    [] f.htype = "optional" -> IF Present(f, e) THEN EncodeTagged(s, f, e[1]) ELSE s
    [] f.htype = "repeated" -> encode_array(s, f, e)
    [] f.htype = "oneof" -> IF e = <<>> THEN s ELSE EncodeTagged(s, f, e[1])

(* The application's callback writes what it has at the time it is called:   *)
(* e[1] while the size is computed, e[2] when the bytes are written.         *)
encode_callback_field(s, f, e) ==
  LET data == e[IF s.sizing THEN 1 ELSE 2]
  IN IF data = <<>> THEN s
     ELSE pb_encode_string(pb_encode_tag_for_field(s, f), data)

encode_field(s, f, e) == IF e # <<>> /\ f.atype = "callback" THEN encode_callback_field(s, f, e)
                         ELSE IF f.atype = "callback" THEN s
                         ELSE encode_basic_field(s, f, e)

encode_extension_field(s, e) ==
  IF e = <<>> THEN s
  ELSE encode_extension_field(encode_field(s, e[1].field, e[1].entry), Tail(e))

EncodeNext(s, f, e) ==
  IF f.ltype = "extension" THEN encode_extension_field(s, e) ELSE encode_field(s, f, e)
pb_encode(s, fields, m) ==
  IF fields = <<>> THEN s
  ELSE pb_encode(EncodeNext(s, fields[1], m[fields[1].tag]), Tail(fields), m)

pb_encode_delimited(s, fields, m) == pb_encode_submessage(s, fields, m)
Encoded(s, fields, m, delimited) ==
  IF delimited THEN pb_encode_delimited(s, fields, m) ELSE pb_encode(s, fields, m)

(***************************************************************************)
(* Input streams: the bytes that are left.                                  *)
(***************************************************************************)
Bad(in) == [ok |-> FALSE, v |-> 0, in |-> in]
Good(v, in) == [ok |-> TRUE, v |-> v, in |-> in]
pb_read(in, n) == IF Len(in) < n THEN Bad(in)
                  ELSE Good(SubSeq(in, 1, n), SubSeq(in, n + 1, Len(in)))

(* pb_decode_varint and pb_decode_varint32: bits is 64 or 32 (scaled).       *)
RECURSIVE VarintFrom(_, _, _, _)
VarintFrom(in, result, bitpos, bits) ==
  IF bitpos >= bits \/ in = <<>> THEN Bad(in)
  ELSE LET r == (result + (in[1] % Group) * 2^bitpos) % 2^bits
       IN IF in[1] < Group THEN Good(r, Tail(in)) ELSE VarintFrom(Tail(in), r, bitpos + 3, bits)
pb_decode_varint(in) == VarintFrom(in, 0, 0, kBits64)
pb_decode_varint32(in) == VarintFrom(in, 0, 0, kBits32)

pb_decode_tag(in) ==
  LET t == pb_decode_varint32(in)
  IN [eof |-> IF t.ok THEN t.v = 0 ELSE t.in = <<>>,
      ok |-> t.ok /\ t.v # 0, tag |-> t.v \div 8, wire_type |-> t.v % 8, in |-> t.in]

RECURSIVE pb_skip_varint(_)
pb_skip_varint(in) == IF in = <<>> THEN Bad(in)
                      ELSE IF in[1] < Group THEN Good(0, Tail(in)) ELSE pb_skip_varint(Tail(in))

(* The bytes of a length-delimited value and what follows them.              *)
(* Broken variant: the length is not compared with the parent's bytes.       *)
SubstreamUnchecked(in) ==
  LET n == pb_decode_varint32(in)
      k == IF n.v < Len(n.in) THEN n.v ELSE Len(n.in)
  IN IF n.ok THEN pb_read(n.in, k) ELSE n

pb_make_string_substream(in) ==
  LET n == pb_decode_varint32(in)
  IN IF n.ok THEN pb_read(n.in, n.v) ELSE n
pb_skip_string(in) == pb_make_string_substream(in)

pb_skip_field(in, wire_type) ==
  CASE wire_type = PB_WT_VARINT -> pb_skip_varint(in)
    [] wire_type = PB_WT_64BIT -> pb_read(in, 4)
    [] wire_type = PB_WT_STRING -> pb_skip_string(in)
    [] wire_type = PB_WT_32BIT -> pb_read(in, 2)
    [] OTHER -> Bad(in)

RECURSIVE RawVarint(_, _)
RawVarint(in, n) ==
  IF n = 0 \/ in = <<>> THEN Bad(in)
  ELSE IF in[1] < Group THEN Good(<<in[1]>>, Tail(in))
  ELSE LET r == RawVarint(Tail(in), n - 1)
       IN IF r.ok THEN Good(<<in[1]>> \o r.v, r.in) ELSE r
read_raw_value(in, wire_type) ==
  CASE wire_type = PB_WT_VARINT -> RawVarint(in, 10)
    [] wire_type = PB_WT_64BIT -> pb_read(in, 4)
    [] wire_type = PB_WT_32BIT -> pb_read(in, 2)
    [] OTHER -> Bad(in)

(***************************************************************************)
(* Defaults.                                                                *)
(***************************************************************************)
RECURSIVE pb_message_set_to_defaults(_)
DefaultValue(f) ==
  CASE f.ltype = "submessage" -> pb_message_set_to_defaults(f.sub)
    [] f.ltype \in {"bytes", "string"} -> f.default
    [] f.ltype = "fixed_length_bytes" -> [i \in 1..f.size |-> 0]
    [] OTHER -> f.default
pb_field_set_to_default(f) ==
  IF f.ltype = "extension"
  THEN [i \in DOMAIN f.sub |-> [field |-> f.sub[i], found |-> FALSE, entry |-> <<DefaultValue(f.sub[i])>>]]
  ELSE IF f.atype # "static" \/ f.htype \in {"repeated", "oneof"} \/ f.has THEN <<>>
  ELSE <<DefaultValue(f)>>
pb_message_set_to_defaults(fields) ==
  [t \in {fields[i].tag : i \in DOMAIN fields} |->
     pb_field_set_to_default(fields[CHOOSE i \in DOMAIN fields : fields[i].tag = t])]

(***************************************************************************)
(* Decoding.                                                                *)
(***************************************************************************)
RECURSIVE pb_decode_noinit(_, _, _)
pb_decode(in, fields) == pb_decode_noinit(in, fields, pb_message_set_to_defaults(fields))

pb_dec_varint(in, bits) ==
  LET r == pb_decode_varint(in)
      s == Cast(r.v, IF bits = kBits64 THEN kBits64 ELSE kBits32)
  IN IF r.ok /\ Cast(s, bits) = s THEN Good(s, r.in) ELSE Bad(r.in)
pb_dec_uvarint(in, bits) ==
  LET r == pb_decode_varint(in) IN IF r.ok /\ r.v < 2^bits THEN r ELSE Bad(r.in)
pb_dec_svarint(in, bits) ==
  LET r == pb_decode_varint(in)
      s == IF r.v % 2 = 1 THEN -(r.v \div 2) - 1 ELSE r.v \div 2
  IN IF r.ok /\ Cast(s, bits) = s THEN Good(s, r.in) ELSE Bad(r.in)
pb_decode_fixed(in, n) ==
  LET r == pb_read(in, n)
  IN IF r.ok THEN Good(FoldLeft(LAMBDA a, i : a + r.v[i] * Byte^(i - 1), 0, [i \in 1..n |-> i]), r.in)
     ELSE r
BytesOfAtMost(in, max) ==
  LET n == pb_decode_varint32(in) IN IF n.ok /\ n.v <= max THEN pb_read(n.in, n.v) ELSE Bad(n.in)
pb_dec_fixed_length_bytes(in, size) ==
  LET n == pb_decode_varint32(in)
  IN IF ~n.ok THEN n
     ELSE IF n.v = 0 THEN Good([i \in 1..size |-> 0], n.in)
     ELSE IF n.v # size THEN Bad(n.in) ELSE pb_read(n.in, size)
(* pb_close_string_substream: r is what was read of the substream.           *)
Close(sub, r) == IF sub.ok /\ r.ok THEN Good(r.v, sub.in) ELSE Bad(sub.in)

pb_dec_submessage(in, f, old) ==
  LET sub == pb_make_string_substream(in)
  IN Close(sub, IF ~sub.ok THEN sub
                ELSE IF f.htype = "repeated" THEN pb_decode(sub.v, f.sub)
                ELSE pb_decode_noinit(sub.v, f.sub, old))

(* The decoder of the field's type, whatever the wire type says.             *)
DecodeValue(in, f, old) ==
  CASE f.ltype = "varint" -> pb_dec_varint(in, 4 * f.size)
    [] f.ltype = "uvarint" -> pb_dec_uvarint(in, 4 * f.size)
    [] f.ltype = "svarint" -> pb_dec_svarint(in, 4 * f.size)
    [] f.ltype = "fixed32" -> pb_decode_fixed(in, 2)
    [] f.ltype = "fixed64" -> pb_decode_fixed(in, 4)
    [] f.ltype = "bytes" -> BytesOfAtMost(in, f.size)
    [] f.ltype = "string" -> BytesOfAtMost(in, f.size - 1)
    [] f.ltype = "submessage" -> pb_dec_submessage(in, f, old)
    [] f.ltype = "fixed_length_bytes" -> pb_dec_fixed_length_bytes(in, f.size)

One(r) == IF r.ok THEN Good(<<r.v>>, r.in) ELSE r
Appended(e, r) == IF r.ok THEN Good(Append(e, r.v), r.in) ELSE r

RECURSIVE PackedFrom(_, _)
PackedFrom(r, f) ==
  IF ~r.ok \/ r.in = <<>> THEN r
  ELSE IF Len(r.v) >= f.array_size THEN Bad(r.in)
  ELSE PackedFrom(Appended(r.v, DecodeValue(r.in, f, 0)), f)

decode_static_field(in, wire_type, f, e) ==
  IF f.htype # "repeated"
  THEN One(DecodeValue(in, f, IF f.htype = "oneof" \/ e = <<>> THEN DefaultValue(f) ELSE e[1]))
  ELSE IF wire_type = PB_WT_STRING /\ f.ltype \in Packable
  THEN LET sub == pb_make_string_substream(in)
       IN Close(sub, IF sub.ok THEN PackedFrom(Good(e, sub.v), f) ELSE sub)
  ELSE IF Len(e) >= f.array_size THEN Bad(in) ELSE Appended(e, DecodeValue(in, f, 0))

(* The application's callback takes all the bytes it is given.               *)
decode_callback_field(in, wire_type, f, e) ==
  IF ~f.has
  THEN LET r == pb_skip_field(in, wire_type) IN IF r.ok THEN Good(e, r.in) ELSE r
  ELSE Appended(e, IF wire_type = PB_WT_STRING THEN pb_make_string_substream(in)
                   ELSE read_raw_value(in, wire_type))

decode_field(in, wire_type, f, e) ==
  CASE f.atype = "static" -> decode_static_field(in, wire_type, f, e)
    [] f.atype = "callback" -> decode_callback_field(in, wire_type, f, e)
    [] f.atype = "pointer" -> Bad(in)

(* The first extension with the field's tag takes it.                        *)
Extend(list, i, r) ==
  IF r.ok THEN Good([list EXCEPT ![i].found = TRUE, ![i].entry = r.v], r.in) ELSE r
decode_extension(in, tag, wire_type, list) ==
  LET i == SelectInSeq(list, LAMBDA x : x.field.tag = tag)
  IN IF i = 0 THEN Good(list, in)
     ELSE Extend(list, i, decode_field(in, wire_type, list[i].field, list[i].entry))

(* A member of a oneof takes the place of the others.                        *)
Which(fields, f, m) ==
  IF f.htype # "oneof" THEN m
  ELSE [u \in DOMAIN m |->
          IF u # f.tag /\ \E i \in DOMAIN fields : fields[i].tag = u /\ fields[i].htype = "oneof"
          THEN <<>> ELSE m[u]]

(* The loop of pb_decode_noinit; seen are the required fields met so far.    *)
RECURSIVE DecodeLoop(_, _, _, _)
Decoded(r, fields, f, m, seen) ==
  IF r.ok THEN DecodeLoop(r.in, fields, Which(fields, f, [m EXCEPT ![f.tag] = r.v]), seen \cup {f.tag})
  ELSE [ok |-> FALSE, v |-> m, seen |-> seen]
Skipped(r, fields, m, seen) ==
  IF r.ok THEN DecodeLoop(r.in, fields, m, seen) ELSE [ok |-> FALSE, v |-> m, seen |-> seen]
Extended(r, t, fields, tag, m, seen) ==
  IF r.ok /\ r.in = t.in THEN Skipped(pb_skip_field(t.in, t.wire_type), fields, m, seen)
  ELSE Skipped(r, fields, IF r.ok THEN [m EXCEPT ![tag] = r.v] ELSE m, seen)

DecodeField(t, fields, m, seen) ==
  LET f == SelectInSeq(fields, LAMBDA g : g.tag = t.tag /\ g.ltype # "extension")
      x == SelectInSeq(fields, LAMBDA g : g.ltype = "extension" /\ t.tag >= g.tag)
  IN IF ~t.ok THEN [ok |-> t.eof, v |-> m, seen |-> seen]
     ELSE IF f # 0
     THEN Decoded(decode_field(t.in, t.wire_type, fields[f], m[t.tag]), fields, fields[f], m, seen)
     ELSE IF x # 0
     THEN Extended(decode_extension(t.in, t.tag, t.wire_type, m[fields[x].tag]),
                   t, fields, fields[x].tag, m, seen)
     ELSE Skipped(pb_skip_field(t.in, t.wire_type), fields, m, seen)

DecodeLoop(in, fields, m, seen) ==
  IF in = <<>> THEN [ok |-> TRUE, v |-> m, seen |-> seen]
  ELSE DecodeField(pb_decode_tag(in), fields, m, seen)

(* The final check counts bits in words; a descriptor with a multiple of 32  *)
(* required fields would shift a word by its width, which C leaves undefined *)
(* (the descriptors of the instance have fewer).                             *)
CheckRequired(fields, r) ==
  LET required == {i \in DOMAIN fields : fields[i].htype = "required"}
  IN [ok |-> r.ok /\ {fields[i].tag : i \in required} \subseteq r.seen, v |-> r.v]
pb_decode_noinit(in, fields, m) == CheckRequired(fields, DecodeLoop(in, fields, m, {}))

pb_decode_delimited(in, fields) ==
  LET sub == pb_make_string_substream(in)
  IN IF sub.ok THEN pb_decode(sub.v, fields) ELSE [ok |-> FALSE, v |-> <<>>]

(***************************************************************************)
(* An application fills a structure, encodes it and sends the bytes; the    *)
(* receiver, whose descriptor may be older, gets them or a part of them.    *)
(***************************************************************************)
Tags(fields) == {fields[i].tag : i \in DOMAIN fields}
Field(fields, t) == fields[CHOOSE i \in DOMAIN fields : fields[i].tag = t]

NoWire == [sent |-> FALSE, ok |-> FALSE, bytes |-> <<>>, delimited |-> FALSE]
NothingGot == [done |-> FALSE, n |-> 0, reader |-> <<>>, ok |-> FALSE, v |-> <<>>]

Init == /\ msg = pb_message_set_to_defaults(Fields)
        /\ wire = NoWire
        /\ got = NothingGot

SetField(t, e) ==
  /\ ~wire.sent
  /\ msg[t] = pb_message_set_to_defaults(Fields)[t]
  /\ Cardinality({u \in Tags(Fields) : msg[u] # pb_message_set_to_defaults(Fields)[u]}) < MaxSet
  /\ Field(Fields, t).htype = "oneof" =>
       \A u \in Tags(Fields) \ {t} : Field(Fields, u).htype = "oneof" => msg[u] = <<>>
  /\ msg' = [msg EXCEPT ![t] = e]
  /\ UNCHANGED <<wire, got>>

(* The application asks for the size, makes room (or one byte too little)    *)
(* and encodes.                                                              *)
pb_get_encoded_size(delimited) == Encoded(PB_OSTREAM_SIZING, Fields, msg, delimited)
Sent(s, delimited) == [sent |-> TRUE, ok |-> s.ok, bytes |-> s.out, delimited |-> delimited]
Encode(delimited, missing) ==
  /\ ~wire.sent
  /\ \E size \in {pb_get_encoded_size(delimited)} :
       /\ size.ok /\ size.written >= missing
       /\ wire' = Sent(Encoded(pb_ostream_from_buffer(size.written - missing), Fields, msg, delimited),
                       delimited)
  /\ UNCHANGED <<msg, got>>

Got(n, reader, r) == [done |-> TRUE, n |-> n, reader |-> reader, ok |-> r.ok, v |-> r.v]
Receive(n, reader) ==
  LET in == SubSeq(wire.bytes, 1, n)
  IN /\ wire.ok /\ ~got.done
     /\ got' = Got(n, reader, IF wire.delimited THEN pb_decode_delimited(in, reader)
                              ELSE pb_decode(in, reader))
     /\ UNCHANGED <<msg, wire>>

Next == \/ \E t \in Tags(Fields) : \E e \in Entries(Field(Fields, t)) : SetField(t, e)
        \/ \E delimited \in BOOLEAN, missing \in {0, 1} : Encode(delimited, missing)
        \/ \E reader \in Readers : \E n \in 0..Len(wire.bytes) : Receive(n, reader)

Spec == Init /\ [][Next]_pbVars

-----------------------------------------------------------------------------
(* What the receiver should hold of an entry: callbacks were given what the  *)
(* writer's callback wrote, extensions hold the values of the sender's.      *)
RECURSIVE Arrives(_, _, _)
Arrives(f, e, r) ==
  CASE f.ltype = "extension" ->
         \A x \in ToSet(r) : \A y \in ToSet(e) : x.field.tag = y.field.tag => x.entry = y.entry
    [] f.atype = "callback" -> r = IF e = <<>> \/ e[2] = <<>> THEN <<>> ELSE <<e[2]>>
    [] f.ltype = "submessage" ->
         /\ Len(e) = Len(r)
         /\ \A i \in DOMAIN e : \A j \in DOMAIN f.sub :
              Arrives(f.sub[j], e[i][f.sub[j].tag], r[i][f.sub[j].tag])
    [] f.ltype = "string" -> Len(e) = Len(r) /\ \A i \in DOMAIN e : CString(e[i]) = CString(r[i])
    [] OTHER -> e = r

(* pb_encode, pb_get_encoded_size and pb_decode agree: bytes that the        *)
(* encoder handed out, into a buffer of the size asked for or as a delimited *)
(* message, decode with the writer's descriptor and with an older or newer   *)
(* one, and every field the two know arrives with its value; what the reader *)
(* does not know is skipped by its wire type.                                *)
WholeMessagesArrive ==
  (got.done /\ got.n = Len(wire.bytes)) =>
    /\ got.ok
    /\ \A t \in Tags(got.reader) \cap Tags(Fields) :
         Field(got.reader, t).ltype = Field(Fields, t).ltype => Arrives(Field(got.reader, t), msg[t], got.v[t])

(* A message that was cut short is refused by pb_decode, or what it yields   *)
(* is a message the sender could have meant with fewer fields: each field is *)
(* whole or missing (of an array of strings or submessages the first ones    *)
(* may have arrived), and no required field is missing.                      *)
TruncationOnlyLosesFields ==
  (got.done /\ got.ok) =>
    \A t \in Tags(got.reader) \cap Tags(Fields) :
      LET f == Field(got.reader, t)  e == msg[t]  r == got.v[t]
      IN f.ltype = Field(Fields, t).ltype =>
           \/ Arrives(f, e, r)
           \/ f.htype # "required" /\ r = pb_field_set_to_default(f)
           \/ /\ f.htype = "repeated" /\ f.ltype \notin Packable /\ Len(r) <= Len(e)
              /\ Arrives(f, SubSeq(e, 1, Len(r)), r)
=============================================================================
