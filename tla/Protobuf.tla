------------------------------- MODULE Protobuf -------------------------------
(***************************************************************************)
(* nanopb: pb_encode writes a struct as its type's field array says, and   *)
(* pb_decode reads the bytes into a struct of a type that may be older or  *)
(* newer.  A step is one turn of the loop of pb_decode_noinit; a           *)
(* submessage is a stream inside the stream, here a frame on the stack.    *)
(*                                                                         *)
(* A byte is the set of its bits, a number on the wire the set of its 64.  *)
(* A struct maps tags to sequences: what has_, the count or which_ says is *)
(* there.  Fields are static, of 32 bits when fixed; callbacks, pointers,  *)
(* extensions and arrays of fixed count are left out, and a buffer for the *)
(* encoder that is too short.                                              *)
(***************************************************************************)
EXTENDS Integers, SequencesExt, FiniteSetsExt

CONSTANTS WriterType,    \* the pb_field_t array of the sender
          ReaderTypes,   \* those a receiver may have
          Messages       \* structs of the sender

VARIABLES sent,          \* the two structs that were encoded, one after the other
          input,         \* their bytes
          stack,         \* the streams that are open, with the structs they fill
          status         \* of the call of pb_decode

pbVars == <<sent, input, stack, status>>

-----------------------------------------------------------------------------
(* Numbers.                                                                 *)

Number(bits) == MapThenSumSet(LAMBDA b : 2 ^ b, bits)

\* The 64 bits of n.
Bits(n) ==
  LET Ones(k) == {b \in 0 .. 30 : (k \div 2 ^ b) % 2 = 1}
  IN IF n >= 0 THEN Ones(n) ELSE (0 .. 63) \ Ones(-n - 1)

\* A cast to a signed integer of w bits.
Signed(bits, w) ==
  LET low == bits \cap 0 .. w - 1
  IN IF w - 1 \in low THEN -Number((0 .. w - 1) \ low) - 1 ELSE Number(low)

ZigZag(n) == IF n < 0 THEN (0 .. 63) \ {b + 1 : b \in Bits(n) \ {63}}
             ELSE {b + 1 : b \in Bits(n)}

UnZigZag(bits) == LET half == {b - 1 : b \in bits \ {0}}
                  IN IF 0 \in bits THEN (0 .. 63) \ half ELSE half

-----------------------------------------------------------------------------
(* pb_encode.                                                               *)

EncodeVarint(bits) ==
  LET last == IF bits = {} THEN 0 ELSE Max(bits) \div 7
  IN [i \in 1 .. last + 1 |-> {b \in 0 .. 6 : b + 7 * (i - 1) \in bits}
                              \cup (IF i <= last THEN {7} ELSE {})]

EncodeFixed32(n) == [i \in 1 .. 4 |-> {b \in 0 .. 7 : b + 8 * (i - 1) \in Bits(n)}]

Packable(f) == f.ltype \in {"varint", "uvarint", "svarint", "fixed32"}

WireType(f) == CASE f.ltype \in {"varint", "uvarint", "svarint"} -> 0
                 [] f.ltype = "fixed32" -> 5
                 [] OTHER -> 2

EncodeTag(wire, tag) == EncodeVarint(Bits(8 * tag + wire))

Delimited(bytes) == EncodeVarint(Bits(Len(bytes))) \o bytes

\* Empty structs, as pb_message_set_to_defaults makes them.
RECURSIVE Default(_)
Zero(f) == IF f.ltype = "submessage" THEN Default(f.sub) ELSE IF Packable(f) THEN 0 ELSE <<>>
Default(type) ==
  [tag \in {f.tag : f \in ToSet(type)} |->
     LET f == CHOOSE f \in ToSet(type) : f.tag = tag
     IN IF f.htype = "singular" THEN <<Zero(f)>> ELSE <<>>]

\* pb_check_proto3_default_value: a field without has_ is written unless it is zero.
IsDefault(f, v) == v = Zero(f)

RECURSIVE Encode(_, _)
EncodeValue(f, v) ==
  CASE f.ltype \in {"varint", "uvarint"} -> EncodeVarint(Bits(v))
    [] f.ltype = "svarint" -> EncodeVarint(ZigZag(v))
    [] f.ltype = "fixed32" -> EncodeFixed32(v)
    [] f.ltype \in {"bytes", "string"} -> Delimited(v)
    [] f.ltype = "submessage" -> Delimited(Encode(f.sub, v))

EncodeField(f, values) ==
  LET Each == [i \in DOMAIN values |-> EncodeValue(f, values[i])]
      Tagged == [i \in DOMAIN values |-> EncodeTag(WireType(f), f.tag) \o Each[i]]
  IN IF values = <<>> \/ (f.htype = "singular" /\ IsDefault(f, values[1])) THEN <<>>
     ELSE IF f.htype = "repeated" /\ Packable(f)
          THEN EncodeTag(2, f.tag) \o Delimited(FlattenSeq(Each))
          ELSE FlattenSeq(Tagged)

Encode(type, m) == FlattenSeq([i \in DOMAIN type |-> EncodeField(type[i], m[type[i].tag])])

-----------------------------------------------------------------------------
(* Reading a stream: p bytes of the input are read, and left more belong to *)
(* it.  A result is {} where the code returns false.                        *)

Ends(p, left) == {k \in 1 .. left : 7 \notin input[p + k]}

Groups(p, k) == UNION {{b + 7 * (i - 1) : b \in input[p + i] \ {7}} : i \in 1 .. k}

Varint(p, left) ==
  {[bits |-> Groups(p, k), length |-> k] :
     k \in {k \in Ends(p, left) : \A j \in Ends(p, left) : k <= j}}

DecodeVarint(p, left) ==
  {[r EXCEPT !.bits = @ \cap 0 .. 63] : r \in {r \in Varint(p, left) : r.length <= 10}}

\* What does not fit 32 bits must be the sign of a negative number.
DecodeVarint32(p, left) ==
  LET Sign(i) == IF i < 10 THEN 0 .. 7 ELSE {0}
      Fits(k) == /\ k = 5 => input[p + 5] \cap {4, 5, 6} = {}
                 /\ \A i \in 6 .. k : \/ input[p + i] \subseteq {7}
                                      \/ 31 \in Groups(p, 5) /\ input[p + i] = Sign(i)
  IN {[r EXCEPT !.bits = @ \cap 0 .. 31] : r \in {r \in Varint(p, left) : Fits(r.length)}}

\* The header of a length-delimited value: where its bytes begin and how many there are.
Substream(p, left) ==
  {s \in {[at |-> p + r.length, size |-> Number(r.bits)] : r \in DecodeVarint32(p, left)} :
     s.at + s.size <= p + left}

\* pb_skip_field: the bytes that a value of the wire type takes.
SkipField(wire, p, left) ==
  CASE wire = 0 -> {r.length : r \in Varint(p, left)}
    [] wire = 1 -> {8} \cap 0 .. left
    [] wire = 2 -> {s.at + s.size - p : s \in Substream(p, left)}
    [] wire = 5 -> {4} \cap 0 .. left
    [] OTHER -> {}

Found(v, n) == [value |-> v, length |-> n]

\* pb_dec_bytes and pb_dec_string: size is data_size, header what of it is not payload.
DecodeBytes(f, p, left) ==
  {Found(SubSeq(input, s.at + 1, s.at + s.size), s.at + s.size - p) :
     s \in {s \in Substream(p, left) : s.size + f.header <= f.size}}

\* pb_dec_varint takes the low 32 bits first: what other writers make of a negative int32.
Clipped(bits) == Signed(bits, 32)

\* The PB_DECODERS of one value; size is data_size, in bits for a number.
DecodeValue(f, p, left) ==
  LET Numbers(V(_), Holds(_)) ==
        {Found(V(r.bits), r.length) : r \in {r \in DecodeVarint(p, left) : Holds(r.bits)}}
  IN CASE f.ltype = "varint" ->
            Numbers(LAMBDA b : Signed(b, f.size),
                    LAMBDA b : f.size < 64 => Clipped(b) = Signed(b, f.size))
       [] f.ltype = "uvarint" -> Numbers(Number, LAMBDA b : b \subseteq 0 .. f.size - 1)
       [] f.ltype = "svarint" ->
            Numbers(LAMBDA b : Signed(UnZigZag(b), f.size),
                    LAMBDA b : Signed(UnZigZag(b), 64) = Signed(UnZigZag(b), f.size))
       [] f.ltype = "fixed32" ->
            {Found(Signed(UNION {{b + 8 * (i - 1) : b \in input[p + i]} : i \in 1 .. n}, 32), n) :
               n \in {4} \cap 0 .. left}
       [] f.ltype \in {"bytes", "string"} -> DecodeBytes(f, p, left)

\* A packed array, as far as the field has room.
RECURSIVE Unpack(_, _, _, _)
Unpack(f, values, p, left) ==
  IF left = 0 THEN {values}
  ELSE IF Len(values) >= f.max THEN {}
  ELSE UNION {Unpack(f, Append(values, r.value), p + r.length, left - r.length) :
                r \in DecodeValue(f, p, left)}

-----------------------------------------------------------------------------
(* pb_decode.                                                               *)

Stream(type, at, left, struct, field) ==
  [type |-> type, at |-> at, left |-> left, struct |-> struct, seen |-> {}, field |-> field]

Init ==
  /\ sent \in Messages \X Messages
  /\ input = Encode(WriterType, sent[1]) \o Encode(WriterType, sent[2])
  /\ \E type \in ReaderTypes : stack = <<Stream(type, 0, Len(input), Default(type), {})>>
  /\ status = "running"

Top == Last(stack)

\* pb_decode_tag and pb_field_iter_find; tag 0 ends a message.
Headers ==
  {[tag |-> Number(r.bits) \div 8, wire |-> Number(r.bits) % 8,
    at |-> Top.at + r.length, left |-> Top.left - r.length] : r \in DecodeVarint32(Top.at, Top.left)}

Fields(h) == {f \in ToSet(Top.type) : f.tag = h.tag}

\* has_ is set, the count is incremented, or which_ leaves the other members.
Put(s, f, v) ==
  LET union == {g.tag : g \in {g \in ToSet(s.type) : g.htype = "oneof"}}
  IN [tag \in DOMAIN s.struct |->
        CASE tag = f.tag /\ f.htype = "repeated" -> Append(s.struct[tag], v)
          [] tag = f.tag /\ f.htype # "repeated" -> <<v>>
          [] tag # f.tag -> IF f.htype = "oneof" /\ tag \in union THEN <<>> ELSE s.struct[tag]]

Filled(s, f, struct, at) ==
  [s EXCEPT !.struct = struct, !.at = at, !.left = @ - (at - s.at), !.seen = @ \cup {f.tag}]

HasRoom(s, f) == f.htype = "repeated" => Len(s.struct[f.tag]) < f.max

\* decode_static_field: what becomes of the stream after a field that is no submessage.
DecodeStaticField(h, f) ==
  IF f.htype = "repeated" /\ h.wire = 2 /\ Packable(f)
  THEN UNION {{Filled(Top, f, [Top.struct EXCEPT ![f.tag] = values], p.at + p.size) :
                 values \in Unpack(f, Top.struct[f.tag], p.at, p.size)} :
              p \in Substream(h.at, h.left)}
  ELSE {Filled(Top, f, Put(Top, f, r.value), h.at + r.length) :
          r \in {r \in DecodeValue(f, h.at, h.left) : HasRoom(Top, f)}}

Opens(f) == f.ltype = "submessage"

\* A field of the type that is not a submessage.
Decoded ==
  UNION {UNION {{Append(Front(stack), s) : s \in DecodeStaticField(h, f)} :
                f \in {f \in Fields(h) : ~Opens(f)}} : h \in Headers}

\* A field that the type does not have.
Skipped ==
  {Append(Front(stack), [Top EXCEPT !.at = h.at + n, !.left = h.left - n]) :
     <<h, n>> \in UNION {{<<h, n>> : n \in SkipField(h.wire, h.at, h.left)} :
                         h \in {h \in Headers : h.tag # 0 /\ Fields(h) = {}}}}

\* Mutant: an optional submessage that comes again begins from its defaults.
Fresh(f) == Default(f.sub)

\* The struct a submessage is read into: a repeated or a union's one is new, another one is
\* what the field holds, and stays filled.
Target(f) ==
  IF f.htype \in {"repeated", "oneof"} \/ Top.struct[f.tag] = <<>>
  THEN Default(f.sub) ELSE Top.struct[f.tag][1]

\* pb_dec_submessage: the stream inside takes its bytes from the one outside.
Entered ==
  UNION {UNION {
    {Append(Append(Front(stack), Filled(Top, f, Top.struct, p.at + p.size)),
            Stream(f.sub, p.at, p.size, Target(f), {f})) : p \in Substream(h.at, h.left)} :
    f \in {f \in Fields(h) : Opens(f) /\ HasRoom(Top, f)}} : h \in Headers}

RequiredSeen == {f.tag : f \in {f \in ToSet(Top.type) : f.htype = "required"}} \subseteq Top.seen

AtEnd == Top.left = 0 \/ \E h \in Headers : h.tag = 0

Step(next) == status = "running" /\ ~AtEnd /\ stack' \in next /\ UNCHANGED <<sent, input, status>>

DecodeField     == Step(Decoded)
SkipUnknown     == Step(Skipped)
EnterSubmessage == Step(Entered)

\* pb_close_string_substream, and the submessage is in its place.
CloseSubmessage ==
  /\ status = "running" /\ Len(stack) > 1 /\ AtEnd /\ RequiredSeen
  /\ LET outer == stack[Len(stack) - 1]
         f == CHOOSE f \in Top.field : TRUE
     IN stack' = Append(Front(Front(stack)), [outer EXCEPT !.struct = Put(outer, f, Top.struct)])
  /\ UNCHANGED <<sent, input, status>>

Returns ==
  /\ status = "running" /\ Len(stack) = 1 /\ AtEnd /\ RequiredSeen
  /\ status' = "done"
  /\ UNCHANGED <<sent, input, stack>>

Fails ==
  /\ status = "running"
  /\ IF AtEnd THEN ~RequiredSeen ELSE Decoded \cup Skipped \cup Entered = {}
  /\ status' = "failed"
  /\ UNCHANGED <<sent, input, stack>>

Next == DecodeField \/ SkipUnknown \/ EnterSubmessage \/ CloseSubmessage \/ Returns \/ Fails

Spec == Init /\ [][Next]_pbVars

-----------------------------------------------------------------------------
(* What a receiver is to see.                                               *)

Has(type, tag) == \E f \in ToSet(type) : f.tag = tag
Named(type, tag) == CHOOSE f \in ToSet(type) : f.tag = tag

\* The fields that both know.
RECURSIVE View(_, _, _)
View(from, to, m) ==
  [tag \in {f.tag : f \in ToSet(to)} |->
     IF ~Has(from, tag) THEN Default(to)[tag]
     ELSE IF Named(to, tag).ltype = "submessage"
          THEN [i \in DOMAIN m[tag] |-> View(Named(from, tag).sub, Named(to, tag).sub, m[tag][i])]
          ELSE m[tag]]

\* Repeated fields are appended, submessages merged, a union's too when it is of the same
\* type; of the rest the later wins.
RECURSIVE Merge(_, _, _)
Merge(type, a, b) ==
  LET union == {f.tag : f \in {f \in ToSet(type) : f.htype = "oneof"}}
      Unset(f, v) == v = <<>> \/ (f.htype = "singular" /\ v = <<Zero(f)>>)
  IN [tag \in DOMAIN a |->
        LET f == Named(type, tag)
        IN CASE f.htype = "repeated" -> a[tag] \o b[tag]
             [] OTHER ->
                  IF Unset(f, b[tag])
                  THEN IF f.htype = "oneof" /\ \E t \in union : b[t] # <<>> THEN <<>> ELSE a[tag]
                  ELSE IF f.ltype = "submessage" /\ a[tag] # <<>>
                       THEN <<Merge(f.sub, a[tag][1], b[tag][1])>> ELSE b[tag]]

\* Both have the same submessage in a union, at any depth of submessages that are merged.
RECURSIVE UnionTwice(_, _, _)
UnionTwice(type, a, b) ==
  \E f \in ToSet(type) :
    /\ f.ltype = "submessage" /\ f.htype # "repeated" /\ a[f.tag] # <<>> /\ b[f.tag] # <<>>
    /\ f.htype = "oneof" \/ UnionTwice(f.sub, a[f.tag][1], b[f.tag][1])

\* Whether a value that was sent has its place in the field, and a struct in the type.
FitsField(f, v) ==
  CASE f.ltype \in {"varint", "svarint"} ->
         f.size < 32 => v \in -(2 ^ (f.size - 1)) .. 2 ^ (f.size - 1) - 1
    [] f.ltype = "uvarint" -> f.size < 31 => v < 2 ^ f.size
    [] f.ltype \in {"bytes", "string"} -> Len(v) + f.header <= f.size
    [] OTHER -> TRUE

RECURSIVE Fits(_, _)
Fits(type, m) ==
  \A f \in ToSet(type) :
    /\ f.htype = "required" => m[f.tag] # <<>>
    /\ f.htype = "repeated" => Len(m[f.tag]) <= f.max
    /\ \A i \in DOMAIN m[f.tag] :
         IF f.ltype = "submessage" THEN Fits(f.sub, m[f.tag][i]) ELSE FitsField(f, m[f.tag][i])

\* What was sent, as the receiver's type has it.
Reader == stack[1].type
Sent(i) == View(WriterType, Reader, sent[i])
Merged  == Merge(Reader, Sent(1), Sent(2))

(***************************************************************************)
(* Two encodings one after the other decode as the second merged into the  *)
(* first (with an empty one, as what was sent), for a receiver of the same *)
(* type, of an older one that skips what it does not know, and of a newer  *)
(* one; and pb_decode fails only when something has no place or a required *)
(* field was not sent.  Nothing is said of two messages with the same      *)
(* submessage in a union: a comment of pb_release_union_field has them     *)
(* merged, and decode_static_field lets the second replace the first.      *)
(***************************************************************************)
DecodesAsMerge ==
  status # "running" /\ ~UnionTwice(Reader, Sent(1), Sent(2)) =>
    /\ (status = "done") <=> /\ Fits(Reader, Sent(1)) /\ Fits(Reader, Sent(2))
                             /\ Fits(Reader, Merged)
    /\ status = "done" => stack[1].struct = Merged
=============================================================================
