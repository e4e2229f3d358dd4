------------------------------ MODULE Protobuf ------------------------------
(***************************************************************************)
(* The protobuf writer of src/protobuf_encode.c and the reader of          *)
(* src/protobuf_decode.c, octet by octet.                                  *)
(*                                                                         *)
(* A buffer is the octets written so far, its capacity and whether it is   *)
(* on the heap: it starts in the SboSize octets inside the structure and   *)
(* moves to the heap when they are full.  An encoder is a sequence of      *)
(* fields (what it emits, in order); Emit performs it on a buffer, with    *)
(* every allocation that this makes.                                       *)
(*                                                                         *)
(* Numbers stay below 2^28 in magnitude (TLC's integers have 32 bits);     *)
(* a negative one is written, and read, as the 64-bit number it is.        *)
(***************************************************************************)
EXTENDS AttrVec

CONSTANT SboSize      \* OTLP_PB_SBO_SIZE (192)

ASSUME SboAssumption == SboSize \in Nat \ {0}

VARINT == 0
FIXED64 == 1
LEN == 2
FIXED32 == 5

---------------------------------------------------------------------------
(* Numbers as octets *)

RECURSIVE Groups(_, _), LittleEndian(_, _), Doubled(_, _)

\* Seven bits an octet from the lowest, bit 7 set on all but the last; the
\* tenth octet holds bit 63.
Groups(v, n) ==
    IF n = 10 THEN <<v % 2>>
    ELSE IF v \div 128 = 0 THEN <<v % 128>>
    ELSE <<(v % 128) + 128>> \o Groups(v \div 128, n + 1)

Varint(v) == Groups(v, 1)

LittleEndian(v, n) ==
    IF n = 0 THEN <<>> ELSE <<v % 256>> \o LittleEndian(v \div 256, n - 1)

\* The octets of the double that is the integer v, |v| < 2^20.
DoubleOctets(v) ==
    LET a    == IF v < 0 THEN -v ELSE v
        e    == CHOOSE k \in 0..20 : 2^k <= a /\ a < 2^(k+1)
        high == (1023 + e) * 2^20 + (a - 2^e) * 2^(20 - e)
        top  == LittleEndian(high, 4)
    IN  IF v = 0 THEN LittleEndian(0, 8)
        ELSE LittleEndian(0, 4) \o [top EXCEPT ![4] = @ + IF v < 0 THEN 128 ELSE 0]

---------------------------------------------------------------------------
(* Buffers *)

NewBuf == [octets |-> <<>>, cap |-> SboSize, heap |-> FALSE]

otlp_pb_buf_init(h, initial_cap) ==
    IF initial_cap <= SboSize THEN Result(h, "OK", NewBuf)
    ELSE IF CanAlloc(h)
    THEN Result(otlp_malloc(h), "OK", [NewBuf EXCEPT !.cap = initial_cap, !.heap = TRUE])
    ELSE Result(otlp_malloc(h), "NOMEM", NewBuf)

otlp_pb_buf_free(h, b) == otlp_free(h, Bit(b.heap))

Doubled(cap, need) == IF cap >= need THEN cap ELSE Doubled(2 * cap, need)

\* The first time the inline octets are copied into a new block, later the
\* block is reallocated.
buf_reserve(h, b, additional) ==
    LET need == Len(b.octets) + additional
        cap  == Doubled(IF b.cap > 0 THEN b.cap ELSE SboSize, need)
        g    == IF ~b.heap /\ b.cap > 0 THEN otlp_malloc(h) ELSE otlp_realloc(h, b.heap)
    IN  IF need <= b.cap THEN Result(h, "OK", b)
        ELSE IF CanAlloc(h) THEN Result(g, "OK", [b EXCEPT !.cap = cap, !.heap = TRUE])
        ELSE Result(g, "NOMEM", b)

buf_append(h, b, s) ==
    IF s = <<>> THEN Result(h, "OK", b)
    ELSE AndThen(buf_reserve(h, b, Len(s)), LAMBDA g, c :
            Result(g, "OK", [c EXCEPT !.octets = @ \o s]))

otlp_pb_tag(h, b, num, wt) == buf_append(h, b, Varint(8 * num + wt))

\* The length stays written when the octets do not fit.
otlp_pb_bytes(h, b, s) ==
    AndThen(buf_append(h, b, Varint(Len(s))), LAMBDA g, c : buf_append(g, c, s))

otlp_pb_field_message(h, b, num, s) ==
    IF s = <<>> THEN Result(h, "OK", b)
    ELSE AndThen(otlp_pb_tag(h, b, num, LEN), LAMBDA g, c : otlp_pb_bytes(g, c, s))

---------------------------------------------------------------------------
(* Fields.  The otlp_pb_field_ functions leave out zero and empty values;  *)
(* the encoders that must not, write tag and value themselves.             *)

Field(kind, num, wt, val) == <<[kind |-> kind, num |-> num, wt |-> wt, val |-> val]>>

Scalar(f, wt, octets) == Field("scalar", f.num, wt, octets)
Bytes(f, octets) == Field("bytes", f.num, LEN, octets)

otlp_pb_field_varint(f, v) == IF v = 0 THEN <<>> ELSE Field("scalar", f.num, VARINT, Varint(v))
otlp_pb_field_fixed64(f, v) ==
    IF v = 0 THEN <<>> ELSE Field("scalar", f.num, FIXED64, LittleEndian(v, 8))
otlp_pb_field_string(f, s) ==
    IF OrEmpty(s) = <<>> THEN <<>> ELSE Field("bytes", f.num, LEN, s)
otlp_pb_field_bytes(f, s) == IF s = <<>> THEN <<>> ELSE Field("bytes", f.num, LEN, s)

\* A sub-message: encoded into a buffer of its own, then embedded unless it
\* is empty.
Message(f, fields) == Field("message", f.num, LEN, fields)

\* A value whose tag, taken from the table, is written before it is encoded,
\* and which is written even when it is empty.
Variant(kind, f, val) == Field(kind, f.num, f.wt, val)

\* Numbers of a packed field, without tags, as octets.
Packed(f, numbers) ==
    Message(f, [i \in DOMAIN numbers |-> [kind |-> "raw", num |-> 0, wt |-> LEN,
                                          val |-> numbers[i]]])

\* otlp_encode_key_value: the value is encoded first, then the key written.
KeyValue(keyField, valueField, key, value) ==
    <<[kind |-> "keyvalue", num |-> keyField.num, wt |-> LEN, key |-> OrEmpty(key),
       valueNum |-> valueField.num, val |-> value]>>

RECURSIVE EmitOne(_, _, _)

\* Fields are emitted until one fails.
Emit(h, b, fields) ==
    FoldLeft(LAMBDA r, f : AndThen(r, LAMBDA g, c : EmitOne(g, c, f)),
             Result(h, "OK", b), fields)

\* Octets encoded into a sub-buffer are put into the parent b; the sub-buffer
\* is freed whether or not they got there.
Embed(sub, b, Put(_, _)) ==
    LET r == IF sub.st = "OK" THEN Put(sub.h, sub.o.octets) ELSE Result(sub.h, sub.st, b)
    IN  [r EXCEPT !.h = otlp_pb_buf_free(@, sub.o)]

EmitOne(h, b, f) ==
    CASE f.kind = "raw" -> buf_append(h, b, f.val)
      [] f.kind = "scalar" ->
            AndThen(otlp_pb_tag(h, b, f.num, f.wt), LAMBDA g, c : buf_append(g, c, f.val))
      [] f.kind = "bytes" ->
            AndThen(otlp_pb_tag(h, b, f.num, f.wt), LAMBDA g, c : otlp_pb_bytes(g, c, f.val))
      [] f.kind = "message" ->
            Embed(Emit(h, NewBuf, f.val), b, LAMBDA g, s : otlp_pb_field_message(g, b, f.num, s))
      [] f.kind = "nested" ->
            AndThen(otlp_pb_tag(h, b, f.num, f.wt), LAMBDA g, c :
                Embed(Emit(g, NewBuf, f.val), c, LAMBDA k, s : otlp_pb_bytes(k, c, s)))
      [] f.kind = "keyvalue" ->
            Embed(Emit(h, NewBuf, f.val), b, LAMBDA g, s :
                AndThen(AndThen(otlp_pb_tag(g, b, f.num, LEN),
                                LAMBDA k, c : otlp_pb_bytes(k, c, f.key)),
                        LAMBDA k, c : otlp_pb_field_message(k, c, f.valueNum, s)))

---------------------------------------------------------------------------
(* The reader: octets and a position, the number of octets consumed. *)

Failed(pos) == [ok |-> FALSE, pos |-> pos, val |-> 0]
Got(pos, val) == [ok |-> TRUE, pos |-> pos, val |-> val]
AndRead(r, F(_, _)) == IF r.ok THEN F(r.pos, r.val) ELSE r

\* Numbers that this model does not represent.
Huge == 2^30

\* What the groups at pos+1..last stand for.
Value(buf, pos, last) ==
    LET d(i) == IF pos + i <= last THEN buf[pos + i] % 128 ELSE 0
        low  == d(1) + 128 * d(2) + 128^2 * d(3) + 128^3 * d(4)
    IN  IF \A i \in 5..10 : d(i) = 0 THEN low
        ELSE IF (\A i \in 5..9 : d(i) = 127) /\ d(10) = 1 THEN low - 2^28
        ELSE Huge

\* The key that the groups at pos+1..last stand for.  The field number is cut
\* to 32 bits, and is here the signed number with these bits.
Key(buf, pos, last) ==
    LET d(i) == IF pos + i <= last THEN buf[pos + i] % 128 ELSE 0
        low  == d(1) + 128 * d(2) + 128^2 * d(3) + 128^3 * d(4)
        high == IF d(5) < 64 THEN d(5) ELSE d(5) - 128
    IN  [num |-> low \div 8 + 2^25 * high, wt |-> d(1) % 8]

\* At most ten octets up to one without bit 7.  The position moves past what
\* was looked at even on failure.
ReadGroups(buf, pos) ==
    LET ends == {i \in 1..10 : pos + i <= Len(buf) /\ buf[pos + i] < 128}
        n    == CHOOSE i \in ends : \A j \in ends : i <= j
    IN  IF ends = {} THEN Failed(Lesser(pos + 10, Len(buf)))
        ELSE Got(pos + n, n)

otlp_pb_read_varint(buf, pos) ==
    AndRead(ReadGroups(buf, pos), LAMBDA p, n : Got(p, Value(buf, pos, p)))

\* Field number 0, or one that is 0 once it is cut, is refused.
otlp_pb_read_key(buf, pos) ==
    AndRead(ReadGroups(buf, pos), LAMBDA p, n :
        LET key == Key(buf, pos, p) IN
        IF key.num = 0 THEN Failed(p) ELSE Got(p, key))

otlp_pb_read_len(buf, pos) ==
    AndRead(otlp_pb_read_varint(buf, pos), LAMBDA p, n :
        IF n < 0 \/ n > Len(buf) - p THEN Failed(p)
        ELSE Got(p + n, SubSeq(buf, p + 1, p + n)))

otlp_pb_read_fixed(buf, pos, n) ==
    IF Len(buf) - pos < n THEN Failed(pos) ELSE Got(pos + n, SubSeq(buf, pos + 1, pos + n))

\* otlp_pb_skip, returning what it skips.
otlp_pb_skip(buf, pos, wt) ==
    CASE wt = VARINT  -> otlp_pb_read_varint(buf, pos)
      [] wt = FIXED64 -> otlp_pb_read_fixed(buf, pos, 8)
      [] wt = LEN     -> otlp_pb_read_len(buf, pos)
      [] wt = FIXED32 -> otlp_pb_read_fixed(buf, pos, 4)
      [] OTHER        -> Failed(pos)

RECURSIVE WalkFrom(_, _)

\* A field with its value, and the fields behind it.
Fields(buf, key, v) ==
    LET rest == WalkFrom(buf, v.pos) IN
    IF ~v.ok THEN [ok |-> FALSE, fields |-> <<>>]
    ELSE [rest EXCEPT !.fields = <<[num |-> key.num, wt |-> key.wt, val |-> v.val]>> \o @]

\* The field with this key.
FieldOf(buf, key) ==
    IF ~key.ok THEN [ok |-> key.pos >= Len(buf), fields |-> <<>>]
    ELSE Fields(buf, key.val, otlp_pb_skip(buf, key.pos, key.val.wt))

\* The walk of a reader over a message, as decode_partial_success does it:
\* the fields in order, and whether it came to an end without an error.  A
\* key that cannot be read ends the walk; it counts as the end of the message
\* if nothing is left behind it.
WalkFrom(buf, pos) == FieldOf(buf, otlp_pb_read_key(buf, pos))

Walk(buf) == WalkFrom(buf, 0)
=============================================================================
