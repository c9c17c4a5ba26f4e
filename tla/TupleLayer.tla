----------------------------- MODULE TupleLayer -----------------------------
(***************************************************************************)
(* The tuple layer (foundationdb-tuple): packing of elements into bytes    *)
(* whose order is the order of the elements, and back; and the offset of   *)
(* an incomplete versionstamp, which the database fills in at commit.      *)
(*                                                                         *)
(* A byte is a digit of base Base, 256 in the code; an integer type is     *)
(* named by its width in digits, so a small base brings every boundary     *)
(* within TLC's integers.  Floats are given by their bits.                 *)
(***************************************************************************)
EXTENDS Integers, Sequences, FiniteSets, SequencesExt

CONSTANTS
    Base,           \* values of a byte
    MAX_SZ,         \* digits of an integer whose length is in its code
    FloatSize,      \* digits of f32 (f64 differs in its code and its width)
    StampSize       \* digits of a transaction version; one more for the user's

ASSUME BaseAssumption == Base \in Nat /\ Base % 2 = 0 /\ Base > 52
ASSUME SizesAssumption == {MAX_SZ, FloatSize, StampSize} \subseteq Nat \ {0}

\* lib.rs: the type codes.
NIL == 0
BYTES == 1
STRING_CODE == 2
NESTED == 5
NEGINTSTART == 11
INTZERO == 20
POSINTEND == 29
FLOAT == 32
FALSE_CODE == 38
TRUE_CODE == 39
VERSIONSTAMP == 51
ESCAPE == Base - 1

-----------------------------------------------------------------------------
(* Values: Element, with the width of a native integer.                    *)

Nil == [type |-> "Nil"]
Bytes(v) == [type |-> "Bytes", v |-> v]
String(v) == [type |-> "String", v |-> v]
Tuple(v) == [type |-> "Tuple", items |-> v]
Number(i) == [type |-> "Int", n |-> i]
Float(bits) == [type |-> "Float", n |-> bits]
Bool(b) == [type |-> "Bool", b |-> b]
Stamp(v) == [type |-> "Versionstamp", v |-> v]

Unset == [i \in 1 .. StampSize |-> Base - 1]
\* Versionstamp::is_complete.
is_complete(v) == SubSeq(v, 1, StampSize) # Unset

-----------------------------------------------------------------------------
(* VersionstampOffset: bytes so far, or where the one incomplete stamp is. *)

NoIncomplete(size) == [kind |-> "None", n |-> size]
OneIncomplete(offset) == [kind |-> "One", n |-> offset]
MultipleIncomplete == [kind |-> "Multiple", n |-> 0]

\* AddAssign: b is packed after a.
Plus(a, b) ==
    CASE a.kind = "None" /\ b.kind # "Multiple" -> [kind |-> b.kind, n |-> a.n + b.n]
      [] a.kind = "One" /\ b.kind = "None" -> a
      [] OTHER -> MultipleIncomplete

\* What a pack wrote and what it returned.
Packed(bytes, offset) == [bytes |-> bytes, offset |-> offset]
Nothing == Packed(<<>>, NoIncomplete(0))
Then(p, q) == Packed(p.bytes \o q.bytes, Plus(p.offset, q.offset))
Byte(b) == Packed(<<b>>, NoIncomplete(1))

-----------------------------------------------------------------------------
(* Integers.                                                               *)

Power(n) == Base ^ n
\* The n lowest digits of i in two's complement, the greatest first.
Digits(i, n) == [k \in 1 .. n |-> (i % Power(n - k + 1)) \div Power(n - k)]
Value(digits) == FoldLeft(LAMBDA acc, d : acc * Base + d, 0, digits)
Abs(i) == IF i < 0 THEN -i ELSE i
\* SZ less the leading zero bytes; the length of to_bytes_be.
Size(u) == CHOOSE n \in 0 .. 4 : u < Power(n) /\ (n = 0 \/ u >= Power(n - 1))

\* impl_ux, impl_ix and BigInt: the length in the code, or after it, and a
\* negative number one less, so that its digits are those of its complement.
PackInt(i) ==
    LET n == Size(Abs(i))
        code == IF n <= MAX_SZ THEN <<IF i >= 0 THEN INTZERO + n ELSE INTZERO - n>>
                ELSE IF i >= 0 THEN <<POSINTEND, n>> ELSE <<NEGINTSTART, Base - 1 - n>>
    IN Packed(code \o Digits(IF i >= 0 THEN i ELSE i - 1, n),
              NoIncomplete(n + 1 + IF n <= MAX_SZ THEN 0 ELSE 1))

\* The result of an unpack: what is left of the input and the value, or an error.
Ok(rest, v) == [rest |-> rest, v |-> v]
Err(error) == [error |-> error]
Failed(r) == "error" \in DOMAIN r
\* The ? of the code: go on with what was read, unless it failed.
And(r, Go(_, _)) == IF Failed(r) THEN r ELSE Go(r.rest, r.v)

parse_bytes(input, n) ==
    IF Len(input) < n THEN Err("MissingBytes")
    ELSE Ok(SubSeq(input, n + 1, Len(input)), SubSeq(input, 1, n))
parse_byte(input) == And(parse_bytes(input, 1), LAMBDA rest, v : Ok(rest, v[1]))
parse_code(input, code) ==
    And(parse_byte(input), LAMBDA rest, found :
        IF found = code THEN Ok(rest, code) ELSE Err("BadCode"))

\* unpack_px and unpack_nx: x was read from n digits into a signed type of sz; a
\* BigInt has no width (sz = 0).
Fit(rest, x, n, sz, negative) ==
    LET half == Power(sz) \div 2
        wrapped == IF x < -half THEN x + 2 * half ELSE x
    IN IF sz > 0 /\ (IF negative THEN n = sz /\ wrapped > 0 ELSE x >= half)
       THEN Err("UnsupportedIntLength")
       ELSE Ok(rest, x)
Signed(input, n, sz, negative) ==
    IF sz > 0 /\ n > sz THEN Err("UnsupportedIntLength")
    ELSE And(parse_bytes(input, n), LAMBDA rest, digits :
             Fit(rest, IF negative THEN Value(digits) - Power(n) + 1 ELSE Value(digits),
                 n, sz, negative))

Lengths(sz) == IF sz = 0 \/ sz > MAX_SZ THEN MAX_SZ ELSE sz
\* The unpack of impl_ix and BigInt: n digits, or a length that says how many.
UnpackInt(input, sz) ==
    And(parse_byte(input), LAMBDA rest, found :
        CASE Abs(found - INTZERO) <= Lengths(sz) ->
                Signed(rest, Abs(found - INTZERO), sz, found < INTZERO)
          [] found = POSINTEND ->
                And(parse_byte(rest), LAMBDA last, n : Signed(last, n, sz, FALSE))
          [] found = NEGINTSTART ->
                And(parse_byte(rest), LAMBDA last, n : Signed(last, Base - 1 - n, sz, TRUE))
          [] OTHER -> Err("BadCode"))

\* The unpack of impl_ux and BigUint.
Unsigned(input, n, sz) ==
    IF sz > 0 /\ n > sz THEN Err("UnsupportedIntLength")
    ELSE And(parse_bytes(input, n), LAMBDA rest, digits : Ok(rest, Value(digits)))
UnpackUnsigned(input, sz) ==
    And(parse_byte(input), LAMBDA rest, found :
        CASE found \in INTZERO .. INTZERO + Lengths(sz) -> Unsigned(rest, found - INTZERO, sz)
          [] found = POSINTEND -> And(parse_byte(rest), LAMBDA last, n : Unsigned(last, n, sz))
          [] OTHER -> Err("BadCode"))

-----------------------------------------------------------------------------
(* Floats, booleans, stamps, byte strings.                                 *)

\* impl_fx: the bits of a negative number are inverted, the sign of another.
Sign == Power(FloatSize) \div 2
FloatBits(bits) == IF bits >= Sign THEN Power(FloatSize) - 1 - bits ELSE bits + Sign
PackFloat(bits) ==
    Packed(<<FLOAT>> \o Digits(FloatBits(bits), FloatSize), NoIncomplete(FloatSize + 1))
FloatOf(u) == IF u < Sign THEN Power(FloatSize) - 1 - u ELSE u - Sign
UnpackFloat(input) ==
    And(parse_code(input, FLOAT), LAMBDA rest, code :
        And(parse_bytes(rest, FloatSize), LAMBDA last, digits : Ok(last, FloatOf(Value(digits)))))

UnpackBool(input) ==
    And(parse_byte(input), LAMBDA rest, found :
        IF found \in {TRUE_CODE, FALSE_CODE} THEN Ok(rest, found = TRUE_CODE) ELSE Err("Message"))

PackStamp(v) ==
    Packed(<<VERSIONSTAMP>> \o v,
           IF is_complete(v) THEN NoIncomplete(1 + StampSize + 1) ELSE OneIncomplete(1))
UnpackStamp(input) ==
    And(parse_code(input, VERSIONSTAMP), LAMBDA rest, code : parse_bytes(rest, StampSize + 1))

\* write_bytes: every NIL is followed by ESCAPE, and the end is a NIL.
write_bytes(code, v) ==
    LET escaped == FlattenSeq([i \in 1 .. Len(v) |->
                                 IF v[i] = NIL THEN <<NIL, ESCAPE>> ELSE <<v[i]>>])
        nils == Cardinality({i \in 1 .. Len(v) : v[i] = NIL})
    IN Packed(<<code>> \o escaped \o <<NIL>>, NoIncomplete(Len(v) + nils + 2))

\* parse_slice: up to the first NIL that is not escaped.
parse_slice(input) ==
    LET Escaped(i) == i < Len(input) /\ input[i + 1] = ESCAPE
        ends == {i \in 1 .. Len(input) : input[i] = NIL /\ ~Escaped(i)}
        end == CHOOSE i \in ends : \A j \in ends : i <= j
        kept == SelectSeq([i \in 1 .. end - 1 |-> i],
                          LAMBDA i : ~(i > 1 /\ input[i] = ESCAPE /\ input[i - 1] = NIL))
    IN IF ends = {} THEN Err("MissingBytes")
       ELSE Ok(SubSeq(input, end + 1, Len(input)), [k \in 1 .. Len(kept) |-> input[kept[k]]])
UnpackBytes(input, code) ==
    And(parse_code(input, code), LAMBDA rest, found : parse_slice(rest))

-----------------------------------------------------------------------------
(* Elements and tuples.                                                    *)

PackNil_Short(depth) == Byte(NIL)
\* Option::None: a NIL inside a nested tuple is not its end.
PackNil(depth) == IF depth > 1 THEN Packed(<<NIL, ESCAPE>>, NoIncomplete(2)) ELSE Byte(NIL)

RECURSIVE Pack(_, _)
PackAll(v, depth) == FoldLeft(LAMBDA p, e : Then(p, Pack(e, depth + 1)), Nothing, v)
\* Element, and the types it stands for: their pack at a depth.
Pack(e, depth) ==
    CASE e.type = "Nil" -> PackNil(depth)
      [] e.type = "Bool" -> Byte(IF e.b THEN TRUE_CODE ELSE FALSE_CODE)
      [] e.type = "Int" -> PackInt(e.n)
      [] e.type = "Float" -> PackFloat(e.n)
      [] e.type = "String" -> write_bytes(STRING_CODE, e.v)
      [] e.type = "Bytes" -> write_bytes(BYTES, e.v)
      [] e.type = "Versionstamp" -> PackStamp(e.v)
      [] e.type = "Tuple" ->
            IF depth > 0 THEN Then(Then(Byte(NESTED), PackAll(e.items, depth)), Byte(NIL))
            ELSE PackAll(e.items, depth)

is_end_of_tuple(input, nested) ==
    \/ input = <<>>
    \/ nested /\ Head(input) = NIL /\ (Len(input) = 1 \/ input[2] # ESCAPE)

UnpackNil(input, depth) ==
    And(parse_code(input, NIL), LAMBDA rest, nil :
        IF depth > 1 THEN parse_code(rest, ESCAPE) ELSE Ok(rest, nil))

As(Type(_), r) == And(r, LAMBDA rest, v : Ok(rest, Type(v)))

\* What a type reads at a depth: Element, or Vec<T>, a tuple of types, Option<T>
\* and the types of elements.
RECURSIVE Unpack(_, _, _)
RECURSIVE UnpackMany(_, _, _, _)
\* Vec: elements to the end of the tuple.
UnpackMany(type, input, depth, read) ==
    IF is_end_of_tuple(input, depth > 0) THEN Ok(input, read)
    ELSE And(Unpack(type, input, depth + 1), LAMBDA rest, v :
             UnpackMany(type, rest, depth, Append(read, v)))

\* A nested tuple is opened and closed.
Opened(input, depth) == IF depth > 0 THEN parse_code(input, NESTED) ELSE Ok(input, NESTED)
Closed(input, depth) == IF depth > 0 THEN parse_code(input, NIL) ELSE Ok(input, NIL)
Nested(input, depth, inner(_)) ==
    And(Opened(input, depth), LAMBDA rest, opened :
        And(inner(rest), LAMBDA last, v :
            And(Closed(last, depth), LAMBDA after, closed : Ok(after, Tuple(v)))))

AnElement == [name |-> "Element"]
\* An i64, or what does not fit one.
UnpackNumber(i64, input) ==
    IF Failed(i64) /\ i64.error = "UnsupportedIntLength" THEN UnpackInt(input, 0) ELSE i64
\* Element::unpack by its first byte.
UnpackOne(input, first, depth) ==
    CASE first = NIL -> As(LAMBDA v : Nil, UnpackNil(input, depth))
      [] first = BYTES -> As(Bytes, UnpackBytes(input, BYTES))
      [] first = STRING_CODE -> As(String, UnpackBytes(input, STRING_CODE))
      [] first = NESTED -> Unpack([name |-> "Vec", of |-> AnElement], input, depth)
      [] Abs(first - INTZERO) <= MAX_SZ ->
            As(Number, UnpackNumber(UnpackInt(input, MAX_SZ), input))
      [] first \in {NEGINTSTART, POSINTEND} -> As(Number, UnpackInt(input, 0))
      [] first = FLOAT -> As(Float, UnpackFloat(input))
      [] first \in {TRUE_CODE, FALSE_CODE} -> As(Bool, UnpackBool(input))
      [] first = VERSIONSTAMP -> As(Stamp, UnpackStamp(input))
      [] OTHER -> Err("BadCode")

\* Element::unpack at the root reads all there is, and is a tuple unless that is
\* one element.
UnpackElement(input, depth) ==
    IF input = <<>> THEN (IF depth = 0 THEN Ok(input, Tuple(<<>>)) ELSE Err("MissingBytes"))
    ELSE And(UnpackOne(input, Head(input), depth), LAMBDA rest, one :
             IF depth > 0 \/ rest = <<>> THEN Ok(rest, one)
             ELSE As(Tuple, UnpackMany(AnElement, rest, 0, <<one>>)))

Unpack(type, input, depth) ==
    CASE type.name = "Element" -> UnpackElement(input, depth)
      [] type.name = "Int" -> As(Number, UnpackInt(input, type.size))
      [] type.name = "Unsigned" -> As(Number, UnpackUnsigned(input, type.size))
      [] type.name = "Float" -> As(Float, UnpackFloat(input))
      [] type.name = "Bool" -> As(Bool, UnpackBool(input))
      [] type.name = "Bytes" -> As(Bytes, UnpackBytes(input, BYTES))
      [] type.name = "String" -> As(String, UnpackBytes(input, STRING_CODE))
      [] type.name = "Versionstamp" -> As(Stamp, UnpackStamp(input))
      [] type.name = "Option" ->
            IF input # <<>> /\ Head(input) = NIL
            THEN As(LAMBDA v : Nil, UnpackNil(input, depth))
            ELSE Unpack(type.of, input, depth)
      [] type.name = "Vec" ->
            Nested(input, depth, LAMBDA rest : UnpackMany(type.of, rest, depth, <<>>))
      [] type.name = "Tuple" ->
            Nested(input, depth, LAMBDA rest :
                FoldLeft(LAMBDA r, t :
                            And(r, LAMBDA left, read :
                                And(Unpack(t, left, depth + 1), LAMBDA last, v :
                                    Ok(last, Append(read, v)))),
                         Ok(rest, <<>>), type.of))

-----------------------------------------------------------------------------
(* The order of elements, and of bytes.                                    *)

OrElse(c, d) == IF c # 0 THEN c ELSE d
Lexicographic(a, b, Cmp(_, _)) ==
    LET common == IF Len(a) < Len(b) THEN Len(a) ELSE Len(b)
    IN OrElse(FoldLeft(LAMBDA c, i : OrElse(c, Cmp(a[i], b[i])), 0, [i \in 1 .. common |-> i]),
              Len(a) - Len(b))
CmpBytes(a, b) == Lexicographic(a, b, LAMBDA x, y : x - y)

\* Element::code.
Code(e) ==
    CASE e.type = "Nil" -> NIL [] e.type = "Bytes" -> BYTES [] e.type = "String" -> STRING_CODE
      [] e.type = "Tuple" -> NESTED [] e.type = "Int" -> INTZERO [] e.type = "Float" -> FLOAT
      [] e.type = "Bool" -> (IF e.b THEN TRUE_CODE ELSE FALSE_CODE)
      [] e.type = "Versionstamp" -> VERSIONSTAMP

\* CmpElement: by code, then by value.
RECURSIVE CmpElement(_, _)
CmpElement(a, b) ==
    CASE Code(a) # Code(b) -> Code(a) - Code(b)
      [] Code(a) = Code(b) /\ a.type \in {"Nil", "Bool"} -> 0
      [] Code(a) = Code(b) /\ a.type = "Int" -> a.n - b.n
      [] Code(a) = Code(b) /\ a.type = "Float" -> FloatBits(a.n) - FloatBits(b.n)
      [] Code(a) = Code(b) /\ a.type = "Tuple" -> Lexicographic(a.items, b.items, CmpElement)
      [] OTHER -> CmpBytes(a.v, b.v)

\* cmp_at_root: an element is the tuple of itself.
cmp_values(e) == IF e.type = "Tuple" THEN e.items ELSE <<e>>
CmpAtRoot(a, b) == Lexicographic(cmp_values(a), cmp_values(b), CmpElement)

\* unpack_root.
UnpackRoot(type, input) ==
    And(Unpack(type, input, 0), LAMBDA rest, v :
        IF rest = <<>> THEN Ok(rest, v) ELSE Err("TrailingBytes"))
=============================================================================
