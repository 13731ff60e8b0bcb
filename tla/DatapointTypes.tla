--------------------------- MODULE DatapointTypes ---------------------------
(***************************************************************************)
(* Values and how they lie in a group object's data: KNXValue              *)
(* (knx_value.cpp), Dpt (dpt.cpp) and the encoders and decoders of         *)
(* dptconvert.cpp.                                                         *)
(*                                                                         *)
(* A payload is the set of its bits that are 1, numbered from the top of   *)
(* the first byte; a datapoint type has fields, told apart by an index,    *)
(* each a run of bits.  A number is written [hi, lo] = hi * 2^16 + lo; a   *)
(* long has 40 bits.  A double is a number of hundredths and its           *)
(* arithmetic exact.  4-byte floats, 8-byte integers, and numbers made     *)
(* from strings are left out.                                              *)
(***************************************************************************)
EXTENDS Integers, Sequences, FiniteSetsExt

-----------------------------------------------------------------------------
(* Numbers *)

Wide(n) == [hi |-> n \div 65536, lo |-> n % 65536]

Leq(m, n) == m.hi < n.hi \/ (m.hi = n.hi /\ m.lo <= n.lo)

\* Only for numbers of less than 31 bits
Plain(n) == n.hi * 65536 + n.lo

Low32(n) == [hi |-> n.hi % 65536, lo |-> n.lo]

RoundDiv(n, d) == IF n >= 0 THEN (2 * n + d) \div (2 * d) ELSE -((d - 2 * n) \div (2 * d))
Truncate(n, d) == IF n >= 0 THEN n \div d ELSE -((-n) \div d)

Bit(n, k) == IF k < 16 THEN (n.lo \div 2^k) % 2 ELSE (n.hi \div 2^(k - 16)) % 2

\* bitToPayload, unsigned8ToPayload ... unsigned32ToPayload, bcdToPayload under their masks
Span(first, width) == [first |-> first, width |-> width]

Positions(span) == span.first .. span.first + span.width - 1

Put(data, span, n) ==
    (data \ Positions(span))
    \cup {i \in Positions(span) : Bit(n, span.first + span.width - 1 - i) = 1}

Get(data, span) ==
    LET weight(i) == span.first + span.width - 1 - i
        ones      == data \cap Positions(span)
    IN  [hi |-> MapThenSumSet(LAMBDA i : 2^(weight(i) - 16), {i \in ones : weight(i) >= 16}),
         lo |-> MapThenSumSet(LAMBDA i : 2^weight(i), {i \in ones : weight(i) < 16})]

Signed(n, width) ==
    CASE width = 16 /\ n.lo >= 32768 -> [hi |-> -1, lo |-> n.lo]
      [] width = 32 /\ n.hi >= 32768 -> [hi |-> n.hi - 65536, lo |-> n.lo]
      [] OTHER -> n

-----------------------------------------------------------------------------
(* KNXValue *)

Long(n)   == [type |-> "long", n |-> n]
ULong(n)  == [type |-> "ulong", n |-> n]
UInt(n)   == [type |-> "uint", n |-> n]
Double(c) == [type |-> "double", cents |-> c]
Text(s)   == [type |-> "string", chars |-> s]
Time(t)   == [type |-> "time", tm |-> t]

LongModulus == 2^24    \* of the upper part of a long

\* ulongValue.  A negative double has no unsigned value: Saturated says what the target makes of it.
AsULong(v, Saturated) ==
    CASE v.type = "double" ->
            IF v.cents <= -100 /\ Saturated THEN Wide(0)
            ELSE LET n == Wide(Truncate(v.cents, 100)) IN [n EXCEPT !.hi = @ % LongModulus]
      [] OTHER -> [v.n EXCEPT !.hi = @ % LongModulus]

\* longValue: of a ULongType only the lower half is looked at.
AsLong(v) ==
    CASE v.type = "double" -> Wide(Truncate(v.cents, 100))
      [] v.type = "ulong"  -> Low32(v.n)
      [] OTHER -> v.n

\* doubleValue, in hundredths; what is far out of every range is cut.
AsCents(v) ==
    IF v.type = "double" THEN v.cents
    ELSE LET n == AsLong(v) IN
         IF n.hi > 200 THEN 2000000000 ELSE IF n.hi < -200 THEN -2000000000 ELSE 100 * Plain(n)

\* boolValue
AsBool(v) == IF v.type = "double" THEN v.cents # 0 ELSE AsLong(v) # Wide(0)

\* uintValue
AsUInt(v) == IF v.type = "ulong" THEN Low32(v.n) ELSE Low32(AsLong(v))

\* timeValue and back with mktime: the seconds
AsSeconds(v, Saturated) ==
    LET n == AsULong(v, Saturated)
    IN  IF n.hi >= LongModulus \div 2 THEN [n EXCEPT !.hi = @ - LongModulus] ELSE n

-----------------------------------------------------------------------------
(* The fields.  full: what 255 stands for; low and high: the range the encoder accepts;  *)
(* needs: the bytes it asks for, more than those it writes to.                           *)

Field(dpt, index, kind, span) ==
    [dpt |-> dpt, index |-> index, kind |-> kind, read |-> span, write |-> span,
     low |-> Wide(0), high |-> Wide(0), full |-> 0, needs |-> 0]

Flag(dpt, index, at, needs) == [Field(dpt, index, "flag", Span(at, 1)) EXCEPT !.needs = needs]

Number(dpt, index, span, low, high, needs) ==
    [Field(dpt, index, "number", span) EXCEPT !.low = low, !.high = high, !.needs = needs]

Small(dpt, index, span, high, needs) == Number(dpt, index, span, Wide(0), Wide(high), needs)

Unsigned(dpt, index, span, high) == [Small(dpt, index, span, high, 0) EXCEPT !.kind = "character"]

Period(dpt, low, high) == [Number(dpt, 0, Span(0, 16), Wide(low), Wide(high), 0) EXCEPT !.kind = "period"]

Scaled(dpt, kind, at, index, full, needs) ==
    [Field(dpt, index, kind, Span(at, 8)) EXCEPT !.full = full, !.needs = needs]

Float(dpt, low) == [Field(dpt, 0, "float16", Span(0, 16)) EXCEPT !.low = Wide(low)]

Min32 == [hi |-> -32768, lo |-> 0]
Max32 == [hi |-> 32767, lo |-> 65535]
All32 == [hi |-> 65535, lo |-> 65535]

SwitchFields ==
    {Flag("1.001", 0, 7, 0), Flag("2.001", 0, 6, 0), Flag("2.001", 1, 7, 0),
     Flag("3.007", 0, 4, 0), Small("3.007", 1, Span(5, 3), 7, 0)}

ByteFields ==
    {Unsigned("4.001", 0, Span(0, 8), 127), Unsigned("4.002", 0, Span(0, 8), 255),
     Scaled("5.001", "scaled", 0, 0, 100, 0), Scaled("5.003", "scaled", 0, 0, 360, 0),
     Small("5.006", 0, Span(0, 8), 254, 0), Small("5.010", 0, Span(0, 8), 255, 0)}

CounterFields ==
    {Number("6.001", 0, Span(0, 8), Wide(-128), Wide(127), 0),
     Flag("6.020", 0, 0, 0), Flag("6.020", 4, 4, 0), Small("6.020", 5, Span(5, 3), 7, 0),
     Small("7.001", 0, Span(0, 16), 65535, 0), Period("7.002", 0, 65535),
     Number("8.001", 0, Span(0, 16), Wide(-32768), Wide(32767), 0), Period("8.002", -32768, 32767),
     Field("8.010", 0, "hundredths", Span(0, 16))}

FloatFields ==
    {Float("9.001", -27300), Float("9.002", -67076000), Float("9.004", 0), Float("9.009", -67108864),
     Float("9.027", -45960)}

TimeFields ==
    {Small("10.001", 0, Span(0, 3), 7, 3), Field("10.001", 1, "clock", Span(0, 24)),
     Field("11.001", 0, "date", Span(0, 24))}

WideFields ==
    {Number("12.001", 0, Span(0, 32), Wide(0), All32, 0), Number("27.001", 0, Span(0, 32), Wide(0), All32, 0),
     Number("13.001", 0, Span(0, 32), Min32, Max32, 0)}

AccessFields ==
    {[Field("15.000", 0, "digits", Span(0, 24)) EXCEPT !.high = Wide(999999), !.needs = 4],
     Flag("15.000", 1, 24, 0), Flag("15.000", 4, 27, 0), Unsigned("15.000", 5, Span(28, 4), 15),
     Field("16.000", 0, "text", Span(0, 112)), Field("16.001", 0, "text", Span(0, 112))}

SceneFields ==
    {[Small("17.001", 0, Span(2, 6), 63, 0) EXCEPT !.write = Span(0, 8)],
     Flag("18.001", 0, 0, 0), Small("18.001", 1, Span(2, 6), 63, 0),
     Flag("26.001", 0, 1, 0), Small("26.001", 1, Span(2, 6), 63, 0),
     Small("238.001", 0, Span(2, 6), 63, 0), Flag("238.001", 1, 1, 0), Flag("238.001", 2, 0, 0)}

MomentFields ==
    {Field("19.001", 0, "moment", Span(0, 48)), Field("19.001", 1, "weekday", Span(24, 3)),
     [Flag("19.001", 2, 49, 8) EXCEPT !.kind = "workday"], Flag("19.001", 3, 48, 8),
     Flag("19.001", 9, 55, 8), Flag("19.001", 10, 56, 0)}

AlarmFields ==
    {Small("219.001", 0, Span(0, 8), 255, 6), Small("219.001", 1, Span(8, 8), 3, 6),
     Small("219.001", 2, Span(16, 8), 255, 6), Small("219.001", 3, Span(24, 8), 255, 6),
     Flag("219.001", 4, 39, 6), Flag("219.001", 7, 36, 6), Flag("219.001", 8, 47, 6),
     Flag("219.001", 10, 45, 6),
     Small("221.001", 0, Span(0, 16), 65535, 6),
     [Number("221.001", 1, Span(16, 32), Wide(0), All32, 6) EXCEPT !.write = Span(32, 16)]}

VersionFields ==
    {Small("217.001", 0, Span(0, 5), 31, 2), Small("217.001", 1, Span(5, 5), 31, 0),
     Small("217.001", 2, Span(10, 6), 63, 0),
     [Small("225.001", 0, Span(0, 16), 65535, 3) EXCEPT !.kind = "duration"],
     Scaled("225.001", "percent", 16, 1, 100, 0),
     [Small("225.003", 0, Span(0, 16), 65535, 3) EXCEPT !.kind = "duration"],
     Small("225.003", 1, Span(16, 8), 254, 0)}

ColourFields ==
    {Number("232.600", 0, Span(0, 24), Wide(0), [hi |-> 255, lo |-> 65535], 0),
     Field("251.600", 0, "colour", Span(0, 32)),
     [Field("251.600", 1, "mask", Span(40, 8)) EXCEPT !.write = Span(44, 4)],
     [Field("231.001", 0, "code", Span(0, 16)) EXCEPT !.needs = 4],
     [Field("231.001", 1, "code", Span(16, 16)) EXCEPT !.needs = 4],
     [Field("234.001", 0, "code", Span(0, 16)) EXCEPT !.needs = 2]}

EnergyFields ==
    {Scaled("239.001", "percent", 0, 0, 100, 2), Flag("239.001", 1, 15, 0),
     Number("235.001", 0, Span(0, 32), Min32, Max32, 6), Small("235.001", 1, Span(32, 8), 254, 6),
     Flag("235.001", 2, 46, 0), Flag("235.001", 3, 47, 0)}

\* KNX_Encode_Value: one of each kind of datapoint type, and the enumerations of DPT 20
Fields ==
    UNION {SwitchFields, ByteFields, CounterFields, FloatFields, TimeFields, WideFields, AccessFields,
           SceneFields, MomentFields, AlarmFields, VersionFields, ColourFields, EnergyFields,
           {Field("20.102", 0, "enumeration", Span(0, 8))}}

Dpts == {f.dpt : f \in Fields}

\* Dpt::dataLength, where it is not the size the decoder wants; and that size.
DataLength(dpt) ==
    CASE dpt \in {"221.001", "231.001", "239.001"} -> 1
      [] dpt = "251.600" -> 4
      [] OTHER -> 0

SizeOf(dpt) ==
    CASE dpt \in {"7.001", "7.002", "8.001", "8.002", "8.010", "9.001", "9.002", "9.004", "9.009",
                  "9.027", "217.001", "234.001", "239.001"} -> 2
      [] dpt \in {"10.001", "11.001", "225.001", "225.003", "232.600"} -> 3
      [] dpt \in {"12.001", "13.001", "15.000", "27.001", "231.001"} -> 4
      [] dpt \in {"219.001", "221.001", "235.001", "251.600"} -> 6
      [] dpt = "19.001" -> 8
      [] dpt \in {"16.000", "16.001"} -> 14
      [] OTHER -> 1

LengthOf(dpt) == IF DataLength(dpt) = 0 THEN SizeOf(dpt) ELSE DataLength(dpt)

\* Fields that are read as signed; DPT 6 has a range that is signed but is not read so.
IsSigned(f) ==
    \/ f.kind \in {"number", "period"} /\ f.low.hi < 0 /\ f.dpt # "6.001"
    \/ f.kind = "hundredths" \/ f.dpt = "27.001"

-----------------------------------------------------------------------------
(* Encoding *)

InRange(n, f) == Leq(f.low, n) /\ Leq(n, f.high)

\* What the encoder of a field lets pass
Accepts(f, v, Saturated) ==
    CASE f.kind \in {"flag", "workday", "clock", "weekday", "colour", "mask", "text"} -> TRUE
      [] f.kind \in {"number", "digits"} -> InRange(AsLong(v), f)
      [] f.kind = "character"  -> InRange(AsULong(v, Saturated), f)
      [] f.kind = "period"     -> InRange(AsSeconds(v, Saturated), f)
      [] f.kind = "scaled"     -> Leq(Wide(0), AsLong(v)) /\ AsCents(v) <= 100 * f.full
      [] f.kind = "percent"    -> AsCents(v) \in 0 .. 100 * f.full
      [] f.kind = "hundredths" -> AsCents(v) \in -32768 .. 32767
      [] f.kind = "float16"    -> AsCents(v) \in Plain(f.low) .. 67043328
      [] f.kind = "enumeration" -> AsCents(v) % 100 = 0 /\ AsCents(v) \in 0 .. 25500
      [] f.kind = "duration"   -> Leq(AsUInt(v), Wide(65535))
      [] f.kind = "date"       -> v.tm.year \in 1990 .. 2089
      [] f.kind = "moment"     -> ~(v.tm.year = 70 /\ v.tm.mon = 0 /\ v.tm.mday = 1)
      [] f.kind = "code"       -> Len(v.chars) = 2

\* float16ToPayload: there are 4 bits for the exponent.
\* seeded fault: what rounds up to 2048 stays as it is
ExponentBeforeRounding(c) ==
    CHOOSE e \in 0 .. 15 : c <= 2048 * 2^e /\ \A d \in 0 .. e - 1 : c > 2048 * 2^d

Exponent(c) ==
    LET e == CHOOSE e \in 0 .. 15 : c <= 2048 * 2^e /\ \A d \in 0 .. e - 1 : c > 2048 * 2^d
    IN  IF RoundDiv(c, 2^e) >= 2048 THEN e + 1 ELSE e

Float16(c) ==
    LET abs      == IF c < 0 THEN -c ELSE c
        mantissa == (IF c < 0 THEN -1 ELSE 1) * RoundDiv(abs, 2^Exponent(abs))
    IN  (mantissa % 65536) - (((mantissa % 65536) \div 2048) % 16) * 2048 + (Exponent(abs) % 16) * 2048

Part(span, n) == [span |-> span, n |-> Wide(n)]

Chars(v, n) == [i \in 1 .. n |-> IF i <= Len(v.chars) THEN v.chars[i] ELSE 0]

\* What it writes, and where
Parts(f, v, Saturated) ==
    CASE f.kind \in {"number", "character"} -> {[span |-> f.write, n |-> Low32(AsULong(v, Saturated))]}
      [] f.kind = "period" -> {[span |-> f.write, n |-> Low32(AsSeconds(v, Saturated))]}
      [] f.kind \in {"duration", "colour", "mask"} -> {[span |-> f.write, n |-> AsUInt(v)]}
      [] f.kind = "flag" -> {Part(f.write, IF AsBool(v) THEN 1 ELSE 0)}
      [] f.kind = "workday" -> {Part(f.write, IF AsBool(v) THEN 1 ELSE 0), Part(Span(50, 1), 0)}
      [] f.kind = "weekday" ->
            IF Leq(Wide(0), AsLong(v)) /\ Leq(AsLong(v), Wide(7))
            THEN {Part(Span(53, 1), 0), [span |-> f.write, n |-> AsLong(v)]}
            ELSE {Part(Span(53, 1), 1)}
      [] f.kind \in {"scaled", "percent"} ->
            IF AsCents(v) < 0 /\ Saturated THEN {Part(f.write, 0)}
            ELSE {Part(f.write, RoundDiv(AsCents(v) * 255, 100 * f.full))}
      [] f.kind = "hundredths" -> {Part(f.write, AsCents(v))}
      [] f.kind = "float16" -> {Part(f.write, Float16(AsCents(v)))}
      [] f.kind = "enumeration" -> {Part(f.write, AsCents(v) \div 100)}
      [] f.kind = "digits" ->
            {Part(Span(4 * i, 4), (Plain(AsLong(v)) \div 10^(5 - i)) % 10) : i \in 0 .. 5}
      [] f.kind = "clock" ->
            {Part(Span(3, 5), v.tm.hour), Part(Span(10, 6), v.tm.min), Part(Span(18, 6), v.tm.sec)}
      [] f.kind = "date" ->
            {Part(Span(3, 5), v.tm.mday), Part(Span(12, 4), v.tm.mon), Part(Span(17, 7), v.tm.year % 100)}
      [] f.kind = "moment" ->
            {Part(Span(51, 1), 0), Part(Span(52, 1), 0), Part(Span(54, 1), 0),
             Part(Span(0, 8), v.tm.year - 1900), Part(Span(12, 4), v.tm.mon), Part(Span(19, 5), v.tm.mday),
             Part(Span(27, 5), v.tm.hour), Part(Span(34, 6), v.tm.min), Part(Span(42, 6), v.tm.sec)}
      [] f.kind = "text" -> {Part(Span(8 * i - 8, 8), Chars(v, 14)[i]) : i \in 1 .. 14}
      [] f.kind = "code" -> {Part(Span(f.write.first + 8 * i - 8, 8), v.chars[i]) : i \in 1 .. 2}

\* The low-level writers leave out, without a word, what is beyond the end of the data.
Writable(parts, size) ==
    {p \in parts : (p.span.first + p.span.width - 1) \div 8 < size}

\* KNX_Encode_Value
Encodes(f, v, size, Saturated) ==
    /\ Accepts(f, v, Saturated) /\ size >= f.needs
    /\ f.kind = "moment" => size >= 8
    /\ f.kind = "weekday" => size >= 8
    /\ f.kind = "enumeration" => size = 1

Encoded(f, v, data, size, Saturated) ==
    LET parts   == Writable(Parts(f, v, Saturated), size)
        written == UNION {Positions(p.span) : p \in parts}
    IN  (data \ written) \cup UNION {Put({}, p.span, p.n) : p \in parts}

-----------------------------------------------------------------------------
(* Decoding *)

Plainly(data, first, width) == Plain(Get(data, Span(first, width)))

DecodesTime(f, data) ==
    /\ f.kind = "clock" =>
          Plainly(data, 3, 5) <= 23 /\ Plainly(data, 10, 6) <= 59 /\ Plainly(data, 18, 6) <= 59
    /\ f.kind = "date" =>
          Plainly(data, 17, 7) <= 99 /\ Plainly(data, 12, 4) \in 1 .. 12 /\ Plainly(data, 3, 5) >= 1

\* Bit 48 says that the clock is faulty.
DecodesMoment(f, data) ==
    /\ f.index # 3 => 48 \notin data
    /\ f.kind = "moment" =>
          /\ {51, 52} \cap data = {}
          /\ Plainly(data, 12, 4) \in 1 .. 12 /\ Plainly(data, 19, 5) >= 1
          /\ Plainly(data, 27, 5) <= 24 /\ Plainly(data, 34, 6) <= 59 /\ Plainly(data, 42, 6) <= 59
    /\ f.kind = "weekday" => 53 \notin data
    /\ f.kind = "workday" => 50 \notin data

DecodesDigits(data) == \A i \in 0 .. 5 : Plainly(data, 4 * i, 4) <= 9

DecodesText(f, data) == f.dpt = "16.000" => \A i \in 0 .. 13 : 8 * i \notin data

DecodesAlarm(f, data) == f.index = 1 => Plainly(data, 8, 8) <= 3

DecodesTariff(f, data) == f.index = 1 => Plainly(data, 16, 8) <= 254

\* KNX_Decode_Value: whether a field can be read
Decodes(f, data, size) ==
    /\ size = SizeOf(f.dpt)
    /\ f.dpt = "4.001" => 0 \notin data
    /\ f.dpt = "5.006" => Plainly(data, 0, 8) # 255
    /\ f.kind = "float16" => Plainly(data, 0, 16) # 32767
    /\ f.kind \in {"clock", "date"} => DecodesTime(f, data)
    /\ f.kind = "digits" => DecodesDigits(data)
    /\ f.kind = "text" => DecodesText(f, data)
    /\ f.dpt = "19.001" => DecodesMoment(f, data)
    /\ f.dpt = "219.001" => DecodesAlarm(f, data)
    /\ f.dpt = "225.003" => DecodesTariff(f, data)

\* float16FromPayload
FromFloat16(data) ==
    LET mantissa == Plainly(data, 5, 11)
        scale    == 2^Plainly(data, 1, 4)
    IN  IF 0 \in data THEN -((2047 - mantissa) + 1) * scale ELSE mantissa * scale

DecodedNumber(f, data) ==
    LET n == Get(data, f.read) IN
    CASE f.kind = "scaled"  -> Wide(RoundDiv(Plain(n) * f.full, 255))
      [] f.kind = "percent" -> Wide((Plain(n) * f.full) \div 255)
      [] f.kind = "float16" -> Wide(FromFloat16(data))
      [] f.kind = "digits"  ->
            Wide(MapThenSumSet(LAMBDA i : Plainly(data, 4 * i, 4) * 10^(5 - i), 0 .. 5))
      [] OTHER -> IF IsSigned(f) THEN Signed(n, f.read.width) ELSE n

DecodedChars(f, data) ==
    [i \in 1 .. f.read.width \div 8 |-> Plainly(data, f.read.first + 8 * i - 8, 8)]

Century(year) == IF year >= 90 THEN 1900 + year ELSE 2000 + year

DecodedTime(f, data) ==
    CASE f.kind = "clock" ->
            [hour |-> Plainly(data, 3, 5), min |-> Plainly(data, 10, 6), sec |-> Plainly(data, 18, 6)]
      [] f.kind = "date" ->
            [mday |-> Plainly(data, 3, 5), mon |-> Plainly(data, 12, 4),
             year |-> Century(Plainly(data, 17, 7))]
      [] f.kind = "moment" ->
            [year |-> 1900 + Plainly(data, 0, 8), mon |-> Plainly(data, 12, 4),
             mday |-> Plainly(data, 19, 5), hour |-> Plainly(data, 27, 5),
             min |-> Plainly(data, 34, 6), sec |-> Plainly(data, 42, 6)]

=============================================================================
