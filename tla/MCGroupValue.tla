---------------------------- MODULE MCGroupValue ----------------------------
(***************************************************************************)
(* GroupValue with every datapoint type, and at each field the ends of its *)
(* range, what lies next to them, and what wraps around.                   *)
(***************************************************************************)
EXTENDS GroupValue

Below(n) == IF n.lo = 0 THEN [hi |-> n.hi - 1, lo |-> 65535] ELSE [n EXCEPT !.lo = @ - 1]
Above(n) == IF n.lo = 65535 THEN [hi |-> n.hi + 1, lo |-> 0] ELSE [n EXCEPT !.lo = @ + 1]

Integers(f) ==
    {Long(n) : n \in {f.low, f.high, Below(f.low), Above(f.high), Wide(1)}}
    \cup {ULong([hi |-> 65536, lo |-> 5]), Double(-500), Double(150)}

Percents == {Long(Wide(n)) : n \in {0, 1, 50, 99, 100, 101, 360, -1}} \cup {Double(-50), Double(3333)}

Floats ==
    {Double(c) : c \in {0, 1, -1, 2047, 2048, 2049, 4095, 4096, 65520, -2048, -2049, -27300, -27301,
                        67043328, 67043329, -67108864, -67092480, 1234567}}

Moments == {Time([year |-> y, mon |-> m, mday |-> 31, hour |-> 23, min |-> 59, sec |-> 58])
            : y \in {1989, 1990, 1999, 2000, 2089, 2090}, m \in {1, 12, 13}}

InputsTo(f) ==
    CASE f.kind \in {"flag", "workday"} -> {Long(Wide(0)), Long(Wide(2)), ULong([hi |-> 65536, lo |-> 0])}
      [] f.kind \in {"scaled", "percent"} -> Percents
      [] f.kind = "float16" -> Floats
      [] f.kind = "hundredths" -> {Double(c) : c \in {0, -1, 32767, 32768, -32768, -32769}}
      [] f.kind = "enumeration" -> {Double(c) : c \in {0, 25500, 25600, 150, -100}}
      [] f.kind \in {"clock", "date", "moment"} -> Moments
      [] f.kind = "text" -> {Text(<< >>), Text(<<65, 200>>), Text([i \in 1 .. 15 |-> 64 + i])}
      [] f.kind = "code" -> {Text(<<68, 69>>), Text(<<68>>), Text(<<69, 78>>)}
      [] f.kind = "weekday" -> {Long(Wide(n)) : n \in {-1, 0, 7, 8}}
      [] f.kind \in {"colour", "mask", "duration"} -> {Long(n) : n \in {Wide(0), Wide(9), Wide(200), All32}}
      [] OTHER -> Integers(f)

NoneOrAll == {{}, 0 .. 111}

\* The size the type has, and that of an object ETS has made too small for it
BothSizes(d) == {1, SizeOf(d)}

Dimmers  == {"3.007", "18.001"}
AllTypes == Dpts

=============================================================================
