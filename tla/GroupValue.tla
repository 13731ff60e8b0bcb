----------------------------- MODULE GroupValue -----------------------------
(***************************************************************************)
(* The value of a group object: GroupObject::value and its variants        *)
(* (group_object.cpp) over the encoders of DatapointTypes.  The fields of  *)
(* a datapoint type lie in one payload; the application writes them one by *)
(* one, and a telegram from the bus replaces them all.                     *)
(***************************************************************************)
EXTENDS DatapointTypes

CONSTANTS
    Dpt,           \* the datapoint types looked at
    Inputs(_),     \* the values an application may write to a field
    Telegrams,     \* the payloads that may come from the bus
    SizesOf(_),    \* the sizes ETS may have given the object
    MaxWrite       \* bound: calls of the application

ASSUME GroupValueAssumption == Dpt \subseteq Dpts /\ MaxWrite \in Nat

VARIABLES
    dpt,           \* the type the application uses for the object
    saturated,     \* what the target makes of a negative float as an unsigned number
    size,          \* _dataLength
    data,          \* _data
    flag,          \* _commFlagEx; Uninitialized stands for its uninitialized bit as well
    written,       \* ghost: for each field the value last accepted, or None
    writes         \* calls so far

vars == <<dpt, saturated, size, data, flag, written, writes>>

None == [type |-> "none"]

FieldsOf(d) == {f \in Fields : f.dpt = d}

-----------------------------------------------------------------------------
(* Helpers *)

\* recalculateDataLength
IsResized == flag = "Uninitialized" /\ LengthOf(dpt) > size

SizeNow == IF IsResized THEN LengthOf(dpt) ELSE size
DataNow == IF IsResized THEN {} ELSE data

Done(f, v) == Encodes(f, v, SizeNow, saturated)

\* The data after valueNoSend: the other fields stay.
InPlace(f, v) == Encoded(f, v, DataNow, SizeNow, saturated)

\* The data after valueNoSendCompare: newData was all zero.
Alone(f, v) == Encoded(f, v, {}, size, saturated)

NoSend(f, v) ==
    /\ size' = SizeNow
    /\ data' = IF Done(f, v) THEN InPlace(f, v) ELSE DataNow
    /\ written' = IF Done(f, v) THEN [written EXCEPT ![f] = v] ELSE written

NoSendCompare(f, v) ==
    IF flag = "Uninitialized" THEN NoSend(f, v)
    ELSE /\ data' = IF Done(f, v) THEN Alone(f, v) ELSE data
         /\ written' = IF Done(f, v) THEN [g \in DOMAIN written |-> IF g = f THEN v ELSE None]
                       ELSE written
         /\ UNCHANGED size

Changes(f, v) == Done(f, v) /\ (flag = "Uninitialized" \/ Alone(f, v) # data)

FlagIf(isSent) == IF isSent THEN "WriteRequest" ELSE flag

Call == writes < MaxWrite /\ writes' = writes + 1 /\ UNCHANGED <<dpt, saturated>>

-----------------------------------------------------------------------------
(* Actions *)

Value(f, v) ==
    /\ Call /\ NoSend(f, v)
    /\ flag' = FlagIf(Done(f, v))

ValueNoSend(f, v) ==
    /\ Call /\ NoSend(f, v)
    /\ flag' = IF Done(f, v) /\ flag = "Uninitialized" THEN "Ok" ELSE flag

\* Sends what has changed.
ValueCompare(f, v) ==
    /\ Call /\ NoSendCompare(f, v)
    /\ flag' = FlagIf(Changes(f, v))

\* Sends what has not changed as well, once in a while.  A first value is sent too.
ValueCompareTime(f, v) ==
    /\ Call /\ NoSendCompare(f, v)
    /\ flag' = FlagIf(Done(f, v))

\* A telegram of the size of the object
Update(bits) ==
    /\ data' = bits \cap 0 .. 8 * size - 1
    /\ flag' = "Updated"
    /\ written' = [f \in DOMAIN written |-> None]
    /\ UNCHANGED <<dpt, saturated, size, writes>>

Init ==
    /\ dpt \in Dpt
    /\ saturated \in BOOLEAN
    /\ size \in SizesOf(dpt)
    /\ data = {}
    /\ flag = "Uninitialized"
    /\ written = [f \in FieldsOf(dpt) |-> None]
    /\ writes = 0

Next ==
    \/ \E f \in FieldsOf(dpt) : \E v \in Inputs(f) :
          \/ Value(f, v)
          \/ ValueNoSend(f, v)
          \/ ValueCompare(f, v)
          \/ ValueCompareTime(f, v)
    \/ \E bits \in Telegrams : Update(bits)

Spec == Init /\ [][Next]_vars

-----------------------------------------------------------------------------
(* Properties *)

TypeOK ==
    /\ size \in 1 .. 14 /\ data \subseteq 0 .. 8 * size - 1
    /\ flag \in {"Uninitialized", "Ok", "WriteRequest", "Updated"}

Distance(m, n) == IF m < n THEN n - m ELSE m - n

\* A field is read as what was written to it: numbers exactly, angles and two-byte floats to
\* the nearest value the data can hold.
ReadsAs(f, v) ==
    /\ Decodes(f, data, size)
    /\ CASE f.kind \in {"flag", "workday"} -> Plain(Get(data, f.read)) = (IF AsBool(v) THEN 1 ELSE 0)
         [] f.kind = "weekday" -> DecodedNumber(f, data) = AsLong(v)
         [] f.kind \in {"scaled", "percent"} ->
               2 * Distance(AsCents(v), 100 * Plain(DecodedNumber(f, data))) <= 100 + (100 * f.full) \div 255
         [] f.kind = "float16" ->
               2 * Distance(AsCents(v), Plain(DecodedNumber(f, data))) <= 2^Plainly(data, 1, 4)
         [] f.kind \in {"hundredths", "enumeration"} ->
               Plain(DecodedNumber(f, data)) * (IF f.kind = "hundredths" THEN 1 ELSE 100) = AsCents(v)
         [] f.kind \in {"clock", "date", "moment"} -> \A part \in DOMAIN DecodedTime(f, data) :
               DecodedTime(f, data)[part] = v.tm[part]
         [] f.kind \in {"text", "code"} -> DecodedChars(f, data) = Chars(v, f.read.width \div 8)
         [] f.kind = "colour" -> DecodedNumber(f, data) = AsUInt(v)
         [] OTHER -> DecodedNumber(f, data) = AsLong(v)

\* What is known not to be read as it was written
IsNegativeFloat(v) == v.type = "double" /\ v.cents < 0

IsOutOfReach(f, v) ==
    \/ f.dpt = "6.001" /\ ~Leq(Wide(0), AsLong(v))            \* read as unsigned
    \/ f.dpt = "27.001" /\ ~Leq(AsLong(v), Max32)             \* read as signed
    \/ f.dpt = "221.001" /\ f.index = 1                       \* half of it written
    \/ f.dpt = "9.009" /\ AsCents(v) <= -67092480             \* exponent 16
    \/ f.kind = "mask"                                        \* half of it written
    \/ f.kind = "percent"                                     \* read rounded down
    \/ f.kind \in {"scaled", "number", "character", "period"} /\ IsNegativeFloat(v)
    \/ f.kind = "weekday" /\ ~(Leq(Wide(0), AsLong(v)) /\ Leq(AsLong(v), Wide(7)))

\* Whatever the application has written to a field, and the object has accepted, is read
\* from it until it is overwritten: fields do not reach into each other, and neither the
\* narrowing nor the rounding of an encoder turns a value into another.
FieldsReadBack ==
    size = SizeOf(dpt) =>
        \A f \in DOMAIN written :
            written[f] # None /\ ~IsOutOfReach(f, written[f]) /\ Decodes(f, data, size) => ReadsAs(f, written[f])

\* group_object.h: where the change does not matter, value "will do the same" as
\* valueCompare.
CompareDoesTheSame ==
    [][\A f \in FieldsOf(dpt) : \A v \in Inputs(f) :
          ValueCompare(f, v) => data' = (IF Done(f, v) THEN InPlace(f, v) ELSE DataNow)]_vars

\* group_object.h: value returns true "if the value was converted successfully to the
\* datapoint type and the group object was updated".
AcceptedReadsBack == \A f \in DOMAIN written : written[f] # None => ReadsAs(f, written[f])

=============================================================================
