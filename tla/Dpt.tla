-------------------------------- MODULE Dpt ---------------------------------
(***************************************************************************)
(* The datapoint types (xknx/dpt): to_knx makes the payload of a group     *)
(* telegram from a value, from_knx reads it again.  Type gives every class *)
(* the parameters its methods differ in; classes that differ only in       *)
(* number, name or unit have the same ones.                                *)
(*                                                                         *)
(* Values are integers: hundredths for DPT 9, tenths of a second for a     *)
(* fade time, 1/100000 for a colour axis.  An optional value is <<>> or    *)
(* <<n>>.  DPT 14, DPT 29 and 8.010 need numbers that TLC does not have.   *)
(***************************************************************************)
EXTENDS Octets

Ok(value) == [kind |-> "ok", value |-> value]
Error == [kind |-> "error"]             \* ConversionError, CouldNotParseTelegram

\* round(n / d): halves go to the even neighbour.
Round(n, d) ==
    LET q == n \div d
        r == n % d
    IN  IF 2 * r > d \/ (2 * r = d /\ q % 2 = 1) THEN q + 1 ELSE q

SignedFromBytes(s) ==
    FoldLeft(LAMBDA acc, octet : acc * 256 + octet,
             IF s[1] > 127 THEN s[1] - 256 ELSE s[1], Tail(s))

Array(as, len) == [as |-> as, form |-> "DPTArray", len |-> len]
\* The classes that share one description.
Classes(names, d) == [c \in names |-> d]

---------------------------------------------------------------------------
(* Numbers: octets, value_min, value_max, resolution.                       *)

Num(len, lo, hi, res) == Array("number", len) @@ [lo |-> lo, hi |-> hi, res |-> res]

Dpt5 ==
    Classes({"DPTValue1ByteUnsigned", "DPTPercentU8", "DPTDecimalFactor", "DPTValue1Ucount"},
             Num(1, 0, 255, 1))
    @@ Classes({"DPTTariff"}, Num(1, 0, 254, 1))
    @@ Classes({"DPTScaling"}, Array("scaling", 1) @@ [hi |-> 100])
    @@ Classes({"DPTAngle"}, Array("scaling", 1) @@ [hi |-> 360])
Dpt6 ==
    Classes({"DPTSignedRelativeValue", "DPTPercentV8", "DPTValue1Count"}, Num(1, -128, 127, 1))
Dpt7 ==
    Classes({"DPT2ByteUnsigned", "DPT2Ucount", "DPTTimePeriodMsec", "DPTTimePeriodSec",
             "DPTTimePeriodMin", "DPTTimePeriodHrs", "DPTPropDataType", "DPTLengthMm",
             "DPTUElCurrentmA", "DPTBrightness", "DPTColorTemperature"}, Num(2, 0, 65535, 1))
    @@ Classes({"DPTTimePeriod10Msec"}, Num(2, 0, 65535, 10))
    @@ Classes({"DPTTimePeriod100Msec"}, Num(2, 0, 65535, 100))
Dpt8 ==
    Classes({"DPT2ByteSigned", "DPTValue2Count", "DPTDeltaTimeMsec", "DPTDeltaTimeSec",
             "DPTDeltaTimeMin", "DPTDeltaTimeHrs", "DPTRotationAngle", "DPTLengthM"},
             Num(2, -32768, 32767, 1))
    @@ Classes({"DPTDeltaTime10Msec"}, Num(2, -32768, 32767, 10))
    @@ Classes({"DPTDeltaTime100Msec"}, Num(2, -32768, 32767, 100))
\* Without the upper half of its range, for which TLC's integers are too small.
Dpt12 ==
    Classes({"DPT4ByteUnsigned", "DPTValue4Ucount", "DPTLongTimePeriodSec",
             "DPTLongTimePeriodMin", "DPTLongTimePeriodHrs", "DPTVolumeLiquidLitre",
             "DPTVolumeM3"}, Num(4, 0, 2147483647, 1))
Dpt13 ==
    Classes({"DPT4ByteSigned", "DPTValue4Count", "DPTFlowRateM3H", "DPTActiveEnergy",
             "DPTApparantEnergy", "DPTReactiveEnergy", "DPTActiveEnergykWh",
             "DPTApparantEnergykVAh", "DPTReactiveEnergykVARh", "DPTActiveEnergyMWh",
             "DPTLongDeltaTimeSec", "DPTDeltaVolumeLiquidLitre", "DPTDeltaVolumeM3"},
             Num(4, -2147483647 - 1, 2147483647, 1))

\* int(value) // resolution, or int(value / resolution) for the signed types.
Quotient(d, v) ==
    IF d.lo < 0 /\ v < 0 /\ v % d.res # 0 THEN (v \div d.res) + 1 ELSE v \div d.res
NumberToKnx(d, v) ==
    LET k == Quotient(d, v)
    IN  IF k \in d.lo .. d.hi THEN Ok(ToBytes(k, d.len)) ELSE Error
\* Only DPT 5 tests the boundaries here; the others fill their octets.
NumberFromKnx(d, raw) ==
    LET k == IF d.lo < 0 THEN SignedFromBytes(raw) ELSE FromBytes(raw)
    IN  IF k \in d.lo .. d.hi THEN Ok(k * d.res) ELSE Error

\* DPTScaling and DPTAngle; value_min is 0 for both.
ScalingToKnx(d, v) == IF v \in 0 .. d.hi THEN Ok(<<Round(v * 255, d.hi)>>) ELSE Error
ScalingFromKnx(d, raw) == Ok(Round(raw[1] * d.hi, 255))

\* DPT 17 is counted from 1 and sent from 0.
Dpt17 == [DPTSceneNumber |-> Array("scene", 1)]
SceneToKnx(v) == IF v \in 1..64 THEN Ok(<<v - 1>>) ELSE Error
SceneFromKnx(raw) == IF raw[1] + 1 \in 1..64 THEN Ok(raw[1] + 1) ELSE Error

---------------------------------------------------------------------------
(* DPT 9: an exponent and 11 bits in two's complement, the sign apart.      *)

Float(lo, hi) == Array("float", 2) @@ [lo |-> lo, hi |-> hi]
Dpt9 ==
    Classes({"DPT2ByteFloat", "DPTPartsPerMillion", "DPTAirFlow", "DPTVoltage", "DPTCurrent",
             "DPTPowerDensity", "DPTKelvinPerPercent", "DPTPower2Byte", "DPTVolumeFlow",
             "DPTRainAmount", "DPTEnthalpy"}, Float(-67108864, 67076096))
    @@ Classes({"DPTTemperature"}, Float(-27300, 67076000))
    @@ Classes({"DPTTemperatureDifference2Byte", "DPTTemperatureA", "DPTTime1", "DPTTime2"},
                Float(-67076000, 67076000))
    @@ Classes({"DPTLux", "DPTWsp", "DPTPressure2Byte", "DPTHumidity", "DPTWspKmh"},
                Float(0, 67076000))
    @@ Classes({"DPTTemperatureF"}, Float(-45960, 67076000))
    @@ Classes({"DPTAbsoluteHumidity", "DPTConcentrationUGM3"}, Float(0, 67076096))

\* How often the value has to be halved until it fits 11 bits and the sign.
Exponent(v) == Min({e \in 0..15 : -2048 * 2^e <= v /\ v <= 2047 * 2^e})
FloatToKnx(d, v) ==
    LET mantisse == Round(v, 2^Exponent(v)) % 2048
    IN  IF v \notin d.lo .. d.hi THEN Error
        ELSE Ok(<<Exponent(v) * 8 + mantisse \div 256 + (IF v < 0 THEN 128 ELSE 0), mantisse % 256>>)
FloatFromKnx(d, raw) ==
    LET data == FromBytes(raw)
        significand == (data % 2048) - (IF data >= 32768 THEN 2048 ELSE 0)
        v == significand * 2^((data \div 2048) % 16)
    IN  IF v \in d.lo .. d.hi THEN Ok(v) ELSE Error

---------------------------------------------------------------------------
(* Enumerations and flags.                                                  *)

Enum(form, len, members) == [as |-> "enum", form |-> form, len |-> len, members |-> members]
Dpt1 ==
    Classes({"DPTSwitch", "DPTBool", "DPT1BitBoolean", "DPTEnable", "DPTRamp", "DPTAlarm",
             "DPTBinaryValue", "DPTStep", "DPTUpDown", "DPTOpenClose", "DPTStart", "DPTState",
             "DPTInvert", "DPTDimSendStyle", "DPTInputSource", "DPTReset", "DPTAck",
             "DPTTrigger", "DPTOccupancy", "DPTWindowDoor", "DPTLogicalFunction", "DPTSceneAB",
             "DPTShutterBlindsMode", "DPTDayNight", "DPTHeatCool", "DPTConsumerProducer",
             "DPTEnergyDirection"}, Enum("DPTBinary", 1, {0, 1}))
Dpt20 == [DPTHVACMode |-> Enum("DPTArray", 1, 0..4),
          DPTHVACContrMode |-> Enum("DPTArray", 1, 0..17 \cup {20})]
EnumToKnx(d, v) == IF v \in d.members THEN Ok(<<v>>) ELSE Error
EnumFromKnx(d, raw) == IF raw[1] \in d.members THEN Ok(raw[1]) ELSE Error

\* A flag above a number lo..hi that is sent from 0: control and value (DPT 2),
\* control and step code (DPT 3), learn and scene number (DPT 18).
Flagged(form, len, shift, lo, hi) ==
    [as |-> "flagged", form |-> form, len |-> len, shift |-> shift, lo |-> lo, hi |-> hi]
Dpt2 ==
    Classes({"DPTSwitchControl", "DPTBoolControl", "DPT2BitBoolean", "DPTEnableControl",
             "DPTRampControl", "DPTAlarmControl", "DPTBinaryValueControl", "DPTStepControl",
             "DPTDirection1Control", "DPTDirection2Control", "DPTStartControl",
             "DPTStateControl", "DPTInvertControl"}, Flagged("DPTBinary", 2, 1, 0, 1))
Dpt3 ==
    Classes({"DPTControlDimming", "DPTControlBlinds"}, Flagged("DPTBinary", 4, 3, 0, 7))
Dpt18 == [DPTSceneControl |-> Flagged("DPTArray", 1, 7, 1, 64)]
FlaggedToKnx(d, v) ==
    IF v[2] \in d.lo .. d.hi THEN Ok(<<v[1] * 2^d.shift + v[2] - d.lo>>) ELSE Error
FlaggedFromKnx(d, raw) ==
    Ok(<<(raw[1] \div 2^d.shift) % 2, d.lo + (raw[1] % (d.hi - d.lo + 1))>>)

\* DPTHVACStatus: <<mode, dew_point, heat_cool, inactive, frost_alarm>>; the mode
\* is the lowest of four bits that is set, AUTO if none is.
HVACStatus == [DPTHVACStatus |-> Array("status", 1)]
StatusToKnx(v) ==
    Ok(<<(IF v[1] = 0 THEN 0 ELSE 2^(v[1] - 1)) + v[2] * 16 + v[3] * 32 + v[4] * 64 + v[5] * 128>>)
StatusFromKnx(raw) ==
    LET Bit(i) == (raw[1] \div 2^i) % 2
        modes == {i \in 1..4 : Bit(i - 1) = 1}
    IN  Ok(<<IF modes = {} THEN 0 ELSE Min(modes), Bit(4), Bit(5), Bit(6), Bit(7)>>)

---------------------------------------------------------------------------
(* Strings: character codes, padded with zeros; from_knx drops every zero,  *)
(* and what the encoding does not have becomes a question mark (63) or the  *)
(* replacement character.                                                   *)

Text(len, top) == Array("text", len) @@ [top |-> top]
Dpt16 == [DPTString |-> Text(14, 127), DPTLatin1 |-> Text(14, 255)]
Dpt4 == [DPTCharacter |-> Text(1, 127), DPTCharacterLatin1 |-> Text(1, 255)]
Encoded(d, v) == [i \in 1..Len(v) |-> IF v[i] <= d.top THEN v[i] ELSE 63]
TextToKnx(d, v) ==
    IF Len(v) > d.len THEN Error ELSE Ok(Encoded(d, v) \o Zeros(d.len - Len(v)))
TextFromKnx(d, raw) ==
    LET chars == SelectSeq(raw, LAMBDA c : c # 0)
    IN  Ok([i \in 1..Len(chars) |-> IF chars[i] <= d.top THEN chars[i] ELSE 65533])

---------------------------------------------------------------------------
(* Time and date.                                                           *)

\* <<day, hour, minutes, seconds>>
Dpt10 == [DPTTime |-> Array("time", 3)]
TimeInRange(v) == v[2] \in 0..23 /\ v[3] \in 0..59 /\ v[4] \in 0..59
TimeToKnx(v) == IF TimeInRange(v) THEN Ok(<<v[1] * 32 + v[2], v[3], v[4]>>) ELSE Error
TimeFromKnx(raw) ==
    LET v == <<raw[1] \div 32, raw[1] % 32, raw[2] % 64, raw[3] % 64>>
    IN  IF TimeInRange(v) THEN Ok(v) ELSE Error

\* <<year, month, day>>
Dpt11 == [DPTDate |-> Array("date", 3)]
DateInRange(year, month, day) == day \in 1..31 /\ month \in 1..12 /\ year \in 0..99
KnxYear(year) == IF year \in 2000..2089 THEN year - 2000 ELSE year - 1900
DateToKnx(v) ==
    IF v[1] \in 1990..2089 /\ DateInRange(KnxYear(v[1]), v[2], v[3])
    THEN Ok(<<v[3], v[2], KnxYear(v[1])>>) ELSE Error
DateFromKnx(raw) ==
    LET day == raw[1] % 32
        month == raw[2] % 16
        year == raw[3] % 128
    IN  IF DateInRange(year, month, day)
        THEN Ok(<<year + (IF year >= 90 THEN 1900 ELSE 2000), month, day>>) ELSE Error

\* DPT 19: all but flags (fault, dst, external_sync, source_reliable) are optional.
Dpt19 == [DPTDateTime |-> Array("datetime", 8)]
Given(o, default) == IF o = <<>> THEN default ELSE o[1]
Within(o, range) == o = <<>> \/ o[1] \in range
DateTimeInRange(v) ==
    /\ Within(v.year, 1900..2155) /\ Within(v.month, 1..12) /\ Within(v.day, 1..31)
    /\ Within(v.hour, 0..24) /\ Within(v.minutes, 0..59) /\ Within(v.seconds, 0..59)
    /\ v.hour = <<24>> => v.minutes = <<0>> /\ v.seconds = <<0>>
DateTimeToKnx(v) ==
    LET Missing(fields) == IF \E f \in fields : v[f] = <<>> THEN 1 ELSE 0
        N(f) == Given(v[f], 0)
    IN  IF ~DateTimeInRange(v) THEN Error
        ELSE Ok(<<Given(v.year, 1900) - 1900, N("month"), N("day"), N("weekday") * 32 + N("hour"),
                  N("minutes"), N("seconds"),
                  v.flags[1] * 128 + N("working") * 64 + Missing({"working"}) * 32 +
                  Missing({"year"}) * 16 + Missing({"month", "day"}) * 8 + Missing({"weekday"}) * 4 +
                  Missing({"hour", "minutes", "seconds"}) * 2 + v.flags[2],
                  v.flags[3] * 128 + v.flags[4] * 64>>)
DateTimeFromKnx(raw) ==
    LET Bit(octet, i) == (raw[octet] \div 2^i) % 2
        Unless(bit, x) == IF Bit(7, bit) = 1 THEN <<>> ELSE <<x>>
        v == [year |-> Unless(4, raw[1] + 1900),
              month |-> Unless(3, raw[2] % 16), day |-> Unless(3, raw[3] % 32),
              weekday |-> Unless(2, raw[4] \div 32),
              hour |-> Unless(1, raw[4] % 32), minutes |-> Unless(1, raw[5] % 64),
              seconds |-> Unless(1, raw[6] % 64),
              working |-> Unless(5, Bit(7, 6)),
              flags |-> <<Bit(7, 7), Bit(7, 0), Bit(8, 7), Bit(8, 6)>>]
    IN  IF DateTimeInRange(v) THEN Ok(v) ELSE Error

---------------------------------------------------------------------------
(* Colours, relative control and tariff: slots one after the other, then,   *)
(* if optional, an octet that says which are valid.  A value is a sequence  *)
(* of optional values; slots with the same bit are given together.          *)

Slot(as, w, lo, hi, bit) == [as |-> as, w |-> w, lo |-> lo, hi |-> hi, bit |-> bit]
Always == -1                            \* bit of a slot that is not optional
Uint8(bit) == Slot("uint", 1, 0, 255, bit)
Uint16(bit) == Slot("uint", 2, 0, 65535, bit)
Axis(bit) == Slot("axis", 2, 0, 100000, bit)
\* pack_control_dimming: control * 8 + step_code; unlike in DPT 3 the range of the
\* step code is not checked and is taken for granted here.
ControlStep(bit) == Slot("step", 1, 0, 15, bit)

\* inverted: the bits say what is not valid; spare: reserved octets before them.
Slots(slots, spare, inverted) ==
    LET width == FoldLeft(LAMBDA acc, x : acc + x.w, 0, slots)
        masks == IF \A i \in 1..Len(slots) : slots[i].bit = Always THEN 0 ELSE 1
    IN  Array("slots", width + spare + masks)
            @@ [slots |-> slots, masks |-> masks, spare |-> spare, inverted |-> inverted]

Dpt232 == [DPTColorRGB |-> Slots(<<Uint8(Always), Uint8(Always), Uint8(Always)>>, 0, FALSE)]
Dpt235 == [DPTTariffActiveEnergy |->
              Slots(<<Slot("int", 4, -2147483647 - 1, 2147483647, 1), Slot("uint", 1, 0, 254, 0)>>,
                    0, TRUE)]
Dpt242 == [DPTColorXYY |-> Slots(<<Axis(1), Axis(1), Uint8(0)>>, 0, FALSE)]
Dpt243 == [DPTColorXYYTransition |-> Slots(<<Uint16(Always), Axis(1), Axis(1), Uint8(0)>>, 0, FALSE)]
Dpt249 == [DPTColorTemperatureTransition |-> Slots(<<Uint16(2), Uint16(1), Uint8(0)>>, 0, FALSE)]
Dpt250 == [DPTColorTemperatureControl |-> Slots(<<ControlStep(1), ControlStep(0)>>, 0, FALSE)]
Dpt251 == [DPTColorRGBW |-> Slots(<<Uint8(3), Uint8(2), Uint8(1), Uint8(0)>>, 1, FALSE)]
Dpt252 == [DPTRelativeControlRGBW |->
              Slots(<<ControlStep(3), ControlStep(2), ControlStep(1), ControlStep(0)>>, 0, FALSE)]
Dpt253 == [DPTRelativeControlXYY |-> Slots(<<ControlStep(2), ControlStep(1), ControlStep(0)>>, 0, FALSE)]
Dpt254 == [DPTRelativeControlRGB |->
              Slots(<<ControlStep(Always), ControlStep(Always), ControlStep(Always)>>, 0, FALSE)]

SlotsToKnx(d, v) ==
    LET n == Len(d.slots)
        Number(i) == IF v[i] = <<>> THEN 0
                     ELSE IF d.slots[i].as = "axis" THEN Round(v[i][1] * 13107, 20000) ELSE v[i][1]
        valid == {d.slots[i].bit : i \in {j \in 1..n : (v[j] = <<>>) = d.inverted}}
        mask == MapThenSumSet(LAMBDA b : IF b = Always THEN 0 ELSE 2^b, valid)
    IN  IF \E i \in 1..n : ~Within(v[i], d.slots[i].lo .. d.slots[i].hi) THEN Error
        ELSE Ok(FlattenSeq([i \in 1..n |-> ToBytes(Number(i), d.slots[i].w)])
                    \o Zeros(d.spare) \o (IF d.masks = 1 THEN <<mask>> ELSE <<>>))

SlotsFromKnx(d, raw) ==
    LET n == Len(d.slots)
        At(i) == FoldLeft(LAMBDA acc, x : acc + x.w, 0, SubSeq(d.slots, 1, i - 1))
        Octets(i) == Slice(raw, At(i), At(i) + d.slots[i].w)
        IsGiven(i) == d.slots[i].bit = Always
                        \/ ((raw[d.len] \div 2^d.slots[i].bit) % 2 = 0) = d.inverted
        Number(i) == CASE d.slots[i].as = "axis" -> Round(FromBytes(Octets(i)) * 20000, 13107)
                       [] d.slots[i].as = "step" -> FromBytes(Octets(i)) % 16
                       [] d.slots[i].as = "int" -> SignedFromBytes(Octets(i))
                       [] OTHER -> FromBytes(Octets(i))
        v == [i \in 1..n |-> IF IsGiven(i) THEN <<Number(i)>> ELSE <<>>]
    IN  IF \A i \in 1..n : Within(v[i], d.slots[i].lo .. d.slots[i].hi) THEN Ok(v) ELSE Error

---------------------------------------------------------------------------
(* All of them.                                                             *)

Type ==
    Dpt1 @@ Dpt2 @@ Dpt3 @@ Dpt4 @@ Dpt5 @@ Dpt6 @@ Dpt7 @@ Dpt8 @@ Dpt9 @@ Dpt10 @@ Dpt11 @@ Dpt12
    @@ Dpt13 @@ Dpt16 @@ Dpt17 @@ Dpt18 @@ Dpt19 @@ Dpt20 @@ HVACStatus @@ Dpt232 @@ Dpt235 @@ Dpt242
    @@ Dpt243 @@ Dpt249 @@ Dpt250 @@ Dpt251 @@ Dpt252 @@ Dpt253 @@ Dpt254

ToKnx(d, v) ==
    CASE d.as = "number" -> NumberToKnx(d, v)
      [] d.as = "scaling" -> ScalingToKnx(d, v)
      [] d.as = "scene" -> SceneToKnx(v)
      [] d.as = "float" -> FloatToKnx(d, v)
      [] d.as = "enum" -> EnumToKnx(d, v)
      [] d.as = "flagged" -> FlaggedToKnx(d, v)
      [] d.as = "status" -> StatusToKnx(v)
      [] d.as = "text" -> TextToKnx(d, v)
      [] d.as = "time" -> TimeToKnx(v)
      [] d.as = "date" -> DateToKnx(v)
      [] d.as = "datetime" -> DateTimeToKnx(v)
      [] d.as = "slots" -> SlotsToKnx(d, v)

ValidPayload(d, form, raw) ==
    /\ form = d.form
    /\ IF form = "DPTArray" THEN Len(raw) = d.len ELSE raw[1] < 2^d.len

FromKnx(d, form, raw) ==
    CASE ~ValidPayload(d, form, raw) -> Error
      [] d.as = "number" -> NumberFromKnx(d, raw)
      [] d.as = "scaling" -> ScalingFromKnx(d, raw)
      [] d.as = "scene" -> SceneFromKnx(raw)
      [] d.as = "float" -> FloatFromKnx(d, raw)
      [] d.as = "enum" -> EnumFromKnx(d, raw)
      [] d.as = "flagged" -> FlaggedFromKnx(d, raw)
      [] d.as = "status" -> StatusFromKnx(raw)
      [] d.as = "text" -> TextFromKnx(d, raw)
      [] d.as = "time" -> TimeFromKnx(raw)
      [] d.as = "date" -> DateFromKnx(raw)
      [] d.as = "datetime" -> DateTimeFromKnx(raw)
      [] d.as = "slots" -> SlotsFromKnx(d, raw)

---------------------------------------------------------------------------
(* What decoding may change: numbers are cut or rounded to the resolution   *)
(* of the payload, characters the encoding does not have are replaced, and  *)
(* a date or a time that is not complete is dropped.                        *)

Off(v, w) == IF v < w THEN w - v ELSE v - w
Close(d, v, w) ==
    CASE d.as = "number" -> Off(v, w) < d.res
      [] d.as = "scaling" -> Off(v, w) <= d.hi \div 255
      [] d.as = "float" -> 2 * Off(v, w) <= 2^Exponent(v)
      [] d.as = "text" -> w = Encoded(d, v)
      [] d.as = "slots" -> \A i \in 1..Len(v) :
            w[i] = v[i] \/ (d.slots[i].as = "axis" /\ Off(v[i][1], w[i][1]) <= 1)
      [] d.as = "datetime" ->
            LET Group(f) ==
                    CASE f \in {"month", "day"} -> {"month", "day"}
                      [] f \in {"hour", "minutes", "seconds"} -> {"hour", "minutes", "seconds"}
                      [] OTHER -> {f}
            IN  w = [f \in DOMAIN v |-> IF \E g \in Group(f) : v[g] = <<>> THEN <<>> ELSE v[f]]
      [] OTHER -> w = v

---------------------------------------------------------------------------
(* Bounded inputs: values around the ends of the ranges, and payloads.      *)

Around(lo, hi) == {lo, lo + 1, 0, (lo + hi) \div 3, hi - 1, hi}
Inputs(d) ==
    CASE d.as = "number" ->
            LET ends == IF d.len = 4 THEN {} ELSE {d.lo * d.res - 1, d.hi * d.res + d.res}
            IN  {k * d.res : k \in Around(d.lo, d.hi)} \cup ends
                    \cup {d.res \div 2, d.res + (d.res \div 2)}
      [] d.as = "scaling" -> -1 .. d.hi + 1
      [] d.as = "scene" -> 0..65
      [] d.as = "float" ->
            Around(d.lo, d.hi) \cup {d.lo - 1, d.hi + 1, -1}
                \cup {s * (n * 2^e + k) :
                          s \in {-1, 1}, n \in {2047, 2048, 2050}, e \in 0..14, k \in {0, 1}}
      [] d.as = "enum" -> {0, 1, 4, 5, 17, 18, 20, 21}
      [] d.as = "flagged" -> {0, 1} \X {0, 1, 2, 7, 8, 63, 64, 65}
      [] d.as = "status" -> (0..4) \X {0, 1} \X {0, 1} \X {0, 1} \X {0, 1}
      [] d.as = "text" ->
            {<<>>, <<65>>, <<127>>, <<228>>, <<8364>>, <<65, 228, 8364, 66>>}
                \cup {[i \in 1..n |-> 64 + i] : n \in {13, 14, 15}}
      [] d.as = "time" -> {0, 1, 7} \X {0, 23, 24} \X {0, 59, 60} \X {0, 59, 60}
      [] d.as = "date" -> {1989, 1990, 1999, 2000, 2089, 2090} \X {0, 1, 12, 13} \X {0, 1, 31, 32}
      [] d.as = "datetime" ->
            LET some == [year |-> <<2026>>, month |-> <<12>>, day |-> <<31>>, weekday |-> <<7>>,
                         hour |-> <<23>>, minutes |-> <<59>>, seconds |-> <<58>>, working |-> <<1>>,
                         flags |-> <<1, 0, 1, 0>>]
                none == [f \in DOMAIN some |-> IF f = "flags" THEN <<0, 1, 0, 1>> ELSE <<>>]
                options == [year |-> {1899, 1900, 2155, 2156}, month |-> {0, 1, 13}, day |-> {0, 1, 32},
                            weekday |-> {0, 7}, hour |-> {0, 24, 25}, minutes |-> {0, 60},
                            seconds |-> {0, 60}, working |-> {0, 1}]
                midnight == [some EXCEPT !.hour = <<24>>, !.minutes = <<0>>, !.seconds = <<0>>]
            IN  UNION {{b} \cup {[b EXCEPT ![f] = o] : o \in {<<>>} \cup {<<x>> : x \in options[f]}} :
                          <<b, f>> \in {some, none, midnight} \X DOMAIN options}
      [] d.as = "slots" ->
            LET n == Len(d.slots)
                Low(i) == d.slots[i].lo
                High(i) == d.slots[i].hi
                given == {[i \in 1..n |-> <<Low(i)>>], [i \in 1..n |-> <<High(i)>>],
                          [i \in 1..n |-> <<((Low(i) + High(i)) \div 3) + i>>]}
                Ends(i) == IF d.slots[i].as \in {"int", "step"} THEN {Low(i) + 1}
                           ELSE {Low(i) - 1, Low(i) + 1, High(i) + 1}
                bits == {d.slots[i].bit : i \in 1..n}
            IN  {[i \in 1..n |-> IF d.slots[i].bit \in bs \ {Always} THEN <<>> ELSE g[i]] :
                    g \in given, bs \in SUBSET bits}
                \cup UNION {{[g EXCEPT ![i] = <<x>>] : x \in Ends(i)} : <<g, i>> \in given \X (1..n)}

Payloads(d) ==
    CASE d.form = "DPTBinary" -> {<<n>> : n \in 0..63}
      [] d.len = 1 -> {<<n>> : n \in 0..255}
      [] d.len = 2 -> {<<8 * n + k, low>> : n \in 0..31, k \in {0, 7}, low \in {0, 255}}
      [] OTHER -> LET bases == {Zeros(d.len), Pattern(d.len), [i \in 1..d.len |-> 127]}
                        high == IF d.as = "number" /\ d.lo = 0 THEN {} ELSE {128, 255}
                  IN  UNION {{[b EXCEPT ![i] = x] :
                                 x \in {0, 1, 2, 15, 31, 32, 60, 64, 90, 127} \cup high} :
                                <<b, i>> \in bases \X (1..d.len)}

\* Values to_knx accepts although from_knx rejects what it makes of them: the end
\* of the range of a DPT 9 class, where rounding leads out of the range.
OutOfRange(d, v) ==
    d.as = "float" /\ Round(v, 2^Exponent(v)) * 2^Exponent(v) \notin d.lo .. d.hi

\* What from_knx makes of the payloads it accepts.
Decoded(d) ==
    {r.value : r \in {x \in {FromKnx(d, d.form, p) : p \in Payloads(d)} : x.kind = "ok"}}
=============================================================================
