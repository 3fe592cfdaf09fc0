-------------------------------- MODULE Cemi --------------------------------
(***************************************************************************)
(* The common external message interface (xknx/cemi/cemi_frame.py) and the *)
(* transport layer control octet (xknx/telegram/tpci.py).  A frame is a    *)
(* record [code, info, data]; data is link layer data that carries a       *)
(* message of Apci, or a property service of the device management.        *)
(***************************************************************************)
EXTENDS Octets

A == INSTANCE Apci

---------------------------------------------------------------------------
(* TPCI.                                                                    *)

\* The classes: control, numbered, the constant sequence field, control_flags.
Tpci(control, numbered, seq, flags) ==
    [control |-> control, numbered |-> numbered, seq |-> seq, flags |-> flags]
TPCIs ==
    [TDataGroup |-> Tpci(0, 0, 0, 0), TDataBroadcast |-> Tpci(0, 0, 0, 0),
     TDataTagGroup |-> Tpci(0, 0, 1, 0), TDataIndividual |-> Tpci(0, 0, 0, 0),
     TDataConnected |-> Tpci(0, 1, 0, 0), TConnect |-> Tpci(1, 0, 0, 0),
     TDisconnect |-> Tpci(1, 0, 0, 1), TAck |-> Tpci(1, 1, 0, 2), TNak |-> Tpci(1, 1, 0, 3)]

Control(t) == TPCIs[t.kind].control = 1
SequenceNumber(t) == IF TPCIs[t.kind].numbered = 1 THEN t.seq ELSE TPCIs[t.kind].seq

TpciToKnx(t) ==
    LET c == TPCIs[t.kind]
    IN  c.control * 128 + c.numbered * 64 + (SequenceNumber(t) % 16) * 4 + c.flags

\* TPCI.resolve; {} where it raises ConversionError.
TpciResolve(octet, group, zero) ==
    LET control == octet \div 128 = 1
        numbered == (octet \div 64) % 2 = 1
        seq == (octet \div 4) % 16
        flags == octet % 4
        Plain(k) == {[kind |-> k, seq |-> 0]}
        Numbered(k) == {[kind |-> k, seq |-> seq]}
    IN  CASE group /\ (control \/ numbered) -> {}
          [] group /\ ~control /\ ~numbered /\ seq = 0 ->
                Plain(IF zero THEN "TDataBroadcast" ELSE "TDataGroup")
          [] group /\ ~control /\ ~numbered /\ seq = 1 -> Plain("TDataTagGroup")
          [] ~numbered /\ seq # 0 /\ (group => seq > 1) -> {}
          [] ~group /\ ~control /\ numbered -> Numbered("TDataConnected")
          [] ~group /\ ~control /\ ~numbered /\ seq = 0 -> Plain("TDataIndividual")
          [] ~group /\ control /\ ~numbered /\ seq = 0 /\ flags = 0 -> Plain("TConnect")
          [] ~group /\ control /\ ~numbered /\ seq = 0 /\ flags = 1 -> Plain("TDisconnect")
          [] ~group /\ control /\ (numbered \/ seq = 0) /\ flags = 2 -> Numbered("TAck")
          [] ~group /\ control /\ (numbered \/ seq = 0) /\ flags = 3 -> Numbered("TNak")
          [] ~group /\ control /\ numbered /\ flags \in {0, 1} -> {}

---------------------------------------------------------------------------
(* Link layer data.                                                         *)

MAX_NPDU_LENGTH == 254
STANDARD_FRAME_MAX_NPDU_LENGTH == 15

NoPayload == [service |-> "none", form |-> "", data |-> [f \in {} |-> 0]]

\* The bits of the two control octets that the code names.
FRAME_TYPE_STANDARD == \h8000
DO_NOT_REPEAT == \h2000
BROADCAST == \h1000
PRIORITY_LOW == \h0C00
DESTINATION_GROUP_ADDRESS == \h0080
HOP_COUNT_1ST == \h0060

IsStandard(flags) == flags \div 32768 = 1
ToGroup(flags) == (flags \div 128) % 2 = 1
ExtendedFrameFormat(flags) == flags % 16
\* CEMILData.hops
Hops(flags) == (flags \div 16) % 8
SetHops(flags, n) == flags - 16 * Hops(flags) + 16 * n

\* CEMILData.init_from_telegram: a telegram is [dst_addr, group, tpci, payload].
InitFromTelegram(t, src_addr) ==
    [flags |-> FRAME_TYPE_STANDARD + DO_NOT_REPEAT + BROADCAST + HOP_COUNT_1ST
               + (IF t.group THEN DESTINATION_GROUP_ADDRESS ELSE 0)
               + (IF t.group /\ t.tpci.kind # "TDataBroadcast" THEN PRIORITY_LOW ELSE 0),
     src_addr |-> src_addr, dst_addr |-> t.dst_addr, group |-> t.group,
     tpci |-> t.tpci, payload |-> t.payload]
\* CEMILData.telegram
TelegramOf(d) ==
    [dst_addr |-> d.dst_addr, group |-> d.group, tpci |-> d.tpci, payload |-> d.payload]

NpduLen(d) == IF Control(d.tpci) THEN 0 ELSE A!CalculatedLength(d.payload)
LDataLength(d) == 8 + NpduLen(d)

LDataEncodable(d) ==
    /\ Control(d.tpci) = (d.payload = NoPayload)
    /\ Control(d.tpci) \/ A!Encodable(d.payload)
    /\ NpduLen(d) <= MAX_NPDU_LENGTH

\* The frame type is derived from the length, whatever the flags said before.
FrameType(d) ==
    (d.flags % FRAME_TYPE_STANDARD)
    + (IF NpduLen(d) <= STANDARD_FRAME_MAX_NPDU_LENGTH THEN FRAME_TYPE_STANDARD ELSE 0)

TpduToKnx(tpci, apdu) == <<apdu[1] + TpciToKnx(tpci)>> \o Tail(apdu)
LDataToKnx(d) ==
    ToBytes(FrameType(d), 2) \o ToBytes(d.src_addr, 2) \o ToBytes(d.dst_addr, 2)
    \o <<NpduLen(d)>>
    \o (IF Control(d.tpci) THEN <<TpciToKnx(d.tpci)>> ELSE TpduToKnx(d.tpci, A!ToKnx(d.payload)))

Unsupported == [kind |-> "unsupported"]          \* UnsupportedCEMIMessage
CouldNotParse == [kind |-> "could_not_parse"]    \* CouldNotParseCEMI
Unforeseen == [kind |-> "unforeseen"]            \* any other exception
Ok(x) == [kind |-> "ok", message |-> x]

\* CEMILData.from_knx: the APDU of a data TPDU, or the check of a control TPDU.
PayloadFromKnx(tpci, size, apdu) ==
    LET Parsed(r) == CASE r.kind = "unsupported" -> Unsupported
                       [] r.kind = "conversion" -> CouldNotParse
                       [] OTHER -> Ok(r.message)
    IN  IF ~Control(tpci) THEN Parsed(A!FromKnx(apdu))
        ELSE IF size # 0 THEN CouldNotParse ELSE Ok(NoPayload)

LDataFromKnx(raw) ==
    LET flags == FromBytes(Slice(raw, 0, 2))
        dst == FromBytes(Slice(raw, 4, 6))
        tpdu == From(raw, 7)
        apdu == <<tpdu[1] % 4>> \o Tail(tpdu)
        tpcis == TpciResolve(tpdu[1], ToGroup(flags), dst = 0)
        Data(tpci) ==
            Then(PayloadFromKnx(tpci, raw[7], apdu),
                 LAMBDA p : Ok([flags |-> flags, src_addr |-> FromBytes(Slice(raw, 2, 4)),
                                dst_addr |-> dst, group |-> ToGroup(flags), tpci |-> tpci,
                                payload |-> p]))
    IN  IF Len(raw) < 8 THEN CouldNotParse
        ELSE IF ExtendedFrameFormat(flags) # 0 THEN Unsupported
        ELSE IF Len(apdu) # raw[7] + 1 THEN CouldNotParse
        ELSE IF tpcis = {} THEN Unsupported
        ELSE Data(CHOOSE t \in tpcis : TRUE)

---------------------------------------------------------------------------
(* Device management properties.  CEMIMPropInfo is six octets; what is left *)
(* of start_index above 12 bits is added to the number of elements.         *)

PropInfoLENGTH == 6
ObjectTypes == 0..19 \ {12}
ErrorCodes == 0..10

PropInfoPack ==
    << U16("object_type"), U8("object_instance"), U8("property_id"),
       Cell(2, << Part("number_of_elements", 0, Whole, 12, 0, 15),
                  Part("start_index", 0, Whole, 0, 0, 65535) >>) >>
PropInfoUnpack ==
    [object_type |-> At16(0), object_instance |-> At8(2), property_id |-> At8(3),
     number_of_elements |-> Bits(4, 1, 4, 4), start_index |-> Bits(4, 2, 0, 12)]

\* [info, data]: data is the octets, or the error code of a write response.
\* An error code of 0 is falsy, and not written.
PropTail(code, d) ==
    CASE code = "M_PROP_READ_REQ" -> <<>>
      [] code \in {"M_PROP_READ_CON", "M_PROP_WRITE_REQ"} -> d.data
      [] code = "M_PROP_WRITE_CON" -> IF d.data \in {<<>>, <<0>>} THEN <<>> ELSE d.data
PropLength(code, d) == PropInfoLENGTH + Len(PropTail(code, d))
PropToKnx(code, d) == Pack(d.info, PropInfoPack) \o PropTail(code, d)

PropFromKnx(code, raw) ==
    LET info == Unpack(raw, PropInfoUnpack)
        data == From(raw, PropInfoLENGTH)
        short == CASE code = "M_PROP_READ_REQ" -> Len(raw) # PropInfoLENGTH
                   [] code = "M_PROP_WRITE_CON" -> Len(raw) < PropInfoLENGTH
                   [] OTHER -> Len(raw) <= PropInfoLENGTH
        error == info.number_of_elements = 0
    IN  IF short THEN CouldNotParse
        ELSE IF info.object_type \notin ObjectTypes THEN Unsupported
        ELSE IF code = "M_PROP_READ_CON" /\ error /\ Len(raw) # 7 THEN CouldNotParse
        ELSE IF code = "M_PROP_WRITE_CON" /\ Len(data) # (IF error THEN 1 ELSE 0)
             THEN CouldNotParse
        ELSE IF code = "M_PROP_WRITE_CON" /\ error /\ data[1] \notin ErrorCodes
             THEN Unforeseen
        ELSE Ok([info |-> info, data |-> data])

---------------------------------------------------------------------------
(* CEMIFrame.                                                               *)

MessageCode ==
    [L_RAW_REQ |-> \h10, L_DATA_REQ |-> \h11, L_POLL_DATA_REQ |-> \h13,
     L_POLL_DATA_CON |-> \h25, L_DATA_IND |-> \h29, L_BUSMON_IND |-> \h2B,
     L_RAW_IND |-> \h2D, L_DATA_CON |-> \h2E, L_RAW_CON |-> \h2F,
     M_PROP_READ_REQ |-> \hFC, M_PROP_READ_CON |-> \hFB, M_PROP_WRITE_REQ |-> \hF6,
     M_PROP_WRITE_CON |-> \hF5, M_PROP_INFO_IND |-> \hF7, M_FUNC_PROP_COMMAND_REQ |-> \hF8,
     M_FUNC_PROP_STATE_READ_REQ |-> \hF9, M_FUNC_PROP_COMMAND_CON |-> \hFA,
     M_RESET_REQ |-> \hF1, M_RESET_IND |-> \hF0]
LData == {"L_DATA_IND", "L_DATA_REQ", "L_DATA_CON"}
MProp == {"M_PROP_READ_REQ", "M_PROP_READ_CON", "M_PROP_WRITE_REQ", "M_PROP_WRITE_CON"}

HasInfo(code) == MessageCode[code] < \hF0
HasData(code) == code \notin {"M_RESET_REQ", "M_RESET_IND"}

CalculatedLength(f) ==
    1 + (IF HasInfo(f.code) THEN 1 + Len(f.info) ELSE 0)
      + (IF f.code \in LData THEN LDataLength(f.data)
         ELSE IF f.code \in MProp THEN PropLength(f.code, f.data) ELSE 0)

Encodable(f) ==
    /\ Len(f.info) < 256
    /\ f.code \in LData => LDataEncodable(f.data)
    /\ f.code \in MProp => Packable(f.data.info, PropInfoPack)

ToKnx(f) ==
    <<MessageCode[f.code]>>
    \o (IF HasInfo(f.code) THEN <<Len(f.info)>> \o f.info ELSE <<>>)
    \o (IF f.code \in LData THEN LDataToKnx(f.data)
        ELSE IF f.code \in MProp THEN PropToKnx(f.code, f.data) ELSE <<>>)

FromKnx(raw) ==
    LET codes == {c \in DOMAIN MessageCode : MessageCode[c] = raw[1]}
        code == CHOOSE c \in codes : TRUE
    IN  IF raw = <<>> THEN Unforeseen
        ELSE IF codes = {} \/ code \notin LData \cup MProp THEN Unsupported
        ELSE IF code \in MProp
        THEN Then(PropFromKnx(code, From(raw, 1)),
                  LAMBDA d : Ok([code |-> code, info |-> <<>>, data |-> d]))
        ELSE IF Len(raw) = 1 THEN Unforeseen
        ELSE Then(LDataFromKnx(From(raw, raw[2] + 2)),
                  LAMBDA d : Ok([code |-> code, info |-> Slice(raw, 2, raw[2] + 2), data |-> d]))
=============================================================================
