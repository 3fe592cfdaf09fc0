------------------------------- MODULE KnxIp --------------------------------
(***************************************************************************)
(* KNXnet/IP frames (xknx/knxip).  A body class is a layout as in Apci:    *)
(* its service type, the lengths from_knx admits, the octets it checks     *)
(* with the exception a wrong one raises, the cells to_knx packs and the   *)
(* places from_knx reads.  What varies in shape (connection information,   *)
(* description blocks, search parameters) follows the fixed part.          *)
(* A message is [service, data].                                           *)
(***************************************************************************)
EXTENDS Octets

Ok(x) == [kind |-> "ok", message |-> x]
CouldNotParse == [kind |-> "could_not_parse"]      \* CouldNotParseKNXIP
Incomplete == [kind |-> "incomplete"]              \* IncompleteKNXIPFrame
Unforeseen == [kind |-> "unforeseen"]              \* IndexError, ValueError

ErrorCode == {0, 1, 2, 4, 15} \cup 33..41 \cup {45, 46}
HostProtocol == {1, 2}
ConnectRequestType == {3, 4, 6, 7, 8}
TUNNEL_CONNECTION == 4
TunnellingLayer == {2, 4, 128}
DIBTypeCode == 1..8 \cup {254}
KNXMedium == {2, 4, 16, 32}
DIBServiceFamily == 2..9
SecureSessionStatusCode == 0..5
TunnellingFeatureType == 1..8
ReturnCode == {0} \cup \hF1..\hFF

\* One octet with the value of an enum's member.
Choice(f, set) == Uint(1, f, Min(set), Max(set))

\* An octet that has to be in a set, and the exception raised when it is not.
Check(at, set, raises) == [at |-> at, set |-> set, raises |-> raises]
Must(at, n) == Check(at, {n}, CouldNotParse)
Enum(at, set) == Check(at, set, Unforeseen)

\* calculated_length is `base` and the octets of the fields `var`; `need` octets
\* are read before any length is checked.
Body(code, base, var, need, sizes, checks, cells, fields) ==
    [code |-> code, base |-> base, var |-> var, need |-> need, sizes |-> sizes, checks |-> checks,
     cells |-> cells, fields |-> fields]
AtLeast(n) == n..400

---------------------------------------------------------------------------
(* HPAI: eight octets; the names of its three fields are parameters.        *)

HpaiPack(protocol, ip, port) == <<Fixed(<<8>>), Choice(protocol, HostProtocol), Octs(ip, {4}), U16(port)>>
HpaiUnpack(at, protocol, ip, port) ==
    (protocol :> At8(at + 1)) @@ (ip :> Cut(at + 2, at + 6)) @@ (port :> At16(at + 6))
HpaiChecks(at) == <<Must(at, 8), Check(at + 1, HostProtocol, CouldNotParse)>>
ControlPack == HpaiPack("protocol", "ip_addr", "port")
ControlUnpack(at) == HpaiUnpack(at, "protocol", "ip_addr", "port")
DataPack == HpaiPack("data_protocol", "data_ip_addr", "data_port")
DataUnpack(at) == HpaiUnpack(at, "data_protocol", "data_ip_addr", "data_port")

---------------------------------------------------------------------------
(* Core services.                                                           *)

SearchRequest == Body(\h0201, 8, {}, 0, AtLeast(8), HpaiChecks(0), ControlPack, ControlUnpack(0))
SearchResponse == Body(\h0202, 8, {}, 0, AtLeast(8), HpaiChecks(0), ControlPack, ControlUnpack(0))
DescriptionRequest == Body(\h0203, 8, {}, 0, AtLeast(8), HpaiChecks(0), ControlPack, ControlUnpack(0))
DescriptionResponse == Body(\h0204, 0, {}, 0, AtLeast(0), <<>>, <<>>, [f \in {} |-> 0])
ConnectRequest ==
    Body(\h0205, 16, {}, 0, AtLeast(16), HpaiChecks(0) \o HpaiChecks(8), ControlPack \o DataPack,
         ControlUnpack(0) @@ DataUnpack(8))
ConnectResponse ==
    Body(\h0206, 10, {}, 2, AtLeast(2), <<Enum(1, ErrorCode)>>,
         <<U8("communication_channel"), Choice("status_code", ErrorCode)>> \o DataPack,
         [communication_channel |-> At8(0), status_code |-> At8(1)] @@ DataUnpack(2))
ConnectionStateRequest ==
    Body(\h0207, 10, {}, 0, AtLeast(10), HpaiChecks(2),
         <<U8("communication_channel_id"), Fixed(<<0>>)>> \o ControlPack,
         [communication_channel_id |-> At8(0)] @@ ControlUnpack(2))
ConnectionStateResponse ==
    Body(\h0208, 2, {}, 0, AtLeast(2), <<Enum(1, ErrorCode)>>,
         <<U8("communication_channel_id"), Choice("status_code", ErrorCode)>>,
         [communication_channel_id |-> At8(0), status_code |-> At8(1)])
DisconnectRequest ==
    Body(\h0209, 10, {}, 0, AtLeast(10), HpaiChecks(2),
         <<U8("communication_channel_id"), Fixed(<<0>>)>> \o ControlPack,
         [communication_channel_id |-> At8(0)] @@ ControlUnpack(2))
DisconnectResponse ==
    Body(\h020A, 2, {}, 0, AtLeast(2), <<Enum(1, ErrorCode)>>,
         <<U8("communication_channel_id"), Choice("status_code", ErrorCode)>>,
         [communication_channel_id |-> At8(0), status_code |-> At8(1)])
SearchRequestExtended ==
    Body(\h020B, 8, {}, 0, AtLeast(8), HpaiChecks(0), ControlPack, ControlUnpack(0))
SearchResponseExtended ==
    Body(\h020C, 8, {}, 0, AtLeast(8), HpaiChecks(0), ControlPack, ControlUnpack(0))

---------------------------------------------------------------------------
(* Tunnelling and device configuration.                                     *)

ConnectionHeaderPack == <<Fixed(<<4>>), U8("communication_channel_id"), U8("sequence_counter")>>
ConnectionHeaderUnpack == [communication_channel_id |-> At8(1), sequence_counter |-> At8(2)]

DeviceConfigurationRequest ==
    Body(\h0310, 4, {"raw_cemi"}, 1, AtLeast(4), <<Must(0, 4)>>,
         ConnectionHeaderPack \o <<Fixed(<<0>>), Rest("raw_cemi")>>,
         ConnectionHeaderUnpack @@ [raw_cemi |-> Cut(4, 0)])
DeviceConfigurationAck ==
    Body(\h0311, 4, {}, 1, {4}, <<Must(0, 4), Enum(3, ErrorCode)>>,
         ConnectionHeaderPack \o <<Choice("status_code", ErrorCode)>>,
         ConnectionHeaderUnpack @@ [status_code |-> At8(3)])
TunnellingRequest ==
    Body(\h0420, 4, {"raw_cemi"}, 1, AtLeast(4), <<Must(0, 4)>>,
         ConnectionHeaderPack \o <<Fixed(<<0>>), Rest("raw_cemi")>>,
         ConnectionHeaderUnpack @@ [raw_cemi |-> Cut(4, 0)])
TunnellingAck ==
    Body(\h0421, 4, {}, 1, {4}, <<Must(0, 4), Enum(3, ErrorCode)>>,
         ConnectionHeaderPack \o <<Choice("status_code", ErrorCode)>>,
         ConnectionHeaderUnpack @@ [status_code |-> At8(3)])

\* A feature service; its data is padded to an even number of octets, and has
\* to be there or not (see DataMissing).
Feature(code, base, var, need, sizes, checks, cells, fields) ==
    Body(code, base, var, need, sizes,
         <<Must(0, 4), Enum(3, ErrorCode), Enum(4, TunnellingFeatureType)>> \o checks,
         ConnectionHeaderPack \o <<Choice("status_code", ErrorCode), Choice("feature_type", TunnellingFeatureType)>> \o cells,
         ConnectionHeaderUnpack @@ [status_code |-> At8(3), feature_type |-> At8(4)] @@ fields)
TunnellingFeatureGet ==
    Feature(\h0422, 6, {}, 5, AtLeast(5), <<>>, <<Fixed(<<0>>)>>, [f \in {} |-> 0])
TunnellingFeatureResponse ==
    Feature(\h0423, 6, {"data"}, 6, AtLeast(6), <<Check(5, ReturnCode, CouldNotParse)>>,
            <<Choice("return_code", ReturnCode), Rest("data")>>, [return_code |-> At8(5), data |-> Cut(6, 0)])
TunnellingFeatureSet ==
    Feature(\h0424, 6, {"data"}, 5, AtLeast(5), <<>>, <<Fixed(<<0>>), Rest("data")>>, [data |-> Cut(6, 0)])
TunnellingFeatureInfo ==
    Feature(\h0425, 6, {"data"}, 5, AtLeast(5), <<>>, <<Fixed(<<0>>), Rest("data")>>, [data |-> Cut(6, 0)])

---------------------------------------------------------------------------
(* Routing and security.                                                    *)

RoutingIndication ==
    Body(\h0530, 0, {"raw_cemi"}, 0, AtLeast(0), <<>>, <<Rest("raw_cemi")>>, [raw_cemi |-> Cut(0, 0)])
RoutingLostMessage ==
    Body(\h0531, 4, {}, 1, {4}, <<Must(0, 4)>>,
         <<Fixed(<<4>>), U8("device_state"), U16("lost_messages")>>,
         [device_state |-> At8(1), lost_messages |-> At16(2)])
RoutingBusy ==
    Body(\h0532, 6, {}, 1, {6}, <<Must(0, 6)>>,
         <<Fixed(<<6>>), U8("device_state"), U16("wait_time"), U16("control_field")>>,
         [device_state |-> At8(1), wait_time |-> At16(2), control_field |-> At16(4)])

SecureWrapper ==
    Body(\h0950, 32, {"encrypted_data"}, 0, AtLeast(34), <<>>,
         << U16("secure_session_id"), Octs("sequence_information", {6}),
            Octs("serial_number", {6}), Octs("message_tag", {2}), Rest("encrypted_data"),
            Octs("message_authentication_code", {16}) >>,
         [secure_session_id |-> At16(0), sequence_information |-> Cut(2, 8),
          serial_number |-> Cut(8, 14), message_tag |-> Cut(14, 16),
          encrypted_data |-> Cut(16, -16), message_authentication_code |-> Cut(-16, 0)])
SessionRequest ==
    Body(\h0951, 40, {}, 0, {40}, HpaiChecks(0), ControlPack \o <<Octs("ecdh_client_public_key", {32})>>,
         ControlUnpack(0) @@ [ecdh_client_public_key |-> Cut(8, 0)])
SessionResponse ==
    Body(\h0952, 50, {}, 0, {50}, <<>>,
         << U16("secure_session_id"), Octs("ecdh_server_public_key", {32}),
            Octs("message_authentication_code", {16}) >>,
         [secure_session_id |-> At16(0), ecdh_server_public_key |-> Cut(2, 34),
          message_authentication_code |-> Cut(34, 0)])
SessionAuthenticate ==
    Body(\h0953, 18, {}, 0, {18}, <<>>,
         <<Fixed(<<0>>), U8("user_id"), Octs("message_authentication_code", {16})>>,
         [user_id |-> At8(1), message_authentication_code |-> Cut(2, 0)])
SessionStatus ==
    Body(\h0954, 2, {}, 0, {2}, <<Check(0, SecureSessionStatusCode, CouldNotParse)>>,
         <<Choice("status", SecureSessionStatusCode), Fixed(<<0>>)>>, [status |-> At8(0)])
\* The 48 bit timer is kept as its six octets.
TimerNotify ==
    Body(\h0955, 30, {}, 0, {30}, <<>>,
         << Octs("timer_value", {6}), Octs("serial_number", {6}), Octs("message_tag", {2}),
            Octs("message_authentication_code", {16}) >>,
         [timer_value |-> Cut(0, 6), serial_number |-> Cut(6, 12), message_tag |-> Cut(12, 14),
          message_authentication_code |-> Cut(14, 0)])

---------------------------------------------------------------------------
(* Connection request information and response data: two octets, four for   *)
(* a tunnel, and two more when an address is asked for (NoAddress if not).  *)

NoAddress == -1

CriToKnx(c) ==
    LET tunnel == c.connection_type = TUNNEL_CONNECTION
        address == IF c.individual_address = NoAddress THEN <<>>
                   ELSE ToBytes(c.individual_address, 2)
        tail == IF tunnel THEN <<c.knx_layer, 0>> \o address ELSE <<>>
    IN  <<2 + Len(tail), c.connection_type>> \o tail
CriLength(c) ==
    IF c.connection_type # TUNNEL_CONNECTION THEN 2
    ELSE IF c.individual_address = NoAddress THEN 4 ELSE 6

CriFromKnx(raw) ==
    LET tunnel == raw[2] = TUNNEL_CONNECTION
        sizes == IF tunnel THEN {4, 6} ELSE {2}
    IN  IF raw = <<>> THEN Unforeseen
        ELSE IF Len(raw) < raw[1] \/ raw[1] < 2 THEN CouldNotParse
        ELSE IF raw[2] \notin ConnectRequestType THEN Unforeseen
        ELSE IF raw[1] \notin sizes THEN CouldNotParse
        ELSE IF tunnel /\ raw[3] \notin TunnellingLayer THEN Unforeseen
        ELSE Ok([connection_type |-> raw[2],
                 knx_layer |-> IF tunnel THEN raw[3] ELSE 2,
                 individual_address |-> IF raw[1] = 6 THEN FromBytes(Slice(raw, 4, 6))
                                        ELSE NoAddress])

CrdToKnx(c) ==
    IF c.request_type = TUNNEL_CONNECTION
    THEN <<4, c.request_type>> \o ToBytes(c.individual_address, 2)
    ELSE <<2, c.request_type>>
CrdLength(c) == IF c.request_type = TUNNEL_CONNECTION THEN 4 ELSE 2

CrdFromKnx(raw) ==
    LET tunnel == raw[2] = TUNNEL_CONNECTION
    IN  IF raw = <<>> THEN Unforeseen
        ELSE IF Len(raw) < raw[1] \/ raw[1] < 2 THEN CouldNotParse
        ELSE IF raw[2] \notin ConnectRequestType THEN Unforeseen
        ELSE IF raw[1] # (IF tunnel THEN 4 ELSE 2) THEN CouldNotParse
        ELSE Ok([request_type |-> raw[2],
                 individual_address |-> IF tunnel THEN FromBytes(Slice(raw, 2, 4))
                                        ELSE NoAddress])

---------------------------------------------------------------------------
(* Description information blocks: [dtc, body].                             *)

DEVICE_INFO == 1
TUNNELING_INFO == 7
ServiceFamilies == {2, 6}

DeviceInfoPack ==
    << Choice("knx_medium", KNXMedium), Choice("programming_mode", {0, 1}), U16("individual_address"),
       Cell(2, << Part("project_number", 0, Whole, 4, 0, 4095),
                  Part("installation_number", 0, Whole, 0, 0, 65535) >>),
       Octs("serial_number", {6}), Octs("multicast_address", {4}), Octs("mac_address", {6}) >>
DeviceInfoUnpack ==
    [knx_medium |-> At8(2), programming_mode |-> At8(3), individual_address |-> At16(4),
     project_number |-> Bits(6, 2, 4, 12), installation_number |-> Bits(6, 2, 0, 4),
     serial_number |-> Cut(8, 14), multicast_address |-> Cut(14, 18), mac_address |-> Cut(18, 24)]
\* Thirty octets, cut or filled up with zeros, which the reader strips.
NamePad(s) == Slice(s, 0, 30) \o Zeros(30 - Len(Slice(s, 0, 30)))
NameStrip(s) ==
    LET kept == {i \in 1..Len(s) : \E j \in i..Len(s) : s[j] # 0}
    IN  SubSeq(s, 1, Cardinality(kept))

SlotToKnx(s) ==
    ToBytes(s.address, 2) \o <<0, 4 * s.usable + 2 * s.authorized + s.free>>
SlotFromKnx(raw) ==
    [address |-> FromBytes(Slice(raw, 0, 2)), usable |-> (raw[4] \div 4) % 2,
     authorized |-> (raw[4] \div 2) % 2, free |-> raw[4] % 2]

\* raw[at:], cut into shares of n octets, up to the block's length.
Shares(raw, at, n) == [i \in 1..((raw[1] - at) \div n) |-> Slice(raw, at + n * (i - 1), at + n * i)]

DibLength(d) ==
    CASE d.dtc = DEVICE_INFO -> 54
      [] d.dtc \in ServiceFamilies -> 2 * Len(d.body.families) + 2
      [] d.dtc = TUNNELING_INFO -> 4 + 4 * Len(d.body.slots)
      [] OTHER -> 2 + Len(d.body.data) + (Len(d.body.data) % 2)

DibToKnx(d) ==
    <<DibLength(d), d.dtc>> \o
    (CASE d.dtc = DEVICE_INFO -> Pack(d.body.info, DeviceInfoPack) \o NamePad(d.body.name)
       [] d.dtc \in ServiceFamilies -> FlattenSeq(d.body.families)
       [] d.dtc = TUNNELING_INFO ->
            ToBytes(d.body.max_apdu_length, 2)
            \o FlattenSeq([i \in 1..Len(d.body.slots) |-> SlotToKnx(d.body.slots[i])])
       [] OTHER -> d.body.data \o Zeros(Len(d.body.data) % 2))

\* DIB.determine_dib and the from_knx of its class.
DibFromKnx(raw) ==
    LET Dib(body) == Ok([dtc |-> raw[2], body |-> body])
    IN  IF Len(raw) < 2 THEN CouldNotParse
        ELSE IF raw[2] \notin DIBTypeCode THEN Unforeseen
        ELSE IF raw[2] = DEVICE_INFO
        THEN IF Len(raw) < 54 \/ raw[1] # 54 THEN CouldNotParse
             ELSE IF raw[3] \notin KNXMedium THEN Unforeseen
             ELSE Dib([info |-> Unpack(raw, DeviceInfoUnpack), name |-> NameStrip(Slice(raw, 24, 54))])
        ELSE IF raw[2] \in ServiceFamilies
        THEN IF Len(raw) < raw[1] \/ raw[1] % 2 # 0 THEN CouldNotParse
             ELSE IF \E i \in 1..Len(Shares(raw, 2, 2)) :
                        Shares(raw, 2, 2)[i][1] \notin DIBServiceFamily THEN Unforeseen
             ELSE Dib([families |-> Shares(raw, 2, 2)])
        ELSE IF raw[2] = TUNNELING_INFO
        THEN IF Len(raw) < 4 \/ Len(raw) < raw[1] \/ raw[1] % 4 # 0 THEN CouldNotParse
             ELSE Dib([max_apdu_length |-> FromBytes(Slice(raw, 2, 4)),
                       slots |-> [i \in 1..Len(Shares(raw, 4, 4)) |->
                                     SlotFromKnx(Shares(raw, 4, 4)[i])]])
        ELSE IF Len(raw) < raw[1] THEN CouldNotParse
        ELSE Dib([data |-> Slice(raw, 2, raw[1])])

---------------------------------------------------------------------------
(* Search request parameters: [type, mandatory, data].                      *)

SrpSize(type, data) ==
    CASE type = 3 -> 4 [] type = 2 -> 8 [] type = 4 -> 2 + Len(data) [] OTHER -> 2
\* SRP.__init__ refuses it with ConversionError.
SrpInvalid(type, data) ==
    \/ type = 3 /\ Len(data) # 2
    \/ type = 2 /\ Len(data) # 6
    \/ type = 4 /\ data = <<>>
Srp(type, mandatory, data) ==
    [type |-> type, mandatory |-> mandatory,
     data |-> IF type = 4 THEN data \o Zeros(Len(data) % 2) ELSE data]
SrpToKnx(s) == <<SrpSize(s.type, s.data), 128 * s.mandatory + s.type>> \o s.data
SrpFromKnx(raw) ==
    LET data == Slice(raw, 2, raw[1])
    IN  IF Len(raw) < 2 \/ raw[1] > Len(raw) THEN CouldNotParse
        ELSE IF raw[2] % 128 \notin 0..4 \/ SrpInvalid(raw[2] % 128, data) THEN Unforeseen
        ELSE Ok(Srp(raw[2] % 128, raw[2] \div 128, data))

\* while raw[pos:]: one block after the other; the first exception ends it.
RECURSIVE Blocks(_, _)
Blocks(raw, srps) ==
    LET Size(b) == IF srps THEN SrpSize(b.type, b.data) ELSE raw[1]
    IN  IF raw = <<>> THEN Ok(<<>>)
        ELSE Then(IF srps THEN SrpFromKnx(raw) ELSE DibFromKnx(raw),
                  LAMBDA b : Then(Blocks(From(raw, Size(b)), srps), LAMBDA bs : Ok(<<b>> \o bs)))

---------------------------------------------------------------------------
(* Bodies and frames.                                                       *)

Layout ==
    [SearchRequest |-> SearchRequest, SearchResponse |-> SearchResponse,
     DescriptionRequest |-> DescriptionRequest, DescriptionResponse |-> DescriptionResponse,
     ConnectRequest |-> ConnectRequest, ConnectResponse |-> ConnectResponse,
     ConnectionStateRequest |-> ConnectionStateRequest,
     ConnectionStateResponse |-> ConnectionStateResponse, DisconnectRequest |-> DisconnectRequest,
     DisconnectResponse |-> DisconnectResponse, SearchRequestExtended |-> SearchRequestExtended,
     SearchResponseExtended |-> SearchResponseExtended,
     DeviceConfigurationRequest |-> DeviceConfigurationRequest,
     DeviceConfigurationAck |-> DeviceConfigurationAck, TunnellingRequest |-> TunnellingRequest,
     TunnellingAck |-> TunnellingAck, TunnellingFeatureGet |-> TunnellingFeatureGet,
     TunnellingFeatureResponse |-> TunnellingFeatureResponse,
     TunnellingFeatureSet |-> TunnellingFeatureSet, TunnellingFeatureInfo |-> TunnellingFeatureInfo,
     RoutingIndication |-> RoutingIndication, RoutingLostMessage |-> RoutingLostMessage,
     RoutingBusy |-> RoutingBusy, SecureWrapper |-> SecureWrapper, SessionRequest |-> SessionRequest,
     SessionResponse |-> SessionResponse, SessionAuthenticate |-> SessionAuthenticate,
     SessionStatus |-> SessionStatus, TimerNotify |-> TimerNotify]
Services == DOMAIN Layout
WithDibs == {"SearchResponse", "SearchResponseExtended", "DescriptionResponse"}
Features == {"TunnellingFeatureSet", "TunnellingFeatureInfo", "TunnellingFeatureResponse"}

\* What follows the fixed part of a body.
TailToKnx(m) ==
    CASE m.service = "ConnectRequest" -> CriToKnx(m.data.cri)
      [] m.service = "ConnectResponse" -> CrdToKnx(m.data.crd)
      [] m.service \in WithDibs ->
            FlattenSeq([i \in 1..Len(m.data.dibs) |-> DibToKnx(m.data.dibs[i])])
      [] m.service = "SearchRequestExtended" ->
            FlattenSeq([i \in 1..Len(m.data.srps) |-> SrpToKnx(m.data.srps[i])])
      [] m.service \in Features -> Zeros(Len(m.data.data) % 2)
      [] OTHER -> <<>>
BodyToKnx(m) == Pack(m.data, Layout[m.service].cells) \o TailToKnx(m)

\* calculated_length of the body class.
Total(s) == FoldLeft(LAMBDA acc, n : acc + n, 0, s)
CalculatedLength(m) ==
    LET BodySize(l) == FoldSet(LAMBDA f, acc : acc + Len(m.data[f]), l.base, l.var)
        tail == CASE m.service = "ConnectRequest" -> CriLength(m.data.cri)
                  [] m.service = "ConnectResponse" -> CrdLength(m.data.crd)
                  [] m.service \in WithDibs ->
                        Total([i \in 1..Len(m.data.dibs) |-> DibLength(m.data.dibs[i])])
                  [] m.service = "SearchRequestExtended" ->
                        Total([i \in 1..Len(m.data.srps) |->
                                SrpSize(m.data.srps[i].type, m.data.srps[i].data)])
                  [] m.service \in Features -> Len(m.data.data) % 2
                  [] OTHER -> 0
    IN  BodySize(Layout[m.service]) + tail

\* A feature service without the data it needs, or with data it must not have.
DataMissing(s, raw) ==
    \/ s = "TunnellingFeatureGet" /\ Len(raw) > 6
    \/ s \in {"TunnellingFeatureSet", "TunnellingFeatureInfo"} /\ Len(raw) <= 6
    \/ s = "TunnellingFeatureResponse" /\ Len(raw) = 6 /\ raw[6] = 0

\* A refused connect response leaves the defaults of HPAI and CRD.
DefaultEndpoint ==
    [data_protocol |-> 1, data_ip_addr |-> Zeros(4), data_port |-> 0,
     crd |-> [request_type |-> TUNNEL_CONNECTION, individual_address |-> NoAddress]]

BodyFromKnx(s, l, raw) ==
    LET refused == s = "ConnectResponse" /\ raw[2] # 0
        checks == l.checks \o (IF s = "ConnectResponse" THEN HpaiChecks(2) ELSE <<>>)
        failed == {i \in 1..Len(checks) : raw[checks[i].at + 1] \notin checks[i].set}
        fixed == Unpack(raw, l.fields)
        With(f, r) == Then(r, LAMBDA x : Ok([service |-> s, data |-> fixed @@ (f :> x)]))
    IN  IF Len(raw) < l.need THEN Unforeseen
        ELSE IF Len(raw) \notin l.sizes THEN CouldNotParse
        ELSE IF refused /\ raw[2] \notin ErrorCode THEN Unforeseen
        ELSE IF refused
        THEN Ok([service |-> s, data |-> [communication_channel |-> raw[1], status_code |-> raw[2]]
                                         @@ DefaultEndpoint])
        ELSE IF s = "ConnectResponse" /\ ~refused /\ Len(raw) < 10 THEN CouldNotParse
        ELSE IF failed # {} THEN checks[Min(failed)].raises
        ELSE IF DataMissing(s, raw) THEN CouldNotParse
        ELSE CASE s = "ConnectRequest" -> With("cri", CriFromKnx(From(raw, 16)))
               [] s = "ConnectResponse" -> With("crd", CrdFromKnx(From(raw, 10)))
               [] s \in WithDibs ->
                    With("dibs", Blocks(IF s = "DescriptionResponse" THEN raw ELSE From(raw, 8), FALSE))
               [] s = "SearchRequestExtended" -> With("srps", Blocks(From(raw, 8), TRUE))
               [] OTHER -> Ok([service |-> s, data |-> fixed])

Encodable(m) == Packable(m.data, Layout[m.service].cells)

HEADERLENGTH == 6
PROTOCOLVERSION == 16
\* Service types the enum knows and no body implements.
OtherServices == {\h0533} \cup \h0740..\h0743

\* KNXIPFrame.init_from_body(m).to_knx()
ToKnx(m) ==
    <<HEADERLENGTH, PROTOCOLVERSION>> \o ToBytes(Layout[m.service].code, 2)
    \o ToBytes(HEADERLENGTH + CalculatedLength(m), 2) \o BodyToKnx(m)

TotalLength(raw) == FromBytes(Slice(raw, 4, 6))

\* KNXIPFrame.from_knx: the frame and the octets after it.
FrameFromKnx(layout, raw) ==
    LET code == FromBytes(Slice(raw, 2, 4))
        found == {s \in DOMAIN layout : layout[s].code = code}
        s == CHOOSE s \in found : TRUE
    IN  IF raw[1] # HEADERLENGTH \/ raw[2] # PROTOCOLVERSION THEN CouldNotParse
        ELSE IF found = {} /\ code \notin OtherServices THEN CouldNotParse
        ELSE IF Len(raw) < TotalLength(raw) THEN Incomplete
        ELSE IF found = {} THEN CouldNotParse
        ELSE Then(BodyFromKnx(s, layout[s], Slice(raw, HEADERLENGTH, TotalLength(raw))),
                  LAMBDA m : Ok(m) @@ [rest |-> From(raw, TotalLength(raw))])
FromKnx(raw) == IF Len(raw) < HEADERLENGTH THEN Incomplete ELSE FrameFromKnx(Layout, raw)
=============================================================================
