-------------------------------- MODULE Wire --------------------------------
(***************************************************************************)
(* The whole stack of codecs over a TCP connection: a telegram becomes an  *)
(* APDU, a CEMI frame, a KNX/IP frame and octets; the stream delivers them *)
(* in arbitrary chunks to TCPTransport.data_received_callback, which cuts  *)
(* them into frames again, and CEMIHandler.handle_raw_cemi parses back.    *)
(* An item of the stream is [frame, cemi]: a KNX/IP message and, when it   *)
(* carries one, the CEMI frame (<<>> if not); the item of a value that is  *)
(* sent with a datapoint type also has [type, value, exact]; or it is      *)
(* [unsupported], the octets of a well formed frame of a service that this *)
(* library does not implement.                                             *)
(***************************************************************************)
EXTENDS Octets

CONSTANT UnsupportedFrames     \* does the server send such frames?
ASSUME UnsupportedAssumption == UnsupportedFrames \in BOOLEAN

A == INSTANCE Apci
C == INSTANCE Cemi
K == INSTANCE KnxIp
D == INSTANCE Dpt

VARIABLES
    items,      \* what the peer is going to send
    sent,       \* what it has sent
    split,      \* does TCP cut this stream at arbitrary places?
    wire,       \* octets on their way
    buffer,     \* TCPTransport._buffer
    received,   \* what handle_knxipframe was called with, parsed further
    closed      \* an exception left the callback: asyncio closes the connection

vars == <<items, sent, split, wire, buffer, received, closed>>

---------------------------------------------------------------------------
(* Sending.                                                                 *)

Carrying(frame, cemi) == [frame |-> frame, cemi |-> <<cemi>>]
Plain(frame) == [frame |-> frame, cemi |-> <<>>]

Encodable(item) ==
    /\ item.cemi = <<>> \/ C!Encodable(item.cemi[1])
    /\ K!Encodable(item.frame)

\* The KNX/IP message with the CEMI frame it carries.
Frame(item) ==
    IF item.cemi = <<>> THEN item.frame
    ELSE [item.frame EXCEPT !.data.raw_cemi = C!ToKnx(item.cemi[1])]

IsUnsupported(item) == "unsupported" \in DOMAIN item
Octets(item) == IF IsUnsupported(item) THEN item.unsupported ELSE K!ToKnx(Frame(item))

\* to_knx of every layer; a frame that cannot be encoded is not sent.
Send ==
    /\ items # <<>> /\ ~closed
    /\ items' = Tail(items)
    /\ LET item == Head(items)
       IN  IF IsUnsupported(item) \/ Encodable(item)
           THEN /\ wire' = wire \o Octets(item)
                /\ sent' = Append(sent, item)
           ELSE UNCHANGED <<wire, sent>>
    /\ UNCHANGED <<split, buffer, received, closed>>

---------------------------------------------------------------------------
(* Receiving.                                                               *)

\* The item of a parsed KNX/IP message; CEMI is parsed by its handler, which
\* logs and drops what does not parse ([kind |-> ...] is kept here).
Handled(m) ==
    [frame |-> m,
     cemi |-> IF "raw_cemi" \in DOMAIN m.data THEN <<C!FromKnx(m.data.raw_cemi)>> ELSE <<>>]

\* TCPTransport.data_received_callback, which calls itself for the octets
\* after a frame.  After CouldNotParseKNXIP the variable that holds them is
\* unbound, so that UnboundLocalError leaves the callback.
RECURSIVE DataReceived(_), FrameReceived(_, _)
DataReceived(raw) ==
    IF raw = <<>> THEN [frames |-> <<>>, buffer |-> <<>>, raised |-> FALSE]
    ELSE FrameReceived(raw, K!FromKnx(raw))
FrameReceived(raw, r) ==
    CASE r.kind = "incomplete" -> [frames |-> <<>>, buffer |-> raw, raised |-> FALSE]
      [] r.kind = "ok" -> [DataReceived(r.rest) EXCEPT !.frames = <<Handled(r.message)>> \o @]
      [] OTHER -> [frames |-> <<>>, buffer |-> <<>>, raised |-> TRUE]

\* Mutant: the octets kept from the last chunk are not put in front.
DeliverUnbuffered(n) ==
    /\ ~closed /\ n <= Len(wire)
    /\ split \/ n = Len(wire)
    /\ \E result \in {DataReceived(Slice(wire, 0, n))} :
           /\ received' = received \o result.frames
           /\ buffer' = result.buffer
           /\ closed' = result.raised
           /\ wire' = IF result.raised THEN <<>> ELSE From(wire, n)
    /\ UNCHANGED <<items, sent, split>>

Deliver(n) ==
    /\ ~closed /\ n <= Len(wire)
    /\ split \/ n = Len(wire)
    /\ \E result \in {DataReceived(buffer \o Slice(wire, 0, n))} :
           /\ received' = received \o result.frames
           /\ buffer' = result.buffer
           /\ closed' = result.raised
           /\ wire' = IF result.raised THEN <<>> ELSE From(wire, n)
    /\ UNCHANGED <<items, sent, split>>

---------------------------------------------------------------------------
(* Bounded inputs.                                                          *)

ToGroup(payload) ==
    [dst_addr |-> 2305, group |-> TRUE, tpci |-> [kind |-> "TDataGroup", seq |-> 0],
     payload |-> payload]
LData(code, info, data) == [code |-> code, info |-> info, data |-> data]
Tunnelled(cemi) ==
    Carrying([service |-> "TunnellingRequest",
              data |-> [communication_channel_id |-> 1, sequence_counter |-> 255, raw_cemi |-> <<>>]],
             cemi)
Routed(cemi) == Carrying([service |-> "RoutingIndication", data |-> [raw_cemi |-> <<>>]], cemi)
Configured(cemi) ==
    Carrying([service |-> "DeviceConfigurationRequest",
              data |-> [communication_channel_id |-> 255, sequence_counter |-> 0, raw_cemi |-> <<>>]],
             cemi)

SomeWrite == [service |-> "GroupValueWrite", form |-> "DPTArray", data |-> [value |-> <<12, 200>>]]
SomeRead == [service |-> "GroupValueRead", form |-> "", data |-> [f \in {} |-> 0]]
Long(n) == [service |-> "GroupValueWrite", form |-> "DPTArray", data |-> [value |-> Pattern(n)]]

\* Telegrams of every transport layer kind, addressed as the kind requires.
Telegrams ==
    {[dst_addr |-> d, group |-> k # "TDataIndividual", tpci |-> [kind |-> k, seq |-> 0], payload |-> p] :
        d \in {1, 65535}, k \in {"TDataGroup", "TDataTagGroup", "TDataIndividual"},
        p \in {SomeWrite, SomeRead, Long(14), Long(15), Long(253), Long(254)}}
    \cup {[dst_addr |-> 0, group |-> TRUE, tpci |-> [kind |-> "TDataBroadcast", seq |-> 0],
           payload |-> SomeRead]}
    \cup {[dst_addr |-> 4354, group |-> FALSE, tpci |-> [kind |-> "TDataConnected", seq |-> n],
           payload |-> SomeRead] : n \in {0, 1, 15}}
    \cup {[dst_addr |-> 4354, group |-> FALSE, tpci |-> [kind |-> k, seq |-> 0],
           payload |-> C!NoPayload] : k \in {"TConnect", "TDisconnect"}}
    \cup {[dst_addr |-> 4354, group |-> FALSE, tpci |-> [kind |-> k, seq |-> n],
           payload |-> C!NoPayload] : k \in {"TAck", "TNak"}, n \in {0, 9, 15}}

CemiInputs ==
    {LData(c, i, C!InitFromTelegram(t, 4353)) : c \in C!LData, i \in {<<>>, Pattern(3)}, t \in Telegrams}
    \cup {LData("L_DATA_IND", <<>>,
                [C!InitFromTelegram(t, 65535) EXCEPT !.flags = C!SetHops(@, h)]) :
             t \in Telegrams, h \in {0, 5, 7}}
PropInputs ==
    {[code |-> c, info |-> <<>>, data |-> [info |-> i, data |-> d]] :
        c \in C!MProp, d \in {<<>>, <<0>>, <<7>>, Pattern(4)},
        i \in {x \in Samples(C!PropInfoPack) : x.object_type \in C!ObjectTypes}}

Enums(s, d) ==
    /\ "status_code" \in DOMAIN d => d.status_code \in K!ErrorCode
    /\ "protocol" \in DOMAIN d => d.protocol \in K!HostProtocol
    /\ "data_protocol" \in DOMAIN d => d.data_protocol \in K!HostProtocol
    /\ "feature_type" \in DOMAIN d => d.feature_type \in K!TunnellingFeatureType /\ d.status_code = 0
    /\ "return_code" \in DOMAIN d => d.return_code \in K!ReturnCode
    /\ "status" \in DOMAIN d => d.status \in K!SecureSessionStatusCode
    /\ \A i \in 1..Len(K!Layout[s].cells) : LET c == K!Layout[s].cells[i] IN
          c.kind = "octets" => Len(d[c.f]) \in c.sizes

Cris ==
    {[connection_type |-> 4, knx_layer |-> l, individual_address |-> a] :
        l \in K!TunnellingLayer, a \in {K!NoAddress, 0, 4354, 65535}}
    \cup {[connection_type |-> 3, knx_layer |-> 2, individual_address |-> K!NoAddress]}
Crds ==
    {[request_type |-> 4, individual_address |-> a] : a \in {0, 4354, 65535}}
    \cup {[request_type |-> 3, individual_address |-> K!NoAddress]}
Srps ==
    {K!Srp(1, 1, <<>>), K!Srp(2, 1, Pattern(6)), K!Srp(3, 1, <<4, 2>>), K!Srp(4, 0, <<1, 2, 6>>)}
DeviceInfos ==
    {[dtc |-> 1, body |-> [info |-> i, name |-> n]] : n \in {<<>>, Pattern(9), Pattern(30), Pattern(31)},
        i \in {x \in Samples(K!DeviceInfoPack) :
                 /\ x.knx_medium \in K!KNXMedium /\ x.programming_mode \in {0, 1}
                 /\ Packable(x, K!DeviceInfoPack)}}
OtherDibs ==
    { <<[dtc |-> 2, body |-> [families |-> <<<<2, 1>>, <<3, 2>>, <<9, 1>>>>]]>>,
      <<[dtc |-> 6, body |-> [families |-> <<>>]], [dtc |-> 2, body |-> [families |-> <<<<5, 1>>>>]]>>,
      <<[dtc |-> 7, body |-> [max_apdu_length |-> 248,
                              slots |-> <<[address |-> 4354, usable |-> 1, authorized |-> 0, free |-> 1],
                                          [address |-> 65535, usable |-> 0, authorized |-> 1, free |-> 0]>>]],
        [dtc |-> 254, body |-> [data |-> Pattern(4)]]>>,
      <<[dtc |-> 5, body |-> [data |-> Pattern(3)]], [dtc |-> 8, body |-> [data |-> <<>>]]>> }

\* The messages of a KNX/IP service: its fields, and what follows them.
KnxInputs(s) ==
    LET fixed == {d \in Samples(K!Layout[s].cells) : Enums(s, d)}
        With(f, set) == {[service |-> s, data |-> d @@ (f :> x)] : d \in fixed, x \in set}
    IN  CASE s = "ConnectRequest" -> With("cri", Cris)
          [] s = "ConnectResponse" -> With("crd", Crds)
          [] s = "SearchRequestExtended" ->
                With("srps", {<<>>} \cup {<<x, y>> : x, y \in Srps})
          [] s = "DescriptionResponse" -> With("dibs", {<<d>> : d \in DeviceInfos} \cup OtherDibs)
          [] s \in K!WithDibs \ {"DescriptionResponse"} -> With("dibs", OtherDibs)
          [] OTHER -> {[service |-> s, data |-> d] : d \in fixed}

\* A value in the payload of a GroupValueWrite; exact: it came from a payload.
Datapoint(type, value, exact) ==
    LET d == D!Type[type]
        write == [service |-> "GroupValueWrite", form |-> d.form,
                  data |-> [value |-> D!ToKnx(d, value).value]]
    IN  Tunnelled(LData("L_DATA_IND", <<>>, C!InitFromTelegram(ToGroup(write), 4353)))
            @@ [type |-> type, value |-> value, exact |-> exact]

\* Streams that TCP may cut anywhere.
Streams ==
    LET ack == Plain([service |-> "TunnellingAck",
                      data |-> [communication_channel_id |-> 6, sequence_counter |-> 16, status_code |-> 0]])
        data == Tunnelled(LData("L_DATA_IND", <<>>, C!InitFromTelegram(ToGroup(SomeWrite), 4353)))
        keepalive == Plain([service |-> "SessionStatus", data |-> [status |-> 4]])
        remote_diag == [unsupported |-> <<6, 16, 7, 64, 0, 8, 6, 16>>]
        others == IF UnsupportedFrames THEN {remote_diag} ELSE {}
    IN  [1..3 -> {ack, data, keepalive} \cup others]

Init ==
    /\ sent = <<>> /\ wire = <<>> /\ buffer = <<>> /\ received = <<>> /\ closed = FALSE
    /\ \/ split = TRUE /\ items \in Streams
       \/ split = FALSE /\ \E s \in A!Services : \E m \in A!Messages(s) :
             items = <<Tunnelled(LData("L_DATA_IND", <<>>, C!InitFromTelegram(ToGroup(m), 4353)))>>
       \/ split = FALSE /\ \E f \in CemiInputs : items = <<Routed(f)>>
       \/ split = FALSE /\ \E f \in PropInputs : items = <<Configured(f)>>
       \/ split = FALSE /\ \E t \in DOMAIN D!Type : LET d == D!Type[t] IN
             \/ \E v \in D!Inputs(d) : D!ToKnx(d, v).kind = "ok" /\ items = <<Datapoint(t, v, FALSE)>>
             \/ \E v \in D!Decoded(d) : D!ToKnx(d, v).kind = "ok" /\ items = <<Datapoint(t, v, TRUE)>>
       \/ split = FALSE /\ \E s \in K!Services : \E m \in KnxInputs(s) : items = <<Plain(m)>>

Next ==
    \/ Send
    \/ \E n \in 1..Len(wire) : Deliver(n)

Spec == Init /\ [][Next]_vars

---------------------------------------------------------------------------
(* Properties.                                                              *)

\* Messages to_knx accepts although from_knx cannot give them back: fields that
\* are masked or overflow into their neighbour, data that has to be there,
\* and what is padded or cut.
Lossy(m) ==
    \/ m.service \in {"ADCRead", "ADCResponse"} /\ m.data.channel > 63
    \/ m.service = "ADCResponse" /\ A!Resolve(A!Layout, \h1C0 + m.data.channel) # {"ADCResponse"}
    \/ "start_index" \in DOMAIN m.data /\ "count" \in DOMAIN m.data /\ m.data.start_index > 4095
    \/ m.form = "DPTArray" /\ m.data.value = <<>>
    \/ m.service \in A!BitWrites /\ m.data.and_data = <<>>
    \/ m.service \in {"FilterTableWrite", "RouterMemoryWrite"} /\ m.data.data = <<>>
LossyCemi(f) ==
    IF f.code \in C!LData THEN f.data.payload # C!NoPayload /\ Lossy(f.data.payload)
    ELSE \/ f.data.info.start_index > 4095
         \/ f.code = "M_PROP_READ_REQ" /\ f.data.data # <<>>
         \/ f.code \in {"M_PROP_READ_CON", "M_PROP_WRITE_REQ"} /\ f.data.data = <<>>
         \/ f.code = "M_PROP_READ_CON" /\ f.data.info.number_of_elements = 0 /\ Len(f.data.data) # 1
         \/ f.code = "M_PROP_WRITE_CON" /\ f.data.data # <<>> /\
               (f.data.info.number_of_elements # 0 \/ f.data.data \notin {<<n>> : n \in 1..10})
         \/ f.code = "M_PROP_WRITE_CON" /\ f.data.data = <<>> /\ f.data.info.number_of_elements = 0
LossyDib(d) ==
    IF d.dtc = K!DEVICE_INFO
    THEN d.body.info.installation_number > 15 \/ Len(d.body.name) > 30
    ELSE "data" \in DOMAIN d.body /\ Len(d.body.data) % 2 = 1
LossyFrame(m) ==
    \/ m.service = "ConnectResponse" /\ m.data.status_code # 0
    \/ m.service \in K!Features /\ (m.data.data = <<>> \/ Len(m.data.data) % 2 = 1)
    \/ m.service = "SecureWrapper" /\ Len(m.data.encrypted_data) < 2
    \/ m.service \in K!WithDibs /\ \E i \in 1..Len(m.data.dibs) : LossyDib(m.data.dibs[i])
Lossless(item) == ~LossyFrame(item.frame) /\ (item.cemi = <<>> \/ ~LossyCemi(item.cemi[1]))

\* The frame type is the one of the length.
Normal(f) == IF f.code \in C!LData THEN [f EXCEPT !.data.flags = C!FrameType(f.data)] ELSE f
Same(r, item) ==
    /\ r.frame = Frame(item)
    /\ item.cemi # <<>> => r.cemi = <<C!Ok(Normal(item.cemi[1]))>>

\* A value keeps its meaning: what came from a payload is given back exactly,
\* any other value as close as its datapoint type allows.
Understood(r, item) ==
    LET d == D!Type[item.type]
        payload == r.cemi[1].message.data.payload
        w == D!FromKnx(d, payload.form, payload.data.value)
    IN  D!OutOfRange(d, item.value) \/
            /\ w.kind = "ok" /\ D!Close(d, item.value, w.value)
            /\ item.exact /\ d.as # "text" => w.value = item.value

\* What one side encodes through datapoint type, APCI, CEMI and KNX/IP the other
\* side decodes to the same message with the same meaning, for every datapoint
\* type, service and body class and the ends of the ranges of their fields, but
\* for the losses listed above.
RoundTrip ==
    ~split /\ wire = <<>> /\ sent # <<>> =>
        \/ ~Lossless(sent[1])
        \/ /\ ~closed /\ Len(received) = 1 /\ Same(received[1], sent[1])
           /\ "type" \in DOMAIN sent[1] => Understood(received[1], sent[1])

\* However TCP cuts the stream, the transport has handed over exactly the frames
\* that arrived completely, in order and unchanged, and skipped the ones it does
\* not support.
StreamInOrder ==
    split =>
        LET Upto(i) == Len(FlattenSeq([j \in 1..i |-> Octets(sent[j])]))
            arrived == Upto(Len(sent)) - Len(wire)
            whole == SelectSeq(SubSeq(sent, 1, Cardinality({i \in 1..Len(sent) : Upto(i) <= arrived})),
                               LAMBDA x : ~IsUnsupported(x))
        IN  /\ Len(received) = Len(whole)
            /\ \A i \in 1..Len(whole) : Same(received[i], whole[i])

\* A truncated APDU is refused, or is a complete message of the same length:
\* from_knx never makes up octets that did not arrive.
MaxCut == 6
NoShortRead ==
    \A i \in 1..Len(sent) : ~IsUnsupported(sent[i]) /\ sent[i].cemi # <<>> =>
        LET f == sent[i].cemi[1]
            apdu == A!ToKnx(f.data.payload)
        IN  f.code \in C!LData /\ f.data.payload # C!NoPayload =>
              \A k \in 1..(IF MaxCut < Len(apdu) THEN MaxCut ELSE Len(apdu)) :
                LET r == A!FromKnx(Slice(apdu, 0, Len(apdu) - k))
                IN  r.kind = "ok" => A!CalculatedLength(r.message) + 1 = Len(apdu) - k
=============================================================================
