-------------------------------- MODULE Apci --------------------------------
(***************************************************************************)
(* The application layer services (xknx/telegram/apci.py).  Every service  *)
(* class is a layout: its code, what calculated_length answers, the sizes  *)
(* from_knx admits, the cells to_knx packs after the two octets of         *)
(* encode_cmd_and_payload, and the places from_knx reads the fields from.  *)
(* A message is a record of its service's name and its fields; lists of    *)
(* group addresses and 32 bit keys are kept as octets, flags as 0 or 1.    *)
(***************************************************************************)
EXTENDS Octets

\* A class whose length depends on the octet fields `var`; `low` is the part
\* that goes into the six low bits of the second octet.
Class(code, low, base, var, sizes, cells, fields) ==
    [code |-> code, low |-> low, base |-> base, var |-> var, sizes |-> sizes,
     cells |-> cells, fields |-> fields]
Svc(code, base, sizes, cells, fields) == Class(code, <<>>, base, {}, sizes, cells, fields)
SvcV(code, base, var, sizes, cells, fields) ==
    Class(code, <<>>, base, var, sizes, cells, fields)
Bare(code) == Svc(code, 1, {2}, <<>>, [f \in {} |-> 0])
AtLeast(n) == n..255

ReturnCodes == {0} \cup \hF1..\hFF

---------------------------------------------------------------------------
(* Group communication and addresses.  A group value has its own two forms, *)
(* see Encode and Decode.                                                   *)

GroupValueRead == Bare(\h000)
IndividualAddressWrite ==
    Svc(\h0C0, 3, {4}, <<U16("address")>>, [address |-> At16(2)])
IndividualAddressRead == Bare(\h100)
IndividualAddressResponse == Bare(\h140)

\* Low bits that nothing checks (ADC) and low bits checked to fit (the rest).
Low(f, hi) == <<Part(f, 0, Whole, 0, 0, hi)>>
LowBits == Bits(1, 1, 0, 6)

ADCRead ==
    Class(\h180, Low("channel", 255), 2, {}, {3}, <<U8("count")>>,
          [channel |-> LowBits, count |-> At8(2)])
ADCResponse ==
    Class(\h1C0, Low("channel", 255), 4, {}, {5}, <<U8("count"), U16("value")>>,
          [channel |-> LowBits, count |-> At8(2), value |-> At16(3)])

---------------------------------------------------------------------------
(* Extended properties: 16 bit object type, 12 bit instance, 12 bit id.     *)

ExtHeaderPack ==
    <<U16("interface_object_type"), Pair(3, "object_instance", 12, "property_id")>>
ExtHeaderUnpack ==
    [interface_object_type |-> At16(2), object_instance |-> Bits(4, 2, 4, 12),
     property_id |-> Bits(5, 2, 0, 12)]

FunctionPropertyExtCommand ==
    SvcV(\h1D4, 6, {"data"}, AtLeast(7), ExtHeaderPack \o <<Rest("data")>>,
         ExtHeaderUnpack @@ [data |-> Cut(7, 0)])
FunctionPropertyExtStateRead ==
    SvcV(\h1D5, 6, {"data"}, AtLeast(7), ExtHeaderPack \o <<Rest("data")>>,
         ExtHeaderUnpack @@ [data |-> Cut(7, 0)])
FunctionPropertyExtStateResponse ==
    SvcV(\h1D6, 7, {"data"}, AtLeast(8),
         ExtHeaderPack \o <<U8("return_code"), Rest("data")>>,
         ExtHeaderUnpack @@ [return_code |-> At8(7), data |-> Cut(8, 0)])

SystemHeaderPack ==
    <<U16("object_type"), Cell(2, <<Part("property_id", 0, Whole, 4, 0, 4095)>>)>>
SystemHeaderUnpack == [object_type |-> At16(2), property_id |-> Bits(4, 2, 4, 12)]

SystemNetworkParameterRead ==
    SvcV(\h1C8, 5, {"test_info"}, AtLeast(6), SystemHeaderPack \o <<Rest("test_info")>>,
         SystemHeaderUnpack @@ [test_info |-> Cut(6, 0)])
SystemNetworkParameterResponse ==
    SvcV(\h1C9, 5, {"test_info_and_result"}, AtLeast(6),
         SystemHeaderPack \o <<Rest("test_info_and_result")>>,
         SystemHeaderUnpack @@ [test_info_and_result |-> Cut(6, 0)])
SystemNetworkParameterWrite ==
    SvcV(\h1CA, 5, {"value"}, AtLeast(6), SystemHeaderPack \o <<Rest("value")>>,
         SystemHeaderUnpack @@ [value |-> Cut(6, 0)])

\* nr_of_elem and start_index after the header, "!BH" of raw[7:10].
ElementsPack == ExtHeaderPack \o <<U8("nr_of_elem"), U16("start_index")>>
ElementsUnpack == ExtHeaderUnpack @@ [nr_of_elem |-> At8(7), start_index |-> At16(8)]

PropertyExtValueRead == Svc(\h1CC, 9, {10}, ElementsPack, ElementsUnpack)
PropertyExtValueResponse ==
    SvcV(\h1CD, 9, {"data"}, AtLeast(10), ElementsPack \o <<Rest("data")>>,
         ElementsUnpack @@ [data |-> Cut(10, 0)])
PropertyExtValueWriteCon ==
    SvcV(\h1CE, 9, {"data"}, AtLeast(10), ElementsPack \o <<Rest("data")>>,
         ElementsUnpack @@ [data |-> Cut(10, 0)])
PropertyExtValueWriteConRes ==
    Svc(\h1CF, 10, {11}, ElementsPack \o <<U8("return_code")>>,
        ElementsUnpack @@ [return_code |-> At8(10)])
PropertyExtValueWriteUnCon ==
    SvcV(\h1D0, 9, {"data"}, AtLeast(10), ElementsPack \o <<Rest("data")>>,
         ElementsUnpack @@ [data |-> Cut(10, 0)])
PropertyExtValueInfoReport ==
    SvcV(\h1D1, 9, {"data"}, AtLeast(10), ElementsPack \o <<Rest("data")>>,
         ElementsUnpack @@ [data |-> Cut(10, 0)])

DescriptionPack == ExtHeaderPack \o <<Pair(2, "description_type", 12, "property_index")>>
DescriptionUnpack ==
    ExtHeaderUnpack @@ [description_type |-> Bits(7, 1, 4, 4),
                        property_index |-> Bits(7, 2, 0, 12)]

PropertyExtDescriptionRead == Svc(\h1D2, 8, {9}, DescriptionPack, DescriptionUnpack)
PropertyExtDescriptionResponse ==
    Svc(\h1D3, 16, {17},
        DescriptionPack \o
        << U16("dpt_main"), U16("dpt_sub"),
           Cell(1, <<Part("writable", 0, Whole, 7, 0, 1), Part("pdt", 0, Whole, 0, 0, 63)>>),
           U16("max_nr_of_elem"), Pair(1, "read_level", 4, "write_level") >>,
        DescriptionUnpack @@
        [dpt_main |-> At16(9), dpt_sub |-> At16(11), writable |-> Bits(13, 1, 7, 1),
         pdt |-> Bits(13, 1, 0, 6), max_nr_of_elem |-> At16(14),
         read_level |-> Bits(16, 1, 4, 4), write_level |-> Bits(16, 1, 0, 4)])

---------------------------------------------------------------------------
(* Memory.  The count of a write may differ from the octets it carries: it  *)
(* is only defaulted to their number.                                       *)

MemoryExtendedWrite ==
    SvcV(\h1FB, 5, {"data"}, AtLeast(6),
         <<Uint(1, "count", 0, 250), U24("address"), Rest("data")>>,
         [count |-> At8(2), address |-> At24(3), data |-> Cut(6, 0)])
MemoryExtendedWriteResponse ==
    SvcV(\h1FC, 5, {"confirmation_data"}, AtLeast(6),
         <<U8("return_code"), U24("address"), Rest("confirmation_data")>>,
         [return_code |-> At8(2), address |-> At24(3), confirmation_data |-> Cut(6, 0)])
MemoryExtendedRead ==
    Svc(\h1FD, 5, {6}, <<Uint(1, "count", 0, 250), U24("address")>>,
        [count |-> At8(2), address |-> At24(3)])
MemoryExtendedReadResponse ==
    SvcV(\h1FE, 5, {"data"}, AtLeast(6),
         <<U8("return_code"), U24("address"), Rest("data")>>,
         [return_code |-> At8(2), address |-> At24(3), data |-> Cut(6, 0)])

MemoryRead ==
    Class(\h200, Low("count", 63), 3, {}, {4}, <<U16("address")>>,
          [count |-> LowBits, address |-> At16(2)])
MemoryWrite ==
    Class(\h280, Low("count", 63), 3, {"data"}, AtLeast(4), <<U16("address"), Rest("data")>>,
          [count |-> LowBits, address |-> At16(2), data |-> Cut(4, 0)])
MemoryResponse ==
    Class(\h240, Low("count", 63), 3, {"data"}, AtLeast(4), <<U16("address"), Rest("data")>>,
          [count |-> LowBits, address |-> At16(2), data |-> Cut(4, 0)])

DeviceDescriptorRead ==
    Class(\h300, Low("descriptor", 63), 1, {}, {2}, <<>>, [descriptor |-> LowBits])
DeviceDescriptorResponse ==
    Class(\h340, Low("descriptor", 63), 3, {}, {4}, <<U16("value")>>,
          [descriptor |-> LowBits, value |-> At16(2)])
Restart == Bare(\h380)
RestartMasterReset ==
    Svc(\h381, 3, {4}, <<U8("erase_code"), U8("channel_number")>>,
        [erase_code |-> At8(2), channel_number |-> At8(3)])
RestartMasterResetResponse ==
    Svc(\h3A1, 4, {5}, <<U8("error_code"), U16("process_time")>>,
        [error_code |-> At8(2), process_time |-> At16(3)])

\* A 20 bit address around a 4 bit count: address[19:16] count address[15:0].
UserAddressPack ==
    << Cell(1, << Part("address", 16, 16, 4, 0, \hFFFFF), Part("count", 0, 16, 0, 0, 15) >>),
       Cell(2, << Part("address", 0, 65536, 0, 0, \hFFFFF) >>) >>
UserAddressUnpack ==
    [count |-> Bits(2, 1, 0, 4), address |-> Join(Bits(2, 1, 4, 4), 16, At16(3))]

UserMemoryRead ==
    Svc(\h2C0, 4, {5}, UserAddressPack, UserAddressUnpack)
UserMemoryWrite ==
    SvcV(\h2C2, 4, {"data"}, AtLeast(5), UserAddressPack \o <<Rest("data")>>,
         UserAddressUnpack @@ [data |-> Cut(5, 0)])
UserMemoryResponse ==
    SvcV(\h2C1, 4, {"data"}, AtLeast(5), UserAddressPack \o <<Rest("data")>>,
         UserAddressUnpack @@ [data |-> Cut(5, 0)])
UserManufacturerInfoRead == Bare(\h2C5)
UserManufacturerInfoResponse ==
    Svc(\h2C6, 4, {5}, <<U8("manufacturer_id"), Octs("data", {2})>>,
        [manufacturer_id |-> At8(2), data |-> Cut(3, 5)])

FunctionPropertyCommand ==
    SvcV(\h2C7, 3, {"data"}, AtLeast(4), <<U8("object_index"), U8("property_id"), Rest("data")>>,
         [object_index |-> At8(2), property_id |-> At8(3), data |-> Cut(4, 0)])
FunctionPropertyStateRead ==
    SvcV(\h2C8, 3, {"data"}, AtLeast(4), <<U8("object_index"), U8("property_id"), Rest("data")>>,
         [object_index |-> At8(2), property_id |-> At8(3), data |-> Cut(4, 0)])
FunctionPropertyStateResponse ==
    SvcV(\h2C9, 4, {"data"}, AtLeast(5),
         <<U8("object_index"), U8("property_id"), U8("return_code"), Rest("data")>>,
         [object_index |-> At8(2), property_id |-> At8(3), return_code |-> At8(4),
          data |-> Cut(5, 0)])

\* MemoryBitWrite and UserMemoryBitWrite: the number of octets, the address,
\* and_data and as many octets of xor_data (see Encodable and Accepts).
BitWrite(code, address) ==
    SvcV(code, 4, {"and_data", "xor_data"}, AtLeast(6),
         <<Count("and_data"), U16(address), Rest("and_data"), Rest("xor_data")>>,
         (address :> At16(3)) @@ [and_data |-> Share(5, 0, 2), xor_data |-> Share(5, 1, 2)])
UserMemoryBitWrite == BitWrite(\h2C4, "address")
MemoryBitWrite == BitWrite(\h3D0, "memory_address")

---------------------------------------------------------------------------
(* Coupler services.                                                        *)

FilterTableOpen == Bare(\h3C0)
FilterTableRead ==
    Svc(\h3C1, 4, {5}, <<Uint(1, "number", 1, 254), U16("filter_table_address")>>,
        [number |-> At8(2), filter_table_address |-> At16(3)])
FilterTableResponse ==
    SvcV(\h3C2, 4, {"data"}, AtLeast(5),
         <<Uint(1, "number", 0, 254), U16("filter_table_address"), Rest("data")>>,
         [number |-> At8(2), filter_table_address |-> At16(3), data |-> Cut(5, 0)])
FilterTableWrite ==
    SvcV(\h3C3, 4, {"data"}, AtLeast(6),
         <<Uint(1, "number", 1, 254), U16("filter_table_address"), Rest("data")>>,
         [number |-> At8(2), filter_table_address |-> At16(3), data |-> Cut(5, 0)])
RouterMemoryRead ==
    Svc(\h3C8, 4, {5}, <<Uint(1, "number", 1, 254), U16("memory_address")>>,
        [number |-> At8(2), memory_address |-> At16(3)])
RouterMemoryResponse ==
    SvcV(\h3C9, 4, {"data"}, AtLeast(5),
         <<Uint(1, "number", 0, 254), U16("memory_address"), Rest("data")>>,
         [number |-> At8(2), memory_address |-> At16(3), data |-> Cut(5, 0)])
RouterMemoryWrite ==
    SvcV(\h3CA, 4, {"data"}, AtLeast(6),
         <<Uint(1, "number", 1, 254), U16("memory_address"), Rest("data")>>,
         [number |-> At8(2), memory_address |-> At16(3), data |-> Cut(5, 0)])
\* RouterStatusRead, -Response and -Write refuse every frame as unsupported.
RouterStatus == {\h3CD, \h3CE, \h3CF}

AuthorizeRequest ==
    Svc(\h3D1, 6, {7}, <<Fixed(<<0>>), Octs("key", {4})>>, [key |-> Cut(3, 7)])
AuthorizeResponse == Svc(\h3D2, 2, {3}, <<U8("level")>>, [level |-> At8(2)])
KeyWrite ==
    Svc(\h3D3, 6, {7}, <<U8("level"), Octs("key", {4})>>, [level |-> At8(2), key |-> Cut(3, 7)])
KeyResponse == Svc(\h3D4, 2, {3}, <<U8("level")>>, [level |-> At8(2)])

---------------------------------------------------------------------------
(* Properties.  start_index is not checked: what does not fit into 12 bits  *)
(* is added to the count.                                                   *)

PropertyPack ==
    << U8("object_index"), U8("property_id"),
       Cell(2, << Part("count", 0, Whole, 12, 0, 15),
                  Part("start_index", 0, Whole, 0, 0, 65535) >>) >>
\* Mutant: the high bits of the index are forgotten.
PropertyUnpackShort ==
    [object_index |-> At8(2), property_id |-> At8(3), count |-> Bits(4, 1, 4, 4),
     start_index |-> At8(5)]
PropertyUnpack ==
    [object_index |-> At8(2), property_id |-> At8(3), count |-> Bits(4, 1, 4, 4),
     start_index |-> Join(Bits(4, 1, 0, 4), 8, At8(5))]

PropertyValueRead == Svc(\h3D5, 5, {6}, PropertyPack, PropertyUnpack)
PropertyValueWrite ==
    SvcV(\h3D7, 5, {"data"}, AtLeast(6), PropertyPack \o <<Rest("data")>>,
         PropertyUnpack @@ [data |-> Cut(6, 0)])
PropertyValueResponse ==
    SvcV(\h3D6, 5, {"data"}, AtLeast(6), PropertyPack \o <<Rest("data")>>,
         PropertyUnpack @@ [data |-> Cut(6, 0)])
PropertyDescriptionRead ==
    Svc(\h3D8, 4, {5}, <<U8("object_index"), U8("property_id"), U8("property_index")>>,
        [object_index |-> At8(2), property_id |-> At8(3), property_index |-> At8(4)])
PropertyDescriptionResponse ==
    Svc(\h3D9, 8, {9},
        << U8("object_index"), U8("property_id"), U8("property_index"), U8("type_"),
           Uint(2, "max_count", 0, 4095), U8("access") >>,
        [object_index |-> At8(2), property_id |-> At8(3), property_index |-> At8(4),
         type_ |-> At8(5), max_count |-> Bits(6, 2, 0, 12), access |-> At8(8)])

NetworkHeaderPack == <<U16("object_type"), U8("property_id")>>
NetworkHeaderUnpack == [object_type |-> At16(2), property_id |-> At8(4)]
NetworkParameterRead ==
    SvcV(\h3DA, 4, {"test_info"}, AtLeast(5), NetworkHeaderPack \o <<Rest("test_info")>>,
         NetworkHeaderUnpack @@ [test_info |-> Cut(5, 0)])
NetworkParameterResponse ==
    SvcV(\h3DB, 4, {"test_info_and_result"}, AtLeast(5),
         NetworkHeaderPack \o <<Rest("test_info_and_result")>>,
         NetworkHeaderUnpack @@ [test_info_and_result |-> Cut(5, 0)])
NetworkParameterWrite ==
    SvcV(\h3E4, 4, {"value"}, AtLeast(5), NetworkHeaderPack \o <<Rest("value")>>,
         NetworkHeaderUnpack @@ [value |-> Cut(5, 0)])

\* Mutant: a slice without the check of the length.
IndividualAddressSerialReadUnchecked ==
    Svc(\h3DC, 7, AtLeast(2), <<Octs("serial", {6})>>, [serial |-> Cut(2, 8)])
IndividualAddressSerialRead ==
    Svc(\h3DC, 7, {8}, <<Octs("serial", {6})>>, [serial |-> Cut(2, 8)])
IndividualAddressSerialResponse ==
    Svc(\h3DD, 11, {12}, <<Octs("serial", {6}), U16("address"), Fixed(Zeros(2))>>,
        [serial |-> Cut(2, 8), address |-> At16(8)])
IndividualAddressSerialWrite ==
    Svc(\h3DE, 13, {14}, <<Octs("serial", {6}), U16("address"), Fixed(Zeros(4))>>,
        [serial |-> Cut(2, 8), address |-> At16(8)])

---------------------------------------------------------------------------
(* Open media, links and group properties.                                  *)

DomainAddressWrite ==
    SvcV(\h3E0, 1, {"domain_address"}, {4, 8}, <<Octs("domain_address", {2, 6})>>,
         [domain_address |-> Cut(2, 0)])
DomainAddressRead == Bare(\h3E1)
DomainAddressResponse ==
    SvcV(\h3E2, 1, {"domain_address"}, {4, 8}, <<Octs("domain_address", {2, 6})>>,
         [domain_address |-> Cut(2, 0)])
DomainAddressSelectiveRead ==
    SvcV(\h3E3, 1, {"asdu"}, AtLeast(3), <<Octs("asdu", 1..14)>>, [asdu |-> Cut(2, 0)])

LinkRead ==
    Svc(\h3E5, 3, {4}, <<U8("group_object_number"), Uint(1, "start_index", 0, 15)>>,
        [group_object_number |-> At8(2), start_index |-> Bits(3, 1, 0, 4)])
LinkResponse ==
    SvcV(\h3E6, 3, {"group_address_list"}, {4 + 2 * k : k \in 0..6},
         << U8("group_object_number"), Pair(1, "sending_address", 4, "start_index"),
            Octs("group_address_list", {2 * k : k \in 0..6}) >>,
         [group_object_number |-> At8(2), sending_address |-> Bits(3, 1, 4, 4),
          start_index |-> Bits(3, 1, 0, 4), group_address_list |-> Cut(4, 0)])
LinkWrite ==
    Svc(\h3E7, 5, {6},
        << U8("group_object_number"),
           Cell(1, <<Part("delete", 0, Whole, 1, 0, 1), Part("sending", 0, Whole, 0, 0, 1)>>),
           U16("group_address") >>,
        [group_object_number |-> At8(2), group_address |-> At16(4),
         delete |-> Bits(3, 1, 1, 1), sending |-> Bits(3, 1, 0, 1)])

GroupPropPack == <<U16("object_type"), U8("object_instance"), U8("property_id")>>
GroupPropUnpack == [object_type |-> At16(2), object_instance |-> At8(4), property_id |-> At8(5)]
GroupPropValueRead == Svc(\h3E8, 5, {6}, GroupPropPack, GroupPropUnpack)
GroupPropValueResponse ==
    SvcV(\h3E9, 5, {"data"}, AtLeast(6), GroupPropPack \o <<Rest("data")>>,
         GroupPropUnpack @@ [data |-> Cut(6, 0)])
GroupPropValueWrite ==
    SvcV(\h3EA, 5, {"data"}, AtLeast(6), GroupPropPack \o <<Rest("data")>>,
         GroupPropUnpack @@ [data |-> Cut(6, 0)])
GroupPropValueInfoReport ==
    SvcV(\h3EB, 5, {"data"}, AtLeast(6), GroupPropPack \o <<Rest("data")>>,
         GroupPropUnpack @@ [data |-> Cut(6, 0)])

DomainAddressSerialNumberRead ==
    Svc(\h3EC, 7, {8}, <<Octs("serial", {6})>>, [serial |-> Cut(2, 8)])
DomainAddressSerialNumberResponse ==
    SvcV(\h3ED, 7, {"domain_address"}, {10, 14},
         <<Octs("serial", {6}), Octs("domain_address", {2, 6})>>,
         [serial |-> Cut(2, 8), domain_address |-> Cut(8, 0)])
\* `security` is routing_security_version and backbone_key, 17 octets or none;
\* see Encodable and Decode for when it may be there.
DomainAddressSerialNumberWrite ==
    SvcV(\h3EE, 7, {"domain_address", "security"}, {10, 12, 14, 29},
         <<Octs("serial", {6}), Octs("domain_address", {2, 4, 6}), Octs("security", {0, 17})>>,
         [serial |-> Cut(2, 8), domain_address |-> Cut(8, 0), security |-> Cut(29, 0)])

FileStreamInfoReport ==
    SvcV(\h3F0, 2, {"file_block"}, AtLeast(3),
         <<Pair(1, "file_handle", 4, "file_block_seq_number"), Rest("file_block")>>,
         [file_handle |-> Bits(2, 1, 4, 4), file_block_seq_number |-> Bits(2, 1, 0, 4),
          file_block |-> Cut(3, 0)])

\* The Data Secure envelope: control field, sequence number, APDU and MAC.
SecurityControlFieldPack ==
    Cell(1, << Part("tool_access", 0, Whole, 7, 0, 1), Part("algorithm", 0, Whole, 4, 0, 1),
               Part("system_broadcast", 0, Whole, 3, 0, 1), Part("sal_service", 0, Whole, 0, 0, 3) >>)
SecurityControlFieldUnpack ==
    [tool_access |-> Bits(2, 1, 7, 1), algorithm |-> Bits(2, 1, 4, 3),
     system_broadcast |-> Bits(2, 1, 3, 1), sal_service |-> Bits(2, 1, 0, 3)]
SecureAPDU ==
    SvcV(\h3F1, 12, {"secured_apdu"}, AtLeast(13),
         << SecurityControlFieldPack, Octs("sequence_number_bytes", {6}),
            Rest("secured_apdu"), Octs("message_authentication_code", {4}) >>,
         SecurityControlFieldUnpack @@
         [sequence_number_bytes |-> Cut(3, 9), secured_apdu |-> Cut(9, -4),
          message_authentication_code |-> Cut(-4, 0)])

---------------------------------------------------------------------------
(* A group value is a DPTBinary in the six low bits or a DPTArray appended  *)
(* as octets; `value` is <<n>> for the first, the octets for the second.    *)

GroupValueWrite == Class(\h080, <<>>, 1, {}, AtLeast(2), <<>>, [f \in {} |-> 0])
GroupValueResponse == Class(\h040, <<>>, 1, {}, AtLeast(2), <<>>, [f \in {} |-> 0])
GroupValues == {"GroupValueWrite", "GroupValueResponse"}

\* The service classes.
Layout ==
    [GroupValueRead |-> GroupValueRead, IndividualAddressWrite |-> IndividualAddressWrite,
     IndividualAddressRead |-> IndividualAddressRead,
     IndividualAddressResponse |-> IndividualAddressResponse, ADCRead |-> ADCRead,
     ADCResponse |-> ADCResponse, FunctionPropertyExtCommand |-> FunctionPropertyExtCommand,
     FunctionPropertyExtStateRead |-> FunctionPropertyExtStateRead,
     FunctionPropertyExtStateResponse |-> FunctionPropertyExtStateResponse,
     SystemNetworkParameterRead |-> SystemNetworkParameterRead,
     SystemNetworkParameterResponse |-> SystemNetworkParameterResponse,
     SystemNetworkParameterWrite |-> SystemNetworkParameterWrite,
     PropertyExtValueRead |-> PropertyExtValueRead,
     PropertyExtValueResponse |-> PropertyExtValueResponse,
     PropertyExtValueWriteCon |-> PropertyExtValueWriteCon,
     PropertyExtValueWriteConRes |-> PropertyExtValueWriteConRes,
     PropertyExtValueWriteUnCon |-> PropertyExtValueWriteUnCon,
     PropertyExtValueInfoReport |-> PropertyExtValueInfoReport,
     PropertyExtDescriptionRead |-> PropertyExtDescriptionRead,
     PropertyExtDescriptionResponse |-> PropertyExtDescriptionResponse,
     MemoryExtendedWrite |-> MemoryExtendedWrite,
     MemoryExtendedWriteResponse |-> MemoryExtendedWriteResponse,
     MemoryExtendedRead |-> MemoryExtendedRead,
     MemoryExtendedReadResponse |-> MemoryExtendedReadResponse, MemoryRead |-> MemoryRead,
     MemoryWrite |-> MemoryWrite, MemoryResponse |-> MemoryResponse,
     DeviceDescriptorRead |-> DeviceDescriptorRead,
     DeviceDescriptorResponse |-> DeviceDescriptorResponse, Restart |-> Restart,
     RestartMasterReset |-> RestartMasterReset,
     RestartMasterResetResponse |-> RestartMasterResetResponse, UserMemoryRead |-> UserMemoryRead,
     UserMemoryWrite |-> UserMemoryWrite, UserMemoryResponse |-> UserMemoryResponse,
     UserManufacturerInfoRead |-> UserManufacturerInfoRead,
     UserManufacturerInfoResponse |-> UserManufacturerInfoResponse,
     FunctionPropertyCommand |-> FunctionPropertyCommand,
     FunctionPropertyStateRead |-> FunctionPropertyStateRead,
     FunctionPropertyStateResponse |-> FunctionPropertyStateResponse,
     UserMemoryBitWrite |-> UserMemoryBitWrite, MemoryBitWrite |-> MemoryBitWrite,
     FilterTableOpen |-> FilterTableOpen, FilterTableRead |-> FilterTableRead,
     FilterTableResponse |-> FilterTableResponse, FilterTableWrite |-> FilterTableWrite,
     RouterMemoryRead |-> RouterMemoryRead, RouterMemoryResponse |-> RouterMemoryResponse,
     RouterMemoryWrite |-> RouterMemoryWrite, AuthorizeRequest |-> AuthorizeRequest,
     AuthorizeResponse |-> AuthorizeResponse, KeyWrite |-> KeyWrite, KeyResponse |-> KeyResponse,
     PropertyValueRead |-> PropertyValueRead, PropertyValueWrite |-> PropertyValueWrite,
     PropertyValueResponse |-> PropertyValueResponse,
     PropertyDescriptionRead |-> PropertyDescriptionRead,
     PropertyDescriptionResponse |-> PropertyDescriptionResponse,
     NetworkParameterRead |-> NetworkParameterRead,
     NetworkParameterResponse |-> NetworkParameterResponse,
     NetworkParameterWrite |-> NetworkParameterWrite,
     IndividualAddressSerialRead |-> IndividualAddressSerialRead,
     IndividualAddressSerialResponse |-> IndividualAddressSerialResponse,
     IndividualAddressSerialWrite |-> IndividualAddressSerialWrite,
     DomainAddressWrite |-> DomainAddressWrite, DomainAddressRead |-> DomainAddressRead,
     DomainAddressResponse |-> DomainAddressResponse,
     DomainAddressSelectiveRead |-> DomainAddressSelectiveRead, LinkRead |-> LinkRead,
     LinkResponse |-> LinkResponse, LinkWrite |-> LinkWrite, GroupPropValueRead |-> GroupPropValueRead,
     GroupPropValueResponse |-> GroupPropValueResponse, GroupPropValueWrite |-> GroupPropValueWrite,
     GroupPropValueInfoReport |-> GroupPropValueInfoReport,
     DomainAddressSerialNumberRead |-> DomainAddressSerialNumberRead,
     DomainAddressSerialNumberResponse |-> DomainAddressSerialNumberResponse,
     DomainAddressSerialNumberWrite |-> DomainAddressSerialNumberWrite,
     FileStreamInfoReport |-> FileStreamInfoReport, SecureAPDU |-> SecureAPDU,
     GroupValueWrite |-> GroupValueWrite, GroupValueResponse |-> GroupValueResponse]
Services == DOMAIN Layout

\* Services recognised by the four bits of the service alone; every other one
\* only by all ten bits.
FourBit ==
    {"GroupValueRead", "GroupValueResponse", "GroupValueWrite", "IndividualAddressWrite",
     "IndividualAddressRead", "IndividualAddressResponse", "ADCRead", "ADCResponse",
     "MemoryRead", "MemoryResponse", "MemoryWrite", "DeviceDescriptorRead",
     "DeviceDescriptorResponse", "Restart"}

\* The class APCI.from_knx hands the APDU to; {} when none is implemented.
Resolve(layout, apci) ==
    LET exact == {s \in DOMAIN layout \ FourBit : layout[s].code = apci}
        class == {s \in FourBit : layout[s].code = apci - (apci % 64)}
    IN  IF exact # {} THEN exact ELSE class

---------------------------------------------------------------------------
(* A message is [service, form, data]; form is "" but for group values.     *)

BitWrites == {"MemoryBitWrite", "UserMemoryBitWrite"}

LengthOf(m, l) ==
    LET var == {"value" : x \in {m.form} \cap {"DPTArray"}} \cup l.var
    IN  FoldSet(LAMBDA f, acc : acc + Len(m.data[f]), l.base, var)
CalculatedLength(m) == LengthOf(m, Layout[m.service])

\* to_knx raises no ConversionError (nor struct.error).
Fits(m, l) ==
    /\ Packable(m.data, l.cells)
    /\ \A i \in 1..Len(l.low) : m.data[l.low[i].f] \in l.low[i].lo .. l.low[i].hi
    /\ m.service \in BitWrites => Len(m.data.xor_data) = Len(m.data.and_data)
    /\ m.service = "DomainAddressSerialNumberWrite" =>
          m.data.security = <<>> \/ Len(m.data.domain_address) = 4
Encodable(m) == Fits(m, Layout[m.service])

\* encode_cmd_and_payload: the six low bits are masked, not checked.
EncodeCmdAndPayload(code, low, appended) ==
    <<code \div 256, (code % 256) + (low % 64)>> \o appended

Encode(m, l) ==
    CASE m.form = "DPTBinary" -> EncodeCmdAndPayload(l.code, m.data.value[1], <<>>)
      [] m.form = "DPTArray" -> EncodeCmdAndPayload(l.code, 0, m.data.value)
      [] OTHER -> EncodeCmdAndPayload(l.code, CellValue(m.data, [parts |-> l.low]),
                                      Pack(m.data, l.cells))
ToKnx(m) == Encode(m, Layout[m.service])

\* The checks of the class's from_knx: the length, and the values of enums.
Accepts(s, sizes, raw) ==
    /\ Len(raw) \in sizes
    /\ s \in BitWrites => Len(raw) = 5 + 2 * raw[3]
    /\ s = "FunctionPropertyExtStateResponse" => raw[8] \in ReturnCodes
    /\ s = "PropertyExtValueWriteConRes" => raw[11] \in ReturnCodes
    /\ s = "SecureAPDU" => /\ (raw[3] \div 16) % 8 \in {0, 1}
                           /\ raw[3] % 8 \in {0, 1, 3}

Parsed(s, fields, raw) ==
    CASE s \in GroupValues /\ Len(raw) = 2 ->
            [service |-> s, form |-> "DPTBinary", data |-> [value |-> <<raw[2] % 64>>]]
      [] s \in GroupValues /\ Len(raw) > 2 ->
            [service |-> s, form |-> "DPTArray", data |-> [value |-> From(raw, 2)]]
      [] s = "DomainAddressSerialNumberWrite" /\ Len(raw) = 29 ->
            [service |-> s, form |-> "",
             data |-> [serial |-> Slice(raw, 2, 8), domain_address |-> Slice(raw, 8, 12),
                       security |-> Slice(raw, 12, 29)]]
      [] OTHER -> [service |-> s, form |-> "", data |-> Unpack(raw, fields)]

\* APCI.from_knx: a message, "conversion" (ConversionError) or "unsupported"
\* (UnsupportedAPCIService).
Decode(layout, raw) ==
    LET found == Resolve(layout, (raw[1] % 4) * 256 + raw[2])
        s == CHOOSE s \in found : TRUE
    IN  IF found = {} THEN [kind |-> "unsupported"]
        ELSE IF Accepts(s, layout[s].sizes, raw)
        THEN [kind |-> "ok", message |-> Parsed(s, layout[s].fields, raw)]
        ELSE [kind |-> "conversion"]
FromKnx(raw) == IF Len(raw) < 2 THEN [kind |-> "conversion"] ELSE Decode(Layout, raw)

---------------------------------------------------------------------------
(* Bounded inputs: the messages that can be constructed.                    *)

EnumsValid(s, d) ==
    /\ s \in {"FunctionPropertyExtStateResponse", "PropertyExtValueWriteConRes"} =>
          d.return_code \in ReturnCodes
    /\ s = "SecureAPDU" => /\ d.algorithm \in {0, 1} /\ d.sal_service \in {0, 1, 3}
                           /\ d.tool_access \in {0, 1} /\ d.system_broadcast \in {0, 1}

Messages(s) ==
    IF s \in GroupValues
    THEN {[service |-> s, form |-> "DPTBinary", data |-> [value |-> <<n>>]] : n \in {0, 1, 63}}
         \cup {[service |-> s, form |-> "DPTArray", data |-> [value |-> v]] :
                  v \in {<<>>, <<0>>, Pattern(1), Pattern(14), Pattern(15)}}
    ELSE LET Cells(l) == (IF l.low = <<>> THEN <<>> ELSE <<Cell(1, l.low)>>) \o l.cells
         IN  {[service |-> s, form |-> "", data |-> d] :
                 d \in {x \in Samples(Cells(Layout[s])) : EnumsValid(s, x)}}
=============================================================================
