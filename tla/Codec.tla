------------------------------- MODULE Codec -------------------------------
(***************************************************************************)
(* The PDU codecs: what new / accept / reject put in command_length, what  *)
(* encode writes, how the receiver frames the octets and what decode makes *)
(* of them.  Every codec is transcribed three times, from three places of  *)
(* the source: the fields its encode writes, the fields its decode reads   *)
(* and the fields its command_length counts.  Whether the three agree is   *)
(* what is checked.                                                        *)
(*                                                                         *)
(* A PDU is a record [cmd, ok, seq, f]: ok says that command_status is     *)
(* ESME_ROK, f maps the name of every field the application fills in to    *)
(* its value.  A string, a message or a TLV value is a sequence of octets, *)
(* an optional field is a sequence of length at most one.  The header has  *)
(* its 16 octets; only the moduli of the two casts are scaled down.        *)
(* Strings are kept below every length limit of the constructors.  They    *)
(* are UTF-8, as every Rust String is: what from_utf8_lossy makes of other *)
(* octets a foreign peer may send is left out.                             *)
(***************************************************************************)
EXTENDS Naturals, Sequences, SequencesExt

CONSTANTS
    U8Mod,       \* `as u8' of a count keeps it modulo this (256)
    U16Mod,      \* `as u16' of a TLV length keeps it modulo this (65536)
    MaxPduLen,   \* MAX_PDU_LEN (1 MiB)
    Pdus,        \* the PDUs applications build
    Scripts,     \* the sequences of PDUs the sender may have to send
    MaxCut       \* octets a faulty peer may leave out at the end of a PDU

ASSUME CodecAssumption ==
    /\ {U8Mod, U16Mod, MaxPduLen, MaxCut} \subseteq Nat
    /\ 2 < U8Mod /\ U8Mod <= 256 /\ 1 < U16Mod /\ U16Mod <= 65536
    /\ 16 <= MaxPduLen /\ MaxPduLen \div 65536 < 32768     \* below 2^31
    /\ Scripts \subseteq Seq(Pdus)

VARIABLES
    script,   \* the PDUs the sender has yet to send
    wire,     \* the octets the receiver has yet to frame
    sent,     \* what was put on the wire: [pdu, cut], cut octets left out
    got,      \* what the receiver's decode made of each frame
    open      \* whether the receiver still reads

vars == <<script, wire, sent, got, open>>

-----------------------------------------------------------------------------
(* The fields, by name.  Those of no other kind are single octets.         *)

CStrings ==
    {"service_type", "source_addr", "destination_addr", "esme_addr",
     "schedule_delivery_time", "validity_period", "message_id", "final_date",
     "system_id", "password", "system_type", "address_range"}

Src  == <<"source_addr_ton", "source_addr_npi", "source_addr">>
Dst  == <<"dest_addr_ton", "dest_addr_npi", "destination_addr">>
When == <<"schedule_delivery_time", "validity_period">>
How  == <<"esm_class", "protocol_id", "priority_flag">>
Opts == <<"registered_delivery", "replace_if_present_flag", "data_coding",
          "sm_default_msg_id">>

submit_sm_encode ==
    <<"service_type">> \o Src \o Dst \o How \o When \o Opts
      \o <<"short_message", "tlvs">>
submit_sm_decode ==
    <<"service_type">> \o Src \o Dst \o How \o When \o Opts
      \o <<"short_message", "tlvs">>
submit_sm_length ==
    <<"service_type">> \o Src \o Dst \o How \o When \o Opts
      \o <<"short_message", "tlvs">>

deliver_sm_encode ==
    <<"service_type">> \o Src \o Dst \o How \o When \o Opts
      \o <<"short_message", "tlvs">>
deliver_sm_decode ==
    <<"service_type">> \o Src \o Dst \o How \o When \o Opts
      \o <<"short_message", "tlvs">>
deliver_sm_length ==
    <<"service_type">> \o Src \o Dst \o How \o When \o Opts
      \o <<"short_message", "tlvs">>

submit_multi_encode ==
    <<"service_type">> \o Src \o <<"dest_addresses">> \o How \o When \o Opts
      \o <<"short_message", "tlvs">>
parse_submit_sm_multi ==
    <<"service_type">> \o Src \o <<"dest_addresses">> \o How \o When \o Opts
      \o <<"short_message", "tlvs">>
submit_multi_base_len ==
    <<"service_type">> \o Src \o <<"dest_addresses">> \o How \o When \o Opts
      \o <<"short_message", "tlvs">>

data_sm_encode ==
    <<"service_type">> \o Src \o Dst
      \o <<"esm_class", "registered_delivery", "data_coding", "tlvs">>
data_sm_decode ==
    <<"service_type">> \o Src \o Dst
      \o <<"esm_class", "registered_delivery", "data_coding", "tlvs">>
data_sm_length ==
    <<"service_type">> \o Src \o Dst
      \o <<"esm_class", "registered_delivery", "data_coding", "tlvs">>

query_sm_encode == <<"message_id">> \o Src
query_sm_decode == <<"message_id">> \o Src
query_sm_new    == <<"message_id">> \o Src

replace_sm_encode ==
    <<"message_id">> \o Src \o When
      \o <<"registered_delivery", "sm_default_msg_id", "short_message">>
replace_sm_decode ==
    <<"message_id">> \o Src \o When
      \o <<"registered_delivery", "sm_default_msg_id", "short_message">>
replace_sm_new ==
    <<"message_id">> \o Src \o When
      \o <<"registered_delivery", "sm_default_msg_id", "short_message">>

\* command_length of cancel_sm leaves message_id out.
cancel_sm_encode == <<"service_type", "message_id">> \o Src \o Dst
parse_cancel_sm  == <<"service_type", "message_id">> \o Src \o Dst
cancel_sm_new    == <<"service_type">> \o Src \o Dst

EsmeAddr == <<"esme_addr_ton", "esme_addr_npi", "esme_addr">>

alert_notification_encode   == Src \o EsmeAddr \o <<"ms_availability_status">>
parse_alert_notification    == Src \o EsmeAddr \o <<"ms_availability_status">>
alert_notification_new      == Src \o EsmeAddr \o <<"ms_availability_status">>

\* interface_version is the constant 0x34.
encode_bind_request ==
    <<"system_id", "password", "system_type", "interface_version",
      "addr_ton", "addr_npi", "address_range">>
decode_bind_request ==
    <<"system_id", "password", "system_type", "interface_version",
      "addr_ton", "addr_npi", "address_range">>
bind_new ==
    <<"system_id", "password", "system_type", "interface_version",
      "addr_ton", "addr_npi", "address_range">>

encode_bind_response == <<"system_id", "sc_interface_version">>
bind_resp_decode     == <<"system_id", "sc_interface_version">>
bind_accept          == <<"system_id", "sc_interface_version">>

outbind_encode == <<"system_id", "password">>
outbind_decode == <<"system_id", "password">>
outbind_new    == <<"system_id", "password">>

query_sm_resp_encode == <<"message_id", "final_date", "message_state",
                          "error_code">>
query_sm_resp_decode == <<"message_id", "final_date", "message_state",
                          "error_code">>
query_sm_accept      == <<"message_id", "final_date", "message_state",
                          "error_code">>

submit_multi_resp_encode == <<"message_id", "unsuccess_sme">>
submit_multi_resp_decode == <<"message_id", "unsuccess_sme">>
submit_multi_accept      == <<"message_id", "unsuccess_sme">>

submit_sm_resp_encode == <<"message_id">>
submit_sm_resp_decode == <<"message_id">>
submit_sm_accept      == <<"message_id">>

\* deliver_sm_resp writes the NUL of message_id whatever the status.
deliver_sm_resp_encode == <<"message_id">>
deliver_sm_resp_decode == <<"message_id">>
deliver_sm_accept      == <<"message_id">>

\* A refused data_sm_resp has no message_id, and still its TLVs.
data_sm_resp_encode(ok) == IF ok THEN <<"message_id", "tlvs">> ELSE <<"tlvs">>
data_sm_resp_decode(ok) == IF ok THEN <<"message_id", "tlvs">> ELSE <<"tlvs">>
data_sm_resp_length(ok) == IF ok THEN <<"message_id", "tlvs">> ELSE <<"tlvs">>

-----------------------------------------------------------------------------
(* The commands: the low octets of the command_id, and the three lists.    *)

Binds == {"bind_receiver", "bind_transmitter", "bind_transceiver"}
BindResps ==
    {"bind_receiver_resp", "bind_transmitter_resp", "bind_transceiver_resp"}
HeaderOnly ==
    {"unbind", "unbind_resp", "enquire_link", "enquire_link_resp",
     "generic_nack", "cancel_sm_resp", "replace_sm_resp"}

CommandId ==
    [bind_receiver |-> <<0, 1>>, bind_receiver_resp |-> <<128, 1>>,
     bind_transmitter |-> <<0, 2>>, bind_transmitter_resp |-> <<128, 2>>,
     query_sm |-> <<0, 3>>, query_sm_resp |-> <<128, 3>>,
     submit_sm |-> <<0, 4>>, submit_sm_resp |-> <<128, 4>>,
     deliver_sm |-> <<0, 5>>, deliver_sm_resp |-> <<128, 5>>,
     unbind |-> <<0, 6>>, unbind_resp |-> <<128, 6>>,
     replace_sm |-> <<0, 7>>, replace_sm_resp |-> <<128, 7>>,
     cancel_sm |-> <<0, 8>>, cancel_sm_resp |-> <<128, 8>>,
     bind_transceiver |-> <<0, 9>>, bind_transceiver_resp |-> <<128, 9>>,
     outbind |-> <<0, 11>>, enquire_link |-> <<0, 21>>,
     enquire_link_resp |-> <<128, 21>>, generic_nack |-> <<128, 0>>,
     submit_multi |-> <<0, 33>>, submit_multi_resp |-> <<128, 33>>,
     alert_notification |-> <<0, 258>>,
     data_sm |-> <<0, 259>>, data_sm_resp |-> <<128, 259>>]

Commands == DOMAIN CommandId
Resps ==
    BindResps \cup
    {"query_sm_resp", "submit_sm_resp", "submit_multi_resp",
     "deliver_sm_resp", "data_sm_resp"}

\* The fields encode writes after the header: a refusal has none, but for
\* deliver_sm_resp and data_sm_resp.
Written(cmd, ok) ==
    IF ~ok /\ cmd \in Resps \ {"deliver_sm_resp", "data_sm_resp"} THEN <<>> ELSE
    CASE cmd \in HeaderOnly          -> <<>>
      [] cmd = "deliver_sm_resp"     -> deliver_sm_resp_encode
      [] cmd = "data_sm_resp"        -> data_sm_resp_encode(ok)
      [] cmd \in Binds               -> encode_bind_request
      [] cmd \in BindResps           -> encode_bind_response
      [] cmd = "outbind"             -> outbind_encode
      [] cmd = "submit_sm"           -> submit_sm_encode
      [] cmd = "submit_sm_resp"      -> submit_sm_resp_encode
      [] cmd = "deliver_sm"          -> deliver_sm_encode
      [] cmd = "submit_multi"        -> submit_multi_encode
      [] cmd = "submit_multi_resp"   -> submit_multi_resp_encode
      [] cmd = "data_sm"             -> data_sm_encode
      [] cmd = "query_sm"            -> query_sm_encode
      [] cmd = "query_sm_resp"       -> query_sm_resp_encode
      [] cmd = "replace_sm"          -> replace_sm_encode
      [] cmd = "cancel_sm"           -> cancel_sm_encode
      [] cmd = "alert_notification"  -> alert_notification_encode

\* The fields decode reads; none on a refusal, but for data_sm_resp.
Read(cmd, ok) ==
    IF ~ok /\ cmd \in Resps \ {"data_sm_resp"} THEN <<>> ELSE
    CASE cmd \in HeaderOnly          -> <<>>
      [] cmd = "data_sm_resp"        -> data_sm_resp_decode(ok)
      [] cmd = "deliver_sm_resp"     -> deliver_sm_resp_decode
      [] cmd \in Binds               -> decode_bind_request
      [] cmd \in BindResps           -> bind_resp_decode
      [] cmd = "outbind"             -> outbind_decode
      [] cmd = "submit_sm"           -> submit_sm_decode
      [] cmd = "submit_sm_resp"      -> submit_sm_resp_decode
      [] cmd = "deliver_sm"          -> deliver_sm_decode
      [] cmd = "submit_multi"        -> parse_submit_sm_multi
      [] cmd = "submit_multi_resp"   -> submit_multi_resp_decode
      [] cmd = "data_sm"             -> data_sm_decode
      [] cmd = "query_sm"            -> query_sm_decode
      [] cmd = "query_sm_resp"       -> query_sm_resp_decode
      [] cmd = "replace_sm"          -> replace_sm_decode
      [] cmd = "cancel_sm"           -> parse_cancel_sm
      [] cmd = "alert_notification"  -> parse_alert_notification

\* The fields command_length counts: 16 alone for a refusal.
Counted(cmd, ok) ==
    IF ~ok /\ cmd \in Resps \ {"data_sm_resp"} THEN <<>> ELSE
    CASE cmd \in HeaderOnly          -> <<>>
      [] cmd = "data_sm_resp"        -> data_sm_resp_length(ok)
      [] cmd = "deliver_sm_resp"     -> deliver_sm_accept
      [] cmd \in Binds               -> bind_new
      [] cmd \in BindResps           -> bind_accept
      [] cmd = "outbind"             -> outbind_new
      [] cmd = "submit_sm"           -> submit_sm_length
      [] cmd = "submit_sm_resp"      -> submit_sm_accept
      [] cmd = "deliver_sm"          -> deliver_sm_length
      [] cmd = "submit_multi"        -> submit_multi_base_len
      [] cmd = "submit_multi_resp"   -> submit_multi_accept
      [] cmd = "data_sm"             -> data_sm_length
      [] cmd = "query_sm"            -> query_sm_new
      [] cmd = "query_sm_resp"       -> query_sm_accept
      [] cmd = "replace_sm"          -> replace_sm_new
      [] cmd = "cancel_sm"           -> cancel_sm_new
      [] cmd = "alert_notification"  -> alert_notification_new

-----------------------------------------------------------------------------
(* The types of the fields, and of a PDU.  Numbers of 32 bits stay below   *)
(* 2^31, as the sequence_number does.                                      *)

Octets == 0 .. 255
Words  == {n \in Nat : n < 65536}
Longs  == {n \in Nat : n \div 65536 < 32768}

\* A list name has no type of number and no numbering plan.
Destinations ==
    [dl : {FALSE}, ton : Octets, npi : Octets, addr : Seq(Octets)]
      \cup [dl : {TRUE}, ton : {0}, npi : {0}, addr : Seq(Octets)]
Unsuccessful ==
    [ton : Octets, npi : Octets, addr : Seq(Octets), error : Longs]
Tlvs == [tag : Words, value : Seq(Octets)]

Optionals == {"sc_interface_version", "ms_availability_status"}

FieldValues(n) ==
    CASE n \in CStrings        -> Seq(Octets)
      [] n = "short_message"   -> Seq(Octets)
      [] n = "dest_addresses"  -> Seq(Destinations)
      [] n = "unsuccess_sme"   -> Seq(Unsuccessful)
      [] n = "tlvs"            -> Seq(Tlvs)
      [] n \in Optionals       -> {<<>>} \cup {<<o>> : o \in Octets}
      [] OTHER                 -> Octets

\* A PDU has the fields its encode writes; only a string may be left out.
IsPdu(p) ==
    LET names == ToSet(Written(p.cmd, p.ok)) IN
    /\ p = [cmd |-> p.cmd, ok |-> p.ok, seq |-> p.seq, f |-> p.f]
    /\ p.cmd \in Commands /\ p.ok \in BOOLEAN /\ p.seq \in Longs
    /\ p.f = [n \in DOMAIN p.f |-> p.f[n]]
    /\ DOMAIN p.f \subseteq names /\ names \ DOMAIN p.f \subseteq CStrings
    /\ \A n \in DOMAIN p.f : p.f[n] \in FieldValues(n)

ASSUME PdusAssumption == \A p \in Pdus : IsPdu(p)

-----------------------------------------------------------------------------
(* Lengths: encoded_len and the sums of the constructors.                  *)

Map(op(_), s) == [i \in 1 .. Len(s) |-> op(s[i])]

Sum(ns) ==
    LET upto[i \in 0 .. Len(ns)] == IF i = 0 THEN 0 ELSE upto[i - 1] + ns[i]
    IN  upto[Len(ns)]

TotalOf(len(_), s) == Sum(Map(len, s))

\* A destination is [dl, ton, npi, addr]: a list name has dl TRUE.
DestLen(d)      == IF d.dl THEN 1 + Len(d.addr) + 1 ELSE 3 + Len(d.addr) + 1
UnsuccessLen(u) == 2 + Len(u.addr) + 1 + 4

\* Mutant of encoded_len: the length as the wire will carry it.
encoded_lenWrapped(t) == 4 + (Len(t.value) % U16Mod)

encoded_len(t) == 4 + Len(t.value)

OptionalLen(v) == IF v = <<>> THEN 0 ELSE 5

\* What a field that the application left out is: the empty string.
Val(p, n) == IF n \in DOMAIN p.f THEN p.f[n] ELSE <<>>

FieldLen(n, v) ==
    CASE n \in CStrings -> Len(v) + 1
      [] n = "short_message" -> 1 + Len(v)
      [] n = "dest_addresses" -> 1 + TotalOf(DestLen, v)
      [] n = "unsuccess_sme" -> 1 + TotalOf(UnsuccessLen, v)
      [] n = "tlvs" -> TotalOf(encoded_len, v)
      [] n \in Optionals -> OptionalLen(v)
      [] OTHER -> 1

CommandLength(p) ==
    16 + TotalOf(LAMBDA n : FieldLen(n, Val(p, n)), Counted(p.cmd, p.ok))

-----------------------------------------------------------------------------
(* Encoding.                                                               *)

to_be_bytes(n) ==
    <<(n \div 65536) \div 256, (n \div 65536) % 256, (n \div 256) % 256, n % 256>>

DestOctets(d) ==
    IF d.dl THEN <<2>> \o d.addr \o <<0>>
            ELSE <<1, d.ton, d.npi>> \o d.addr \o <<0>>

UnsuccessOctets(u) ==
    <<u.ton, u.npi>> \o u.addr \o <<0>> \o to_be_bytes(u.error)

TlvEncode(t) ==
    <<t.tag \div 256, t.tag % 256>>
      \o <<(Len(t.value) % U16Mod) \div 256, (Len(t.value) % U16Mod) % 256>>
      \o t.value

\* The tag of the two optional parameters that are fields of their own.
TagOf(n) == IF n = "sc_interface_version" THEN 528 ELSE 1058

FieldOctets(n, v) ==
    CASE n \in CStrings -> v \o <<0>>
      [] n = "short_message" -> <<Len(v) % U8Mod>> \o v
      [] n = "dest_addresses" ->
           <<Len(v) % U8Mod>> \o FlattenSeq(Map(DestOctets, v))
      [] n = "unsuccess_sme" ->
           <<Len(v) % U8Mod>> \o FlattenSeq(Map(UnsuccessOctets, v))
      [] n = "tlvs" -> FlattenSeq(Map(TlvEncode, v))
      [] n \in Optionals ->
           IF v = <<>> THEN <<>> ELSE TlvEncode([tag |-> TagOf(n), value |-> v])
      [] OTHER -> <<v>>

\* A refusal carries ESME_RSYSERR (8).
HeaderOctets(p, length) ==
    LET id == CommandId[p.cmd] IN
    to_be_bytes(length) \o <<id[1], 0, id[2] \div 256, id[2] % 256>>
      \o to_be_bytes(IF p.ok THEN 0 ELSE 8) \o to_be_bytes(p.seq)

BodyOctets(p) ==
    FlattenSeq(Map(LAMBDA n : FieldOctets(n, Val(p, n)), Written(p.cmd, p.ok)))

Encode(p) == HeaderOctets(p, CommandLength(p)) \o BodyOctets(p)

\* Mutant of NewPanics: the counts are not asserted.
NewPanicsNever(p) == FALSE

\* new asserts that a message and a list of destinations fit their count.
NewPanics(p) ==
    \/ Len(Val(p, "short_message")) > U8Mod - 2
    \/ Len(Val(p, "dest_addresses")) > U8Mod - 2

-----------------------------------------------------------------------------
(* Decoding.  A parser takes the octets left and answers [ok, val, rest].  *)

Refused == [ok |-> FALSE, val |-> <<>>, rest |-> <<>>]
Parsed(v, rest) == [ok |-> TRUE, val |-> v, rest |-> rest]
Skip(b, n) == SubSeq(b, n + 1, Len(b))

take(b, n) ==
    IF Len(b) < n THEN Refused ELSE Parsed(SubSeq(b, 1, n), Skip(b, n))

be_u8(b) ==
    IF b = <<>> THEN Refused ELSE Parsed(b[1], Tail(b))

\* Mutant of parse_c_octet_string: the end of the input ends a string too.
parse_c_octet_stringToEnd(b) ==
    LET k == SelectInSeq(b, LAMBDA x : x = 0) IN
    IF k = 0 THEN Parsed(b, <<>>)
    ELSE Parsed(SubSeq(b, 1, k - 1), Skip(b, k))

\* Up to the first NUL, which is consumed too.
parse_c_octet_string(b) ==
    LET k == SelectInSeq(b, LAMBDA x : x = 0) IN
    IF k = 0 THEN Refused ELSE Parsed(SubSeq(b, 1, k - 1), Skip(b, k))

be_u16(s) == s[1] * 256 + s[2]
be_u32(s) == ((s[1] * 256 + s[2]) * 256 + s[3]) * 256 + s[4]

parse_single_tlv(b) ==
    LET head == take(b, 4)
        body == take(head.rest, be_u16(SubSeq(head.val, 3, 4)))
    IN  IF ~head.ok \/ ~body.ok THEN Refused
        ELSE Parsed([tag |-> be_u16(head.val), value |-> body.val], body.rest)

\* The loop takes TLVs off the front, of at least 4 octets each; it stops,
\* without an error, at the first one that does not parse.
decode_tlvs(b) ==
    LET after[i \in 0 .. Len(b) \div 4] ==
          IF i = 0 THEN Parsed(<<>>, b)
          ELSE LET was == after[i - 1]
                   one == parse_single_tlv(was.rest)
               IN  IF ~one.ok THEN was
                   ELSE Parsed(Append(was.val, one.val), one.rest)
    IN  after[Len(b) \div 4].val

\* get_tlv(tag), then as_u8: the first TLV of the tag, if it has one octet.
OptionalOf(tlvs, tag) ==
    LET k == SelectInSeq(tlvs, LAMBDA t : t.tag = tag) IN
    IF k # 0 /\ Len(tlvs[k].value) = 1 THEN tlvs[k].value ELSE <<>>

\* Parse one after the other, collecting the values.
InTurn(parse(_, _), s, b) ==
    LET after[i \in 0 .. Len(s)] ==
          IF i = 0 THEN Parsed(<<>>, b)
          ELSE LET was == after[i - 1]
                   one == parse(s[i], was.rest)
               IN  IF ~was.ok \/ ~one.ok THEN Refused
                   ELSE Parsed(Append(was.val, one.val), one.rest)
    IN  after[Len(s)]

TonNpiAddr(b) ==
    LET ton  == be_u8(b)
        npi  == be_u8(ton.rest)
        addr == parse_c_octet_string(npi.rest)
    IN  IF ~ton.ok \/ ~npi.ok \/ ~addr.ok THEN Refused
        ELSE Parsed(<<ton.val, npi.val, addr.val>>, addr.rest)

\* Any flag but 0x02 is taken for an SME address.
parse_dest_address(b) ==
    LET flag == be_u8(b)
        name == parse_c_octet_string(flag.rest)
        sme  == TonNpiAddr(flag.rest)
    IN  IF ~flag.ok THEN Refused
        ELSE IF flag.val = 2
          THEN IF ~name.ok THEN Refused
               ELSE Parsed([dl |-> TRUE, ton |-> 0, npi |-> 0,
                            addr |-> name.val], name.rest)
          ELSE IF ~sme.ok THEN Refused
               ELSE Parsed([dl |-> FALSE, ton |-> sme.val[1],
                            npi |-> sme.val[2], addr |-> sme.val[3]], sme.rest)

parse_unsuccess_sme(b) ==
    LET sme == TonNpiAddr(b)
        err == take(sme.rest, 4)
    IN  IF ~sme.ok \/ ~err.ok THEN Refused
        ELSE Parsed([ton |-> sme.val[1], npi |-> sme.val[2],
                     addr |-> sme.val[3],
                     error |-> be_u32(err.val)], err.rest)

\* A count, then that many entries.
CountedList(list, b) ==
    LET n == be_u8(b) IN
    IF ~n.ok THEN Refused
    ELSE InTurn(LAMBDA i, c : IF list = "dest_addresses" THEN parse_dest_address(c)
                              ELSE parse_unsuccess_sme(c),
                [i \in 1 .. n.val |-> i], n.rest)

short_message_parse(b) ==
    LET n == be_u8(b) IN IF ~n.ok THEN Refused ELSE take(n.rest, n.val)

\* The TLV, or the bare octet of smpp34 up to 1.2.1.
ms_availability_parse(b) ==
    Parsed(IF Len(b) <= 1 THEN b
           ELSE OptionalOf(decode_tlvs(b), TagOf("ms_availability_status")),
           <<>>)

ParseField(n, b) ==
    CASE n \in CStrings -> parse_c_octet_string(b)
      [] n = "short_message" -> short_message_parse(b)
      [] n \in {"dest_addresses", "unsuccess_sme"} -> CountedList(n, b)
      [] n = "tlvs" -> Parsed(decode_tlvs(b), <<>>)
      [] n = "ms_availability_status" -> ms_availability_parse(b)
      [] n = "sc_interface_version" ->
           Parsed(OptionalOf(decode_tlvs(b), TagOf(n)), <<>>)
      [] OTHER -> be_u8(b)

\* decode of these insists on a PDU of exactly 16 octets.
StrictlyHeader == {"unbind", "unbind_resp", "enquire_link", "generic_nack"}

\* deliver_sm_resp and data_sm_resp may leave their body out altogether.
BodyFields(cmd, ok, body) ==
    IF cmd \in {"deliver_sm_resp", "data_sm_resp"} /\ body = <<>>
      THEN <<>> ELSE Read(cmd, ok)

\* Every decode skips the header, but cancel_sm's parses from the first octet.
DecodeFrom(cmd) == IF cmd = "cancel_sm" THEN 1 ELSE 17

\* What the read loop makes of a frame: the PDU it hands on, or a refusal.
Decode(b) ==
    LET cmds   == {c \in Commands :
                     /\ b[5] = CommandId[c][1]
                     /\ be_u16(SubSeq(b, 7, 8)) = CommandId[c][2]
                     /\ b[6] = 0}
        cmd    == CHOOSE c \in cmds : TRUE
        ok     == SubSeq(b, 9, 12) = to_be_bytes(0)
        seq    == be_u32(SubSeq(b, 13, 16))
        body   == Skip(b, DecodeFrom(cmd) - 1)
        names  == BodyFields(cmd, ok, body)
        parsed == InTurn(ParseField, names, body)
        fine   == parsed.ok /\ (cmd \in StrictlyHeader => body = <<>>)
    IN  IF cmds = {} THEN [cmd |-> "unknown", ok |-> ok, seq |-> seq,
                           fine |-> FALSE, f |-> <<>>]
        ELSE [cmd |-> cmd, ok |-> ok, seq |-> seq, fine |-> fine,
              f |-> IF ~fine THEN <<>>
                    ELSE [n \in ToSet(names) |->
                            parsed.val[SelectInSeq(names, LAMBDA m : m = n)]]]

-----------------------------------------------------------------------------
(* A sender, a connection and a receiver.                                  *)

Init ==
    /\ script \in Scripts
    /\ wire = <<>> /\ sent = <<>> /\ got = <<>>
    /\ open = TRUE

Put(p, cut, octets) ==
    /\ script' = Tail(script)
    /\ sent' = Append(sent, [pdu |-> p, cut |-> cut])
    /\ wire' = wire \o octets
    /\ UNCHANGED <<got, open>>

\* The sender builds its next PDU and writes it.
Send ==
    /\ script # <<>> /\ ~NewPanics(Head(script))
    /\ Put(Head(script), 0, Encode(Head(script)))

\* new panics: the caller gets nothing on the wire.
SendPanics ==
    /\ script # <<>> /\ NewPanics(Head(script))
    /\ script' = Tail(script)
    /\ UNCHANGED <<wire, sent, got, open>>

\* A peer that is not this crate leaves the end of a body out, and says so in
\* command_length.
SendCut ==
    \E k \in 1 .. MaxCut :
        /\ script # <<>> /\ ~NewPanics(Head(script))
        /\ LET p    == Head(script)
               body == BodyOctets(p)
           IN  /\ k <= Len(body)
               /\ Put(p, k, HeaderOctets(p, 16 + Len(body) - k)
                              \o SubSeq(body, 1, Len(body) - k))

\* smpp34 up to 1.2.1 writes ms_availability_status as a bare octet.
SendOldAlert ==
    /\ script # <<>>
    /\ LET p    == Head(script)
           body == BodyOctets([p EXCEPT !.f["ms_availability_status"] = <<>>])
                     \o p.f["ms_availability_status"]
       IN  /\ p.cmd = "alert_notification"
           /\ Put(p, 0, HeaderOctets(p, 16 + Len(body)) \o body)

\* command_length of the next frame; 2^31 or more is above MaxPduLen.
Claimed ==
    IF wire[1] > 127 THEN MaxPduLen + 1 ELSE be_u32(SubSeq(wire, 1, 4))

\* The read loop takes a whole frame and decodes it.
Receive ==
    /\ open /\ Len(wire) >= 16
    /\ Claimed \in 16 .. MaxPduLen /\ Claimed <= Len(wire)
    /\ got' = Append(got, Decode(SubSeq(wire, 1, Claimed)))
    /\ wire' = Skip(wire, Claimed)
    /\ UNCHANGED <<script, sent, open>>

\* The read loop gives up on a length it cannot believe.
Refuse ==
    /\ open /\ Len(wire) >= 16
    /\ Claimed \notin 16 .. MaxPduLen
    /\ open' = FALSE
    /\ UNCHANGED <<script, wire, sent, got>>

Next == Send \/ SendPanics \/ SendCut \/ SendOldAlert \/ Receive \/ Refuse

Spec == Init /\ [][Next]_vars

-----------------------------------------------------------------------------
(* Properties.                                                             *)

\* The strings of a PDU, those of its lists included.
Strings(p) ==
    {p.f[n] : n \in CStrings \cap DOMAIN p.f}
      \cup {e.addr : e \in ToSet(Val(p, "dest_addresses"))
                             \cup ToSet(Val(p, "unsuccess_sme"))}

\* The PDUs SMPP can express: no string has a NUL in it, every count and
\* every length fits its cast, the whole is not too long for the receiver.
Fits(p) ==
    /\ \A s \in Strings(p) : ~Contains(s, 0)
    /\ Len(Val(p, "unsuccess_sme")) < U8Mod
    /\ \A t \in ToSet(Val(p, "tlvs")) : Len(t.value) < U16Mod
    /\ CommandLength(p) <= MaxPduLen

\* The two encoders whose command_length is not what they write.
Misreported(p) ==
    p.cmd = "cancel_sm" \/ (p.cmd = "deliver_sm_resp" /\ ~p.ok)

\* Nothing is left to send, and the receiver can do no more.
Quiet ==
    /\ script = <<>>
    /\ \/ ~open
       \/ Len(wire) < 16
       \/ Claimed \in 16 .. MaxPduLen /\ Claimed > Len(wire)

\* The PDUs up to the i-th are of the length their header says, and not too
\* long for the receiver.
TrueUpTo(i) ==
    \A j \in 1 .. i : /\ sent[j].cut = 0 => ~Misreported(sent[j].pdu)
                      /\ 16 + Len(BodyOctets(sent[j].pdu)) <= MaxPduLen

SameHeader(g, p) == g.cmd = p.cmd /\ g.ok = p.ok /\ g.seq = p.seq

Arrived(i) ==
    LET p == sent[i].pdu IN
    /\ i <= Len(got)
    /\ SameHeader(got[i], p) /\ got[i].fine
    /\ \A n \in DOMAIN p.f \cup DOMAIN got[i].f : Val(got[i], n) = Val(p, n)

\* Whatever is in a PDU's fields (a NUL in a string, a count or a TLV length
\* that wraps in its cast, a body cut short), the damage stays in that PDU:
\* the receiver finds every later frame where it starts, with the command, the
\* status and the sequence_number it was sent with.
InStep ==
    Quiet => \A i \in DOMAIN sent :
               TrueUpTo(i) => /\ i <= Len(got)
                              /\ SameHeader(got[i], sent[i].pdu)

\* A PDU whose values SMPP can express is decoded into the values it was built
\* from, whichever codec carries it, next to whatever else is on the wire; and
\* the receiver is not left waiting for octets that never come.
ReceivedAsSent ==
    Quiet => \A i \in DOMAIN sent :
               TrueUpTo(i) /\ Fits(sent[i].pdu) /\ sent[i].cut = 0 => Arrived(i)

\* One octet of ms_availability_status's five is left by the cut: the only
\* case in which decode takes a TLV for the bare octet of old peers.
OneOctetLeft(s) ==
    /\ s.pdu.cmd = "alert_notification"
    /\ s.pdu.f["ms_availability_status"] # <<>> /\ s.cut = 4

\* A PDU that lost the end of its body is refused, or what decode returns is
\* what was sent with optional parameters missing from the end: no field takes
\* its value from the octets of another.
CutNeverMisread ==
    \A i \in DOMAIN sent \cap DOMAIN got :
        LET p == sent[i].pdu
            g == got[i]
        IN  /\ sent[i].cut > 0 /\ TrueUpTo(i) /\ Fits(p) /\ g.fine
            /\ p.cmd # "cancel_sm" /\ ~OneOctetLeft(sent[i])
            => \A n \in DOMAIN g.f :
                 \/ g.f[n] = Val(p, n)
                 \/ n = "tlvs" /\ IsPrefix(g.f[n], p.f[n])
                 \/ n \in Optionals /\ g.f[n] = <<>>

\* Every PDU that SMPP can express arrives, whichever codec carries it.
\* common/mod.rs has command_length "the length in octets of the SMPP
\* message"; alert_notification.rs has every decode start from "a complete PDU
\* (header included)".
EveryPduArrives ==
    Quiet => \A i \in DOMAIN sent :
               Fits(sent[i].pdu) /\ sent[i].cut = 0 => Arrived(i)
=============================================================================
