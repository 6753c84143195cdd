------------------------------ MODULE MCCodec ------------------------------
(* Instances of Codec for TLC: every codec with one and with two of its     *)
(* fields at a boundary, followed by an enquire_link.                       *)
EXTENDS Codec

\* The values a field may take; the first is the ordinary one.
ValuesOf(n) ==
    CASE n \in CStrings -> <<<<7>>, <<>>, <<7, 0, 9>>>>
      [] n = "short_message" -> <<<<7>>, <<>>, <<0, 7>>, <<1, 0, 7, 9>>>>
      [] n = "dest_addresses" ->
           LET d(x, s) == [dl |-> x, ton |-> 0, npi |-> 0, addr |-> s] IN
           <<<<d(FALSE, <<2>>), d(TRUE, <<7>>)>>, <<>>, <<d(FALSE, <<>>)>>,
             <<d(TRUE, <<7, 0>>)>>,
             <<d(TRUE, <<>>), d(TRUE, <<>>), d(TRUE, <<>>)>>>>
      [] n = "unsuccess_sme" ->
           LET u == [ton |-> 1, npi |-> 1, addr |-> <<7>>, error |-> 66051] IN
           <<<<>>, <<u, u, u>>, <<u, u, u, u>>, <<u, u, u, u, u>>>>
      [] n = "tlvs" ->
           LET t(v) == [tag |-> 30, value |-> v] IN
           <<<<>>, <<t(<<>>)>>, <<t(<<7>>), t(<<0, 7>>)>>,
             <<t(<<2, 4, 0, 0>>)>>, <<t(<<7, 7, 7, 7, 7>>), t(<<1>>)>>>>
      [] n \in Optionals ->
           <<<<>>, <<0>>, <<52>>>>
      [] OTHER -> <<1, 0, 255>>

\* The fields the application fills in.
Fields(cmd, ok) ==
    IF cmd = "deliver_sm_resp" THEN {} ELSE ToSet(Written(cmd, ok))

Ordinary(cmd, ok) == [n \in Fields(cmd, ok) |-> ValuesOf(n)[1]]

\* All its fields ordinary but two.
Fillings(cmd, ok) ==
    {Ordinary(cmd, ok)} \cup
    UNION {UNION {{[Ordinary(cmd, ok) EXCEPT ![m] = x, ![n] = y] :
                     x \in ToSet(ValuesOf(m)), y \in ToSet(ValuesOf(n))} :
                    m \in Fields(cmd, ok)} : n \in Fields(cmd, ok)}

Statuses(cmd) ==
    IF cmd \in Resps \cup {"unbind_resp", "cancel_sm_resp"} THEN BOOLEAN
    ELSE {cmd # "generic_nack"}

P(cmd, ok, f) == [cmd |-> cmd, ok |-> ok, seq |-> 16909060, f |-> f]

Probe == [cmd |-> "enquire_link", ok |-> TRUE, seq |-> 16909061, f |-> <<>>]

MCPdus ==
    {Probe} \cup {P(cmd, ok, f) : <<cmd, ok, f>> \in
       UNION {{<<cmd, ok, f>> : f \in Fillings(cmd, ok)} :
                <<cmd, ok>> \in UNION {{cmd} \X Statuses(cmd) :
                                         cmd \in Commands}}}

MCScripts == {<<p, Probe>> : p \in MCPdus}

\* A cancel_sm.
MCCancel == {<<P("cancel_sm", TRUE, Ordinary("cancel_sm", TRUE)), Probe>>}
=============================================================================
