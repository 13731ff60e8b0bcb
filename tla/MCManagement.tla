---------------------------- MODULE MCManagement ----------------------------
(* Management for TLC: few properties of each kind, a tool and a plain client *)
EXTENDS Management

P(kind, size, max, writable, level, secret, reset) ==
    [kind |-> kind, size |-> size, max |-> max, writable |-> writable, readLevel |-> level,
     secret |-> secret, reset |-> reset]

MCDesc ==
    [p \in {"control", "version", "domain", "table", "key", "families", "serial",
            "progmode", "address", "load", "mode"} |->
        CASE p = "control"  -> P("data", 1, 1, TRUE, 3, "no", "kept")
          [] p = "version"  -> P("data", 2, 1, TRUE, 3, "no", "kept")
          [] p = "domain"   -> P("data", 1, 1, TRUE, 3, "no", "kept")
          [] p = "table"    -> P("data", 1, 3, TRUE, 0, "sensitive", "zeroed")
          [] p = "key"      -> P("data", 2, 1, TRUE, 0, "writeonly", "emptied")
          [] p = "families" -> P("data", 1, 1, TRUE, 3, "open", "kept")
          [] p = "serial"   -> P("data", 1, 1, FALSE, 3, "no", "kept")
          [] p = "progmode" -> P("progmode", 1, 1, TRUE, 3, "no", "kept")
          [] p = "address"  -> P("address", 1, 1, FALSE, 3, "no", "kept")
          [] p = "load"     -> P("control", 1, 1, TRUE, 3, "no", "kept")
          [] p = "mode"     -> P("function", 3, 1, FALSE, 0, "no", "kept")]

MCFactory ==
    [p \in {"control", "version", "domain", "table", "key", "families", "serial"} |->
        IF p \in {"control", "domain"} THEN <<0>> ELSE IF p = "serial" THEN <<7>> ELSE << >>]

MCSaveOrder == <<"version", "control", "domain", "table", "key", "families">>

Write(p, start, n, d) == [p |-> p, start |-> start, count |-> n, data |-> d]

Writes ==
    { Write("control", 1, 1, <<4>>), Write("control", 0, 1, <<0, 0>>), Write("control", 1, 1, << >>),
      Write("version", 1, 1, <<1, 2>>), Write("table", 3, 1, <<1>>), Write("table", 1, 2, <<2, 3>>),
      Write("table", 0, 1, <<0, 1>>), Write("table", 3, 2, <<1, 1>>), Write("key", 1, 1, <<1, 1>>),
      Write("serial", 1, 1, <<1>>), Write("progmode", 1, 1, <<0>>), Write("unknown", 1, 1, <<1>>) }

Loads == {Write("load", 1, 1, d) : d \in {<<1>>, <<2>>, <<3, 11, 1>>, <<3, 11>>, <<4>>, <<9>>}}

Reads == {Write(p, 1, 1, << >>) : p \in {"table", "key", "progmode", "families", "unknown"}}
         \cup {Write("table", 1, 3, << >>), Write("table", 0, 0, << >>), Write("address", 0, 1, << >>)}

By(service, tool, r) ==
    [service |-> service, from |-> IF tool THEN "tool" ELSE "plain", tool |-> tool,
     p |-> r.p, start |-> r.start, count |-> r.count, data |-> r.data, address |-> 0, code |-> ""]

Local(r) == [By(r.service, FALSE, r) EXCEPT !.from = "local"]

No == Write("serial", 0, 1, << >>)

At(service, tool, a, n, d) ==
    [By(service, tool, No) EXCEPT !.address = a, !.count = n, !.data = d]

Requests ==
    {By("PropertyValueWrite", FALSE, r) : r \in Writes}
    \cup {By("PropertyValueExtWriteCon", TRUE, r) : r \in Writes}
    \cup {By("FunctionPropertyCommand", TRUE, Write("mode", 1, 1, <<0, 0, m>>)) : m \in {0, 1}}
    \cup {By("PropertyValueExtWriteCon", FALSE, Write("table", 1, 1, <<1>>)),
          By("PropertyValueWrite", TRUE, Write("key", 1, 1, <<1, 1>>))}
    \cup {By("PropertyValueExtWriteUnCon", FALSE, Write("families", 1, 1, <<1>>)),
          By("LocalWrite", FALSE, Write("table", 2, 1, <<1>>)), By("LocalWrite", FALSE, Write("control", 1, 1, <<4>>)),
          By("LocalRead", FALSE, Write("table", 1, 1, << >>)), By("LocalCommand", FALSE, Write("mode", 1, 1, <<0, 0, 1>>)),
          By("LocalState", FALSE, Write("mode", 1, 1, <<0, 0>>)), By("LocalState", FALSE, Write("serial", 1, 1, <<0, 0>>))}
    \cup {By("PropertyValueWrite", FALSE, r) : r \in Loads}
    \cup {By("FunctionPropertyExtCommand", TRUE, r) : r \in Loads}
    \cup {By("PropertyValueRead", FALSE, r) : r \in Reads}
    \cup {By("PropertyValueExtRead", TRUE, r) : r \in Reads}
    \cup {By(s, t, Write("mode", 1, 1, d)) :
            s \in {"FunctionPropertyCommand", "FunctionPropertyState",
                   "FunctionPropertyExtCommand", "FunctionPropertyExtState"},
            t \in {FALSE}, d \in {<<0, 0>>, <<0, 0, 1>>, <<0, 1, 0>>, <<1, 0, 0>>, << >>}}
    \cup {By(s, FALSE, Write(p, 1, 1, <<0>>)) :
            s \in {"FunctionPropertyCommand", "FunctionPropertyState", "FunctionPropertyExtCommand",
                   "FunctionPropertyExtState"}, p \in {"unknown", "serial", "load"}}
    \cup {At("MemoryWrite", FALSE, a, 1, <<1>>) : a \in {0, 1, 2}}
    \cup {At("UserMemoryWrite", FALSE, a, 1, <<1>>) : a \in {1, 2}}
    \cup {At("MemoryExtWrite", t, 1, 1, d) : t \in {TRUE}, d \in {<<2>>, << >>, <<1, 1>>}}
    \cup {At(s, t, a, n, << >>) : s \in {"MemoryRead", "MemoryExtRead"}, t \in BOOLEAN,
                                  a \in {0, 1}, n \in {1, 2}}
    \cup {At("IndividualAddressWrite", FALSE, 1, 0, << >>),
          At("IndividualAddressSerialNumberWrite", FALSE, 2, 1, << >>),
          At("IndividualAddressSerialNumberWrite", TRUE, 2, 0, << >>),
          At("DomainAddressSerialNumberWrite", TRUE, 0, 1, <<5>>)}
    \cup {At(s, FALSE, 0, 1, << >>) :
            s \in {"IndividualAddressRead", "IndividualAddressSerialNumberRead", "DomainAddressSerialNumberRead",
                   "SystemNetworkParameterRead", "DeviceDescriptorRead", "ADCRead", "AuthorizeRequest",
                   "PropertyDescriptionRead"}}
    \cup {[By("Restart", t, No) EXCEPT !.code = c] :
            t \in BOOLEAN, c \in {"", "ConfirmedRestart", "FactoryReset", "FactoryResetWithoutIA",
                                  "ResetAP", "ResetIA", "Channel1"}}

MCRequest == [s \in {q.service : q \in Requests} |-> {q \in Requests : q.service = s}]

MCClient == {"plain"}
MCDefaultDomain == <<9>>
MCOctet == {0, 1}
=============================================================================
