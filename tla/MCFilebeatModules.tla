------------------------- MODULE MCFilebeatModules -------------------------
(***************************************************************************)
(* A small instance of FilebeatModules: for every script the events that   *)
(* take it through each of its branches, and those it throws on.           *)
(***************************************************************************)
EXTENDS FilebeatModules

MCNumerals == {"0", "1", "2", "4", "5", "6", "17", "42", "80", "65000"}
MCDotted == {"10.0.0.1", "10.0.0.2"}
MCColoned == {"fe80::1"}
MCInstants == {"noon"}
MCAfterAS == "AS65000" :> "65000"

(* ------------------------------ documents ------------------------------- *)
(* The tree of some leaves, those with the value Null left out. *)
Grown(f) ==
    LET leaves == {p \in DOMAIN f : f[p] # Null}
        above == UNION {Above(p) : p \in leaves} \union {<< >>}
    IN  [p \in leaves |-> f[p]] @@ [p \in above |-> Obj]
Under(prefix, f) ==
    [q \in {prefix \o p : p \in DOMAIN f} |-> f[SubSeq(q, Len(prefix) + 1, Len(q))]]
JSON(f) == <<"json", Grown(f)>>
WithMessage(m, f) == <<"message">> :> m @@ f
Event(d, k, m) == [dataset |-> d, keep |-> k, evt |-> <<"message">> :> m]

Entry == <<"timestamp">> :> Str("noon") @@ <<"logName">> :> Str("a log")
LogEntry(payload, f) == JSON(Entry @@ Under(<<payload>>, f))
Unreadable == Str("not JSON")
BadTime(payload) ==
    JSON(<<"timestamp">> :> Str("never") @@ Under(<<payload>>, <<"a">> :> Str("b")))

(* -------------------------- firewall and vpcflow ------------------------ *)
Instance(name) ==
    <<"vm_name">> :> Str(name) @@ <<"project_id">> :> Str("project of " \o name)
        @@ <<"region">> :> Str("region") @@ <<"zone">> :> Str("zone of " \o name)
Bare == <<"vm_name">> :> Str("bare")
Vpc(name) == <<"subnetwork_name">> :> Str("net of " \o name)
Known(instance, vpc, location, name, known) ==
    CASE known = "no" -> << >>
      [] known = "bare" -> Under(<<instance>>, Bare)
      [] OTHER -> Under(<<instance>>, Instance(name)) @@ Under(<<vpc>>, Vpc(name))
                      @@ Under(<<location>>, <<"asn">> :> Long("42")
                                                @@ <<"country">> :> Str("country of " \o name))
Connection(protocol, sip, dip, sport) ==
    <<"connection", "protocol">> :> protocol @@ <<"connection", "src_ip">> :> sip
        @@ <<"connection", "dest_ip">> :> dip @@ <<"connection", "src_port">> :> sport
        @@ <<"connection", "dest_port">> :> Long("80")
Usual == Connection(Long("6"), Str("10.0.0.1"), Str("10.0.0.2"), Long("42"))
Connections ==
    {Connection(p, s, d, Long("42")) :
        p \in {Null, Long("6"), Str("17"), Long("1"), Long("2"), Str("0"), Str("udp"), Str("any")},
        s \in {Null, Str("10.0.0.1"), Str("fe80::1"), Str("a name")},
        d \in {Null, Str("10.0.0.1"), Str("10.0.0.2")}}
    \union {Connection(Long("6"), Str("10.0.0.1"), Str("10.0.0.2"), p) :
               p \in {Null, Str("42"), Str("no port")}}

FirewallPayload(direction, disposition, near, far, connection) ==
    connection @@ <<"rule_details", "direction">> :> direction
        @@ <<"disposition">> :> disposition
        @@ Known("instance", "vpc", "location", "near", near)
        @@ Known("remote_instance", "remote_vpc", "remote_location", "far", far)
FirewallMessages ==
    {LogEntry("jsonPayload", FirewallPayload(dir, disp, near, far, Usual)) :
        dir \in {Null, Str("EGRESS"), Str("INGRESS")},
        disp \in {Null, Str("ALLOWED"), Str("DENIED")},
        near \in {"no", "bare", "full"}, far \in {"no", "bare", "full"}}
    \union {LogEntry("jsonPayload", FirewallPayload(dir, Str("DENIED"), "full", "no", c)) :
        dir \in {Str("EGRESS"), Str("INGRESS")},
        c \in Connections \union {Connection(Str("any"), Str("10.0.0.1"), Null, Null)}}
    \union {Unreadable, BadTime("jsonPayload"), LogEntry("textPayload", <<"a">> :> Str("b"))}

Counts == <<"bytes_sent">> :> Str("80") @@ <<"packets_sent">> :> Str("5")
VpcflowPayload(reporter, src, dest, connection) ==
    connection @@ Counts @@ <<"reporter">> :> reporter
        @@ <<"rtt_msec">> :> Str("4") @@ <<"start_time">> :> Str("noon")
        @@ Known("src_instance", "src_vpc", "src_location", "src", src)
        @@ Known("dest_instance", "dest_vpc", "dest_location", "dest", dest)
VpcflowMessages ==
    {LogEntry("jsonPayload", VpcflowPayload(r, src, dest, Usual)) :
        r \in {Null, Str("SRC"), Str("DEST")},
        src \in {"no", "bare", "full"}, dest \in {"no", "bare", "full"}}
    \union {LogEntry("jsonPayload", VpcflowPayload(Str("SRC"), "full", "no", c)) :
        c \in Connections}
    \union {LogEntry("jsonPayload", f :> Str("none") @@ VpcflowPayload(Str("SRC"), "full", "no", Usual)) :
        f \in {<<"bytes_sent">>, <<"rtt_msec">>, <<"src_location", "asn">>}}
    \union {Unreadable, BadTime("jsonPayload"), LogEntry("textPayload", <<"a">> :> Str("b"))}

(* --------------------------------- audit -------------------------------- *)
Authorization(granted) == [fields |-> {"resource", "resourceAttributes"}, granted |-> granted]
AuthorizationLists ==
    {Null, <<"list", << >>>>}
    \union {<<"list", <<Authorization(g)>>>> : g \in {"unset", "true", "false"}}
    \union {<<"list", <<Authorization(g), Authorization("true")>>>> : g \in {"true", "false"}}
AuditPayload(code, list, caller, items) ==
    <<"@type">> :> Str("AuditLog") @@ <<"serviceName">> :> Str("a service")
        @@ <<"authenticationInfo", "principalEmail">> :> Str("someone")
        @@ <<"authorizationInfo">> :> list @@ <<"status", "code">> :> code
        @@ <<"requestMetadata", "callerIp">> :> caller
        @@ <<"requestMetadata", "requestAttributes">> :> Str("dropped")
        @@ <<"numResponseItems">> :> items
AuditMessages ==
    {LogEntry("protoPayload", AuditPayload(code, list, caller, Str("5"))) :
        code \in {Null, Long("0"), Long("5")}, list \in AuthorizationLists,
        caller \in {Null, Str("10.0.0.1"), Str("private")}}
    \union {LogEntry("protoPayload", AuditPayload(Null, <<"list", << >>>>, Null, items)) :
        items \in {Null, Str("many")}}
    \union {Unreadable, BadTime("protoPayload"), LogEntry("textPayload", <<"a">> :> Str("b"))}

(* --------------------------------- cisco -------------------------------- *)
AclValue(p, sip, outcome, number, protocol) ==
    CASE p = <<"source", "address">> -> Str(sip)
      [] p = <<"destination", "address">> -> Str("10.0.0.2")
      [] p = <<"event", "outcome">> -> Str(outcome)
      [] p \in {<<"network", "transport">>, <<"network", "iana_number">>} -> Str(protocol)
      [] p = <<"cisco", "ios", "access_list">> -> Str("a list")
      [] p = <<"source", "packets">> -> Str(number)
      [] OTHER -> Str("6")
Acl(code, sip, outcome, number, protocol) ==
    LET pattern == Cisco!accessListMessagePatterns[code]
    IN  <<"acl", [x \in DOMAIN pattern |->
                     <<pattern[x], AclValue(pattern[x], sip, outcome, number, protocol)>>]>>
(* A protocol the message is written for, and some that it tells no ports of. *)
ProtocolsOf(code) ==
    CASE code \in {"IPACCESSLOGDP", "ACCESSLOGDP"} -> {"icmp"}
      [] code \in {"IPACCESSLOGSP", "ACCESSLOGSP"} -> {"igmp"}
      [] code = "IPACCESSLOGRP" -> {"igmp", "pim", "tcp"}
      [] code \in {"IPACCESSLOGNP", "ACCESSLOGNP"} -> {"0", "6"}
      [] OTHER -> {"tcp", "udp"}
AclCodes == DOMAIN Cisco!accessListMessagePatterns
IosMessage(severity, code, body) ==
    <<"ios", [facility |-> Str("SEC"), severity |-> Str(severity), code |-> Str(code),
              body |-> body]>>
IosMessages ==
    UNION {{IosMessage("6", code, Acl(code, "10.0.0.1", outcome, "5", protocol)) :
        outcome \in {"denied", "permitted"}, protocol \in ProtocolsOf(code)} : code \in AclCodes}
    \union {IosMessage("6", "IPACCESSLOGP", Acl("IPACCESSLOGP", sip, "denied", number, "udp")) :
        sip \in {"10.0.0.1", "fe80::1", "a name"}, number \in {"5", "many"}}
    \union {IosMessage(severity, "LOGIN", Str("a text")) : severity \in {"0", "4", "42", "high"}}
    \union {IosMessage("6", "IPACCESSLOGP", Acl("IPACCESSLOGNP", "10.0.0.1", "denied", "5", "0")),
            IosMessage("6", "ACCESSLOGRP", Acl("IPACCESSLOGRP", "10.0.0.1", "denied", "5", "igmp")),
            Str("a text")}
Line(m, sequence, time) ==
    <<"line", [received |-> Str("noon"), host |-> Str("a router"), sequence |-> Str(sequence),
               timestamp |-> Str(time), message |-> m]>>
FromLog(m) == [dataset |-> "ios", keep |-> FALSE,
               evt |-> <<"message">> :> m @@ <<"input">> :> Obj
                           @@ <<"input", "type">> :> Str("log")]
FromSyslog(m) == [dataset |-> "ios", keep |-> FALSE,
                  evt |-> <<"message">> :> m @@ <<"input">> :> Obj
                              @@ <<"input", "type">> :> Str("syslog")
                              @@ <<"event">> :> Obj @@ <<"event", "severity">> :> Long("5")]
IosInputs ==
    {FromSyslog(m) : m \in IosMessages} \union {FromLog(Line(m, "42", "noon")) : m \in IosMessages}
    \union {FromLog(Line(m, s, t)) : m \in {IosMessage("6", "LOGIN", Str("a text"))},
                                     s \in {"42", "none"}, t \in {"noon", "never"}}
    \union {FromLog(IosMessage("6", "LOGIN", Str("a text")))}

(* --------------------------------- misp --------------------------------- *)
Values ==
    {Null} \union {Misp!Value(s) :
        s \in {<<<<"AS65000">>>>, <<<<"one">>>>, <<<<"10.0.0.1", "24">>>>,
               <<<<"one">>, <<"10.0.0.1", "24">>>>, <<<<"one">>, <<"two">>>>,
               <<<<"one">>, <<"two">>, <<"three">>>>}}
ThreatMessages ==
    {JSON(<<"type">> :> t @@ <<"value">> :> v @@ <<"Event", "uuid">> :> Str("an id")) :
        t \in {Null, Str("comment")} \union {Str(s) : s \in Misp!Supported}, v \in Values}
    \union {Unreadable}

MCInputs ==
    {Event("firewall", k, m) : k \in BOOLEAN, m \in FirewallMessages}
    \union {Event("vpcflow", k, m) : k \in BOOLEAN, m \in VpcflowMessages}
    \union {Event("audit", k, m) : k \in BOOLEAN, m \in AuditMessages}
    \union IosInputs
    \union {Event("threat", FALSE, m) : m \in ThreatMessages}
=============================================================================
