-------------------------- MODULE FilebeatModules --------------------------
(***************************************************************************)
(* filebeat with the modules of the repository that have a script: every   *)
(* input gives events, each event goes through the script of its dataset,  *)
(* and what the script made of it is published.  The scripts share no      *)
(* state, and keep none from one event to the next.                        *)
(***************************************************************************)
EXTENDS VpcEnds

CONSTANTS
    Inputs,   \* the events there are: [dataset, keep, evt]
    AfterAS   \* see MispThreat

Firewall == INSTANCE GooglecloudFirewall
Vpcflow == INSTANCE GooglecloudVpcflow
Audit == INSTANCE GooglecloudAudit
Cisco == INSTANCE CiscoIos
Misp == INSTANCE MispThreat

Googlecloud == {"firewall", "vpcflow", "audit"}
Datasets == Googlecloud \union {"ios", "threat"}
NoInput == [dataset |-> "none", keep |-> FALSE, evt |-> << >>]

(* What the inputs give: an event with a message, and with none of the       *)
(* fields that the scripts make.  A message that parses is one document; the *)
(* documents use the names of their logs, not yet those the scripts give.    *)
OwnNames ==
    {"json", "googlecloud", "source", "destination", "network", "related", "cloud",
     "cisco", "icmp", "igmp", "_tmp", "_message", "_event_severity",
     "misp", "error", "dns", "url", "user", "file", "bitcoin", "regkey", "yara"}
Granting == {"unset", "true", "false"}
IsInput(i) ==
    LET message == i.evt[<<"message">>]
        document == message[2]
    IN  /\ i.dataset \in Datasets /\ i.keep \in BOOLEAN
        /\ IsEvent(i.evt) /\ Has(i.evt, <<"message">>)
        /\ \A p \in DOMAIN i.evt : p[1] \notin OwnNames
        /\ \A name \in {"original", "category", "type", "outcome", "code"} :
              ~Has(i.evt, <<"event", name>>)
        /\ message[1] = "json" =>
              /\ IsTree(document) /\ Has(document, << >>)
              /\ \A x \in {Src, Dest} : \A name \in {x.vpc, x.instance, x.location} :
                    i.dataset = "firewall" => ~Has(document, <<"jsonPayload", name>>)
              /\ ~Has(document, <<"protoPayload", "authorization_info">>)
              /\ LET list == Get(document, <<"protoPayload", "authorizationInfo">>)
                 IN  list # Null =>
                       /\ Len(list[2]) \in Nat /\ DOMAIN list[2] = 1..Len(list[2])
                       /\ \A n \in DOMAIN list[2] :
                             list[2][n] \in [fields : SUBSET STRING, granted : Granting]
ASSUME InputsAssumption == \A i \in Inputs : IsInput(i)

(* For the proofs: the names that the scripts write out are strings.         *)
ASSUME StringsAssumption ==
    {"@timestamp", "@type", "Event", "_event_severity", "_message", "_tmp", "access_list",
     "address", "as", "asn", "audit", "authenticationInfo", "authentication_info",
     "authoritySelector", "authority_selector", "authorizationInfo", "authorization_info",
     "availability_zone", "bytes", "bytes_sent", "callerIp", "callerSuppliedUserAgent",
     "caller_ip", "caller_supplied_user_agent", "category", "cisco", "cloud", "code",
     "community_id", "connection", "country", "country_name", "currentLocations",
     "current_locations", "description", "dest_instance", "dest_ip", "dest_location",
     "dest_port", "dest_vpc", "destination", "destinationAttributes", "direction",
     "disposition", "domain", "email", "end", "end_time", "event", "facility", "feed",
     "filter", "firewall", "geo", "googlecloud", "iana_number", "icmp", "id", "igmp",
     "info", "instance", "ios", "ip", "json", "jsonPayload", "labels", "level", "location",
     "log", "logName", "logger", "message", "methodName", "method_name", "misp", "ms",
     "name", "network", "numResponseItems", "num_response_items", "number", "original",
     "outcome", "packets", "packets_sent", "port", "principalEmail", "principal_email",
     "project", "project_id", "protoPayload", "proto_name", "protocol", "region", "related",
     "remote_instance", "remote_location", "remote_vpc", "reporter", "request",
     "requestAttributes", "requestMetadata", "request_metadata", "resource",
     "resourceLocation", "resourceName", "resource_location", "resource_name", "rtt",
     "rtt_msec", "rule_details", "sequence", "service", "serviceName", "service_name",
     "severity", "source", "src_instance", "src_ip", "src_location", "src_port", "src_vpc",
     "start", "start_time", "status", "subnetwork_name", "threat_indicator", "timestamp",
     "transport", "ts", "type", "user", "user_agent", "uuid", "value", "vm_name", "vpc",
     "vpcflow", "zone"} \subseteq STRING

Init == input = NoInput /\ evt = << >> /\ at = 1 /\ status = "waiting"

Receive(i) ==
    /\ status = "waiting"
    /\ input' = i /\ evt' = i.evt
    /\ status' = "running"
    /\ UNCHANGED at
Publish ==
    /\ Published
    /\ input' = NoInput /\ evt' = << >> /\ at' = 1 /\ status' = "waiting"

Script ==
    \/ input.dataset = "firewall" /\ Firewall!Next
    \/ input.dataset = "vpcflow" /\ Vpcflow!Next
    \/ input.dataset = "audit" /\ Audit!Next
    \/ input.dataset = "ios" /\ Cisco!Next
    \/ input.dataset = "threat" /\ Misp!Next
Next == (\E i \in Inputs : Receive(i)) \/ Script \/ Publish
Spec == Init /\ [][Next]_vars
-----------------------------------------------------------------------------
Done(datasets) == status = "done" /\ input.dataset \in datasets
Message == Get(input.evt, <<"message">>)

(* The variables have their types; what has a field below it is an object;   *)
(* and ports and addresses of traffic that went through are of their type.   *)
TypeOK ==
    /\ input \in Inputs \union {NoInput}
    /\ status \in {"waiting", "running", "done", "exception"}
    /\ at \in 1..25
    /\ IsEvent(evt)
    /\ Done({"firewall", "vpcflow", "ios"}) =>
          \A end \in {"source", "destination"} :
              /\ Has(evt, <<end, "port">>) => evt[<<end, "port">>][1] = "long"
              /\ Has(evt, <<end, "ip">>) => IsIP(evt[<<end, "ip">>])

(* Whatever throws, what the log said is published: as it came, parsed, or   *)
(* under the names of the dataset.  What a script that threw leaves parsed   *)
(* is the whole document, or all of its payload but what the payload has     *)
(* under its own name.  cisco keeps the original text, and googlecloud where *)
(* keep_original_message asks for it, of every event that went through.      *)
Parsed(tree) == \A r \in DOMAIN tree : Get(evt, <<"json">> \o r) = tree[r]
EntryKept ==
    /\ input.dataset \in Googlecloud =>
          \/ Get(evt, <<"message">>) = Message
          \/ Get(evt, <<"event", "original">>) = Message
          \/ Has(evt, <<"json">>)
          \/ Has(evt, <<"googlecloud", input.dataset>>)
    /\ input.dataset \in Googlecloud /\ status = "exception" /\ Has(evt, <<"json">>) =>
          LET name == IF input.dataset = "audit" THEN <<"protoPayload">> ELSE <<"jsonPayload">>
          IN  \/ Parsed(Document)
              \/ Has(Document, name) /\ Parsed(Delete(Tree(Document, name), name))
    /\ Done(Googlecloud) =>
          Get(evt, <<"event", "original">>) = IF input.keep THEN Message ELSE Null
    /\ input.dataset = "ios" /\ at > 1 => evt[<<"log", "original">>] = Message

(* What a script needs for a while is gone from an event that it finished,   *)
(* and what it replaces is replaced: in cisco the severity and the text are  *)
(* those of the message, also when the syslog input has set the severity of  *)
(* the syslog header.                                                        *)
ReplacedCleanly ==
    /\ Done(Googlecloud) => ~Has(evt, <<"json">>) /\ ~Has(evt, <<"message">>)
    /\ Done({"ios"}) =>
          LET m == IF Message[1] = "line" THEN Message[2].message ELSE Message
          IN  /\ ~Has(evt, <<"_tmp">>) /\ ~Has(evt, <<"_message">>)
              /\ ~Has(evt, <<"_event_severity">>)
              /\ evt[<<"event", "severity">>] = Long(m[2].severity[2])
              /\ evt[<<"message">>] = m[2].body

(* firewall: source is the end that opened the connection, whichever end     *)
(* reported it, and a connection between two known instances is internal.    *)
(* vpcflow: the cloud fields are those of the instance that reported the     *)
(* flow.  cloud.instance.name is not among them: vm_name has been moved.     *)
Sender == IF Payload(<<"rule_details", "direction">>) = Str("EGRESS") THEN "instance"
          ELSE "remote_instance"
Receiver == IF Sender = "instance" THEN "remote_instance" ELSE "instance"
Reporter == IF Payload(<<"reporter">>) = Str("SRC") THEN "src_instance" ELSE "dest_instance"
ReporterTold(field) ==
    IF Payload(<<"reporter">>) = Null THEN Null ELSE Payload(<<Reporter, field>>)
EndsAsReported ==
    /\ Done({"firewall"})
         /\ Payload(<<"rule_details", "direction">>) \in {Str("EGRESS"), Str("INGRESS")} =>
           /\ Get(evt, <<"source", "domain">>) = Payload(<<Sender, "vm_name">>)
           /\ Get(evt, <<"destination", "domain">>) = Payload(<<Receiver, "vm_name">>)
           /\ Get(evt, <<"googlecloud", "source", "instance", "project_id">>)
                  = Payload(<<Sender, "project_id">>)
           /\ (Get(evt, <<"network", "direction">>) = Str("internal"))
                  = (Payload(<<"instance">>) # Null /\ Payload(<<"remote_instance">>) # Null)
    /\ Done({"vpcflow"}) =>
           /\ Get(evt, <<"cloud", "project", "id">>) = ReporterTold("project_id")
           /\ Get(evt, <<"cloud", "region">>) = ReporterTold("region")
           /\ Get(evt, <<"cloud", "availability_zone">>) = ReporterTold("zone")

(* A flow has an id when, and only when, the log tells both addresses, a     *)
(* protocol and the ports that a protocol with ports needs, however the      *)
(* numbers are written; firewall knows the protocol by its number only,      *)
(* cisco by its name or else its number.  The transport is named after the   *)
(* number.                                                                   *)
Number(v) == v[1] \in {"string", "long"} /\ v[2] \in Numerals
FlowIdentified ==
    /\ Done({"firewall", "vpcflow"}) =>
          LET protocol == Payload(<<"connection", "protocol">>)
              Known(texts) == protocol # Null /\ protocol[2] \in texts
          IN  /\ Has(evt, <<"network", "community_id">>)
                     = (/\ Known(IF input.dataset = "firewall" THEN Numerals ELSE Protocols)
                        /\ IsIP(Address(Src)) /\ IsIP(Address(Dest))
                        /\ Known(Ported) => Number(Port(Src)) /\ Number(Port(Dest)))
              /\ Known({"6", "17"}) => Get(evt, <<"network", "transport">>)
                                           = Str(IF protocol[2] = "6" THEN "tcp" ELSE "udp")
    /\ Done({"ios"}) /\ Has(evt, <<"event", "category">>) =>
          LET told == ToSet(evt[<<"message">>][2])
              protocols == {f[2][2] : f \in {g \in told : g[1] \in {<<"network", "transport">>,
                                                                  <<"network", "iana_number">>}}}
              ported == \E f \in told : f[1] = <<"source", "port">>
          IN  Has(evt, <<"network", "community_id">>)
                  = \E p \in protocols \intersect Protocols : p \in Ported => ported

(* The addresses of the event are those of the log that are addresses: each  *)
(* is related once, and the source's decides on the type of the network.     *)
AddressesRelated ==
    Done({"firewall", "vpcflow"}) =>
        LET listed == Listed(evt, <<"related", "ip">>)
        IN  /\ ToSet(listed) = {a \in {Address(Src), Address(Dest)} : IsIP(a)}
            /\ Len(listed) = Cardinality(ToSet(listed))
            /\ Get(evt, <<"network", "type">>) =
                   IF ~IsIP(Address(Src)) THEN Null
                   ELSE Str(IF Address(Src)[2] \in Dotted THEN "ipv4" ELSE "ipv6")

(* audit: an event that went through has the outcome its status says, and    *)
(* without a status that of its one authorization.  An entry without         *)
(* authorizations never gets there.                                          *)
OutcomeAgrees ==
    Done({"audit"}) =>
        LET code == Get(Document, <<"protoPayload", "status", "code">>)
            arr == Get(Document, <<"protoPayload", "authorizationInfo">>)[2]
            Granted(g) == {x \in DOMAIN arr : arr[x].granted = g}
        IN  Get(evt, <<"event", "outcome">>) = Str(
              CASE code = Long("0") -> "success"
                [] code \notin {Null, Long("0")} -> "failure"
                [] code = Null /\ Len(arr) = 1 /\ Granted("true") # {} -> "success"
                [] code = Null /\ Len(arr) = 1 /\ Granted("false") # {} -> "failure"
                [] OTHER -> "unknown")

(* A script throws only on what it cannot read: JSON and time, a payload of  *)
(* another kind, numbers that are none; audit also on a caller that is no    *)
(* address and on an entry without authorizations, misp on a type that takes *)
(* a value apart that is not there.  firewall goes on with bad numbers.      *)
Told(f) == Has(Document, f)
NoNumber(f) == Told(f) /\ ~Number(Document[f])
VpcflowNumbers ==
    {<<"jsonPayload">> \o p :
        p \in {<<"connection", "src_port">>, <<"connection", "dest_port">>,
               <<"src_location", "asn">>, <<"dest_location", "asn">>,
               <<"bytes_sent">>, <<"packets_sent">>, <<"rtt_msec">>}}
ThrowsForCause ==
    status = "exception" =>
        LET timed == Told(<<"timestamp">>) => Document[<<"timestamp">>][2] \in Instants
            caller == <<"protoPayload", "requestMetadata", "callerIp">>
        IN  CASE input.dataset = "firewall" -> ~timed \/ Payload(<< >>) = Null
              [] input.dataset = "vpcflow" ->
                     ~timed \/ Payload(<< >>) = Null \/ \E f \in VpcflowNumbers : NoNumber(f)
              [] input.dataset = "audit" ->
                     \/ ~timed
                     \/ Get(Document, <<"protoPayload", "authorizationInfo">>) = Null
                     \/ NoNumber(<<"protoPayload", "numResponseItems">>)
                     \/ Told(caller) /\ ~IsIP(Document[caller])
              [] input.dataset = "threat" -> Get(Document, <<"value">>) = Null
              [] OTHER -> TRUE

(* cisco: an event that is published as firewall traffic has had all its     *)
(* addresses and numbers converted, also when the script threw.              *)
CategorisedMeansConverted ==
    input.dataset = "ios" /\ Has(evt, <<"event", "category">>) =>
        /\ \A x \in {<<"source">>, <<"destination">>} :
              /\ IsIP(Get(evt, x \o <<"ip">>))
              /\ evt[x \o <<"ip">>] = Get(evt, x \o <<"address">>)
        /\ Get(evt, <<"network", "packets">>) = Get(evt, <<"source", "packets">>)
        /\ \A p \in {<<"source", "port">>, <<"source", "packets">>, <<"destination", "port">>,
                    <<"icmp", "type">>, <<"icmp", "code">>, <<"igmp", "type">>} :
              Has(evt, p) => evt[p][1] = "long"

(* misp: an indicator has both patterns, or an error that says why not.  A   *)
(* pattern compares with the whole of the indicator, both parts of a pair,   *)
(* of which only a mask may be left out; and what the event has of the       *)
(* compared fields is what they are compared with.                           *)
PatternCoversValue ==
    Done({"threat"}) =>
        LET pattern == Get(evt, Misp!Indicator(<<"attack_pattern">>))
            value == Get(evt, <<"message">>)
            Texts(v) == {v[2][n][1] : n \in DOMAIN v[2]}
            After(t) == IF t \in DOMAIN AfterAS THEN AfterAS[t] ELSE t
        IN  /\ pattern = Get(evt, Misp!Indicator(<<"attack_pattern_kql">>))
            /\ (pattern = Null) = Has(evt, <<"error", "message">>)
            /\ pattern # Null /\ value # Null =>
                 /\ UNION {Texts(pattern[2][x][2]) : x \in DOMAIN pattern[2]}
                        \in {Texts(value), {After(t) : t \in Texts(value)}}
                 /\ \A x \in DOMAIN pattern[2] :
                      Has(evt, pattern[2][x][1]) => evt[pattern[2][x][1]] = pattern[2][x][2]

(* Not so: firewall's step setCloudMetadata sets the cloud fields of the     *)
(* instance that reported the connection.                                    *)
FirewallCloudMetadata ==
    Done({"firewall"}) /\ Payload(<<"rule_details", "direction">>) \in {Str("EGRESS"), Str("INGRESS")}
        => Get(evt, <<"cloud", "project", "id">>) = Payload(<<"instance", "project_id">>)
=============================================================================
