------------------------------ MODULE VpcEnds ------------------------------
(***************************************************************************)
(* What the pipelines of googlecloud/firewall and googlecloud/vpcflow have *)
(* in common: a log entry tells of two ends of a connection, and every     *)
(* field of an end goes from the names of the log to those of the event.   *)
(***************************************************************************)
EXTENDS ScriptProcessor

(* The names of the two ends: in the event, and in the log. *)
Src == [end |-> "source", ip |-> "src_ip", port |-> "src_port", vpc |-> "src_vpc",
        instance |-> "src_instance", location |-> "src_location"]
Dest == [end |-> "destination", ip |-> "dest_ip", port |-> "dest_port", vpc |-> "dest_vpc",
         instance |-> "dest_instance", location |-> "dest_location"]

(* continent, region and city go where country goes. *)
Renames(x) ==
    <<Field(<<"json", "connection", x.ip>>, <<x.end, "address">>),
      Typed(<<"json", "connection", x.port>>, <<x.end, "port">>, "long"),
      Field(<<"json", x.instance, "vm_name">>, <<x.end, "domain">>),
      Typed(<<"json", x.location, "asn">>, <<x.end, "as", "number">>, "long"),
      Field(<<"json", x.location, "country">>, <<x.end, "geo", "country_name">>)>>
Remainders(x) ==
    <<Field(<<"json", x.instance>>, <<"googlecloud", x.end, "instance">>),
      Field(<<"json", x.vpc>>, <<"googlecloud", x.end, "vpc">>)>>
CopiesToIP_Any(x) ==  \* slip: no type, so that any address is copied
    Field(<<x.end, "address">>, <<x.end, "ip">>)
CopiesToIP(x) == Typed(<<x.end, "address">>, <<x.end, "ip">>, "ip")

(* What an end's instance says of the cloud. *)
CloudFields(x) ==
    LET instance == <<"googlecloud", x.end, "instance">>
    IN  <<Field(instance \o <<"project_id">>, <<"cloud", "project", "id">>),
          Field(instance \o <<"vm_name">>, <<"cloud", "instance", "name">>),
          Field(instance \o <<"region">>, <<"cloud", "region">>),
          Field(instance \o <<"zone">>, <<"cloud", "availability_zone">>),
          Field(<<"googlecloud", x.end, "vpc", "subnetwork_name">>, <<"network", "name">>)>>

SetNetworkType(e) ==
    IF ~Has(e, <<"source", "ip">>) THEN e
    ELSE Put(e, <<"network", "type">>,
             Str(IF e[<<"source", "ip">>][2] \in Dotted THEN "ipv4" ELSE "ipv6"))
SetRelatedIP_Address(e) ==  \* slip: addresses that may be names
    LET f == AppendTo(e, <<"related", "ip">>, Get(e, <<"source", "address">>))
    IN  AppendTo(f, <<"related", "ip">>, Get(f, <<"destination", "address">>))
SetRelatedIP(e) ==
    LET f == AppendTo(e, <<"related", "ip">>, Get(e, <<"source", "ip">>))
    IN  AppendTo(f, <<"related", "ip">>, Get(f, <<"destination", "ip">>))
-----------------------------------------------------------------------------
(* The log entry as it came, for the properties. *)
Document == IF Get(input.evt, <<"message">>)[1] = "json" THEN input.evt[<<"message">>][2]
            ELSE << >>
Payload(p) == Get(Document, <<"jsonPayload">> \o p)
Address(x) == Payload(<<"connection", x.ip>>)
Port(x) == Payload(<<"connection", x.port>>)
=============================================================================
