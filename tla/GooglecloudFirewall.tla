------------------------ MODULE GooglecloudFirewall ------------------------
(***************************************************************************)
(* The script of the firewall fileset of filebeat's googlecloud module:    *)
(* firewall/config/pipeline.js.  A log entry of Stackdriver arrives as     *)
(* JSON text.  One action per step of the chain, with the step's name.     *)
(* The debug steps log and change nothing; they are left out.              *)
(***************************************************************************)
EXTENDS VpcEnds

Chain ==
    <<"decodeJson", "parseTimestamp">>
        \o (IF input.keep THEN <<"saveOriginalMessage">> ELSE << >>)
        \o <<"dropPubSubFields", "categorizeEvent", "saveMetadata", "convertLogEntry",
             "addOutcome", "addDirection", "conditionalRename", "ianaNumber",
             "transportFromIANA", "convertJsonPayload", "dropEmptyObjects",
             "copyAddressFields", "setCloudMetadata", "communityId", "setInternalDirection",
             "setNetworkType", "setRelatedIP">>
Do(name, result) == Step(Chain, name, result)

(* options.mappings is looked up by the text of the key; a default that is   *)
(* not given puts nothing.                                                   *)
makeMapper(e, from, to, mappings, default) ==
    LET key == Get(e, from)
        value == IF Len(key) = 2 /\ key[2] \in DOMAIN mappings THEN Str(mappings[key[2]])
                 ELSE default
    IN  IF value = Null THEN Ok(e) ELSE Ok(Put(e, to, value))

(* The branch named by the condition's value, or none. *)
makeConditional(value, branches) ==
    IF Len(value) = 2 /\ value[2] \in DOMAIN branches THEN branches[value[2]] ELSE Ok(evt)

Direction == <<"json", "rule_details", "direction">>
-----------------------------------------------------------------------------
decodeJson == Do("decodeJson", DecodeJSON(evt, <<"message">>, <<"json">>))
parseTimestamp == Do("parseTimestamp", Timestamp(evt, <<"json", "timestamp">>))
saveOriginalMessage ==
    Do("saveOriginalMessage",
       Convert(evt, <<Field(<<"message">>, <<"event", "original">>)>>, "rename", FALSE, TRUE))
dropPubSubFields ==
    Do("dropPubSubFields", Ok(Delete(Delete(evt, <<"message">>), <<"labels">>)))
categorizeEvent ==
    Do("categorizeEvent",
       Ok(PutAll(evt, <<<<<<"event", "category">>, Str("firewall-rule")>>,
                        <<<<"event", "type">>, Str("firewall")>>>>)))
saveMetadata ==
    Do("saveMetadata",
       Convert(evt, <<Field(<<"json", "logName">>, <<"log", "logger">>),
                      Field(<<"json", "resource", "labels", "subnetwork_name">>,
                            <<"network", "name">>)>>, "copy", TRUE, TRUE))
(* The payload takes the place of the entry it is in. *)
convertLogEntry ==
    Do("convertLogEntry",
       Convert(evt, <<Field(<<"json", "jsonPayload">>, <<"json">>)>>, "rename", FALSE, TRUE))

addOutcome ==
    Do("addOutcome", makeMapper(evt, <<"json", "disposition">>, <<"event", "outcome">>,
                                [ALLOWED |-> "allow", DENIED |-> "deny"], Str("unknown")))
addDirection ==
    Do("addDirection", makeMapper(evt, Direction, <<"network", "direction">>,
                                  [INGRESS |-> "inbound", EGRESS |-> "outbound"],
                                  Str("unknown")))

(* The instance that reports is the near end: the source of what goes out,   *)
(* the destination of what comes in.                                         *)
NearAndFar(near, far) ==
    <<Field(<<"json", "vpc">>, <<"json", near.vpc>>),
      Field(<<"json", "instance">>, <<"json", near.instance>>),
      Field(<<"json", "location">>, <<"json", near.location>>),
      Field(<<"json", "remote_vpc">>, <<"json", far.vpc>>),
      Field(<<"json", "remote_instance">>, <<"json", far.instance>>),
      Field(<<"json", "remote_location">>, <<"json", far.location>>)>>
conditionalRename_Swapped ==  \* slip: the two directions exchanged
    Do("conditionalRename",
       makeConditional(Get(evt, Direction),
           [EGRESS |-> Convert(evt, NearAndFar(Dest, Src), "rename", TRUE, FALSE),
            INGRESS |-> Convert(evt, NearAndFar(Src, Dest), "rename", TRUE, FALSE)]))
conditionalRename ==
    Do("conditionalRename",
       makeConditional(Get(evt, Direction),
           [EGRESS |-> Convert(evt, NearAndFar(Src, Dest), "rename", TRUE, FALSE),
            INGRESS |-> Convert(evt, NearAndFar(Dest, Src), "rename", TRUE, FALSE)]))

ianaNumber ==
    Do("ianaNumber",
       Convert(evt, <<Typed(<<"json", "connection", "protocol">>,
                            <<"network", "iana_number">>, "long")>>, "copy", FALSE, FALSE))
transportFromIANA ==
    Do("transportFromIANA",
       makeMapper(evt, <<"network", "iana_number">>, <<"network", "transport">>,
                  ("1" :> "icmp" @@ "6" :> "tcp" @@ "17" :> "udp"), Null))

convertJsonPayload ==
    Do("convertJsonPayload",
       Convert(evt, Renames(Dest) \o Renames(Src) \o Remainders(Dest) \o Remainders(Src)
                    \o <<Field(<<"json">>, <<"googlecloud", "firewall">>)>>,
               "rename", TRUE, FALSE))
dropEmptyObjects ==
    Do("dropEmptyObjects",
       Ok(DeleteAll(evt, {<<"googlecloud", "firewall", name>> :
                             name \in {"connection", "dest_location", "disposition",
                                       "src_location"}})))
copyAddressFields ==
    Do("copyAddressFields",
       Convert(evt, <<CopiesToIP(Src), CopiesToIP(Dest)>>, "copy", FALSE, FALSE))

(* The condition reads json, which convertJsonPayload has moved away. *)
setCloudMetadata ==
    Do("setCloudMetadata",
       makeConditional(Get(evt, Direction),
           [EGRESS |-> Convert(evt, CloudFields(Src), "copy", TRUE, TRUE),
            INGRESS |-> Convert(evt, CloudFields(Dest), "copy", TRUE, TRUE)]))
communityId ==
    Do("communityId", Ok(CommunityID(evt, Get(evt, <<"network", "iana_number">>))))

(* An instance counts when it is an object, whatever fields it has left.     *)
setInternalDirection ==
    Do("setInternalDirection",
       Ok(IF /\ Has(evt, <<"googlecloud", "source", "instance">>)
             /\ Has(evt, <<"googlecloud", "destination", "instance">>)
          THEN Put(evt, <<"network", "direction">>, Str("internal"))
          ELSE evt))
setNetworkType == Do("setNetworkType", Ok(SetNetworkType(evt)))
setRelatedIP == Do("setRelatedIP", Ok(SetRelatedIP(evt)))

Next ==
    \/ decodeJson \/ parseTimestamp \/ saveOriginalMessage \/ dropPubSubFields
    \/ categorizeEvent \/ saveMetadata \/ convertLogEntry \/ addOutcome \/ addDirection
    \/ conditionalRename \/ ianaNumber \/ transportFromIANA \/ convertJsonPayload
    \/ dropEmptyObjects \/ copyAddressFields \/ setCloudMetadata \/ communityId
    \/ setInternalDirection \/ setNetworkType \/ setRelatedIP
=============================================================================
