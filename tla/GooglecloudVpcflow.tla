------------------------- MODULE GooglecloudVpcflow -------------------------
(***************************************************************************)
(* The script of the vpcflow fileset of filebeat's googlecloud module:     *)
(* vpcflow/config/pipeline.js.  One action per step of the chain, with the *)
(* step's name.                                                            *)
(***************************************************************************)
EXTENDS VpcEnds

Chain ==
    <<"decodeJson", "parseTimestamp", "saveOriginalMessage", "dropPubSubFields",
      "categorizeEvent", "saveMetadata", "convertLogEntry", "convertJsonPayload",
      "dropEmptyObjects", "copyAddressFields", "setCloudMetadata", "communityId",
      "setNetworkBytesPackets", "setNetworkTransport", "setNetworkDirection",
      "setNetworkType", "setRelatedIP">>
Do(name, result) == Step(Chain, name, result)
-----------------------------------------------------------------------------
decodeJson == Do("decodeJson", DecodeJSON(evt, <<"message">>, <<"json">>))
parseTimestamp == Do("parseTimestamp", Timestamp(evt, <<"json", "timestamp">>))
saveOriginalMessage_Copy ==  \* slip: kept although nobody asked for it
    Do("saveOriginalMessage",
       Convert(evt, <<Field(<<"message">>, <<"event", "original">>)>>, "rename", FALSE, TRUE))
saveOriginalMessage ==
    Do("saveOriginalMessage",
       IF input.keep
       THEN Convert(evt, <<Field(<<"message">>, <<"event", "original">>)>>, "rename", FALSE, TRUE)
       ELSE Ok(evt))
dropPubSubFields ==
    Do("dropPubSubFields", Ok(Delete(Delete(evt, <<"message">>), <<"labels">>)))
categorizeEvent ==
    Do("categorizeEvent",
       Ok(PutAll(evt, <<<<<<"event", "category">>, Str("network_traffic")>>,
                        <<<<"event", "type">>, Str("flow")>>>>)))
saveMetadata ==
    Do("saveMetadata",
       Convert(evt, <<Field(<<"json", "logName">>, <<"log", "logger">>)>>, "copy", TRUE, TRUE))
convertLogEntry ==
    Do("convertLogEntry",
       Convert(evt, <<Field(<<"json", "jsonPayload">>, <<"json">>)>>, "rename", FALSE, TRUE))

Protocol(type) ==
    <<Typed(<<"json", "connection", "protocol">>, <<"network", "iana_number">>, type)>>
Counters ==
    <<Typed(<<"json", "bytes_sent">>, <<"source", "bytes">>, "long"),
      Typed(<<"json", "packets_sent">>, <<"source", "packets">>, "long"),
      Field(<<"json", "start_time">>, <<"event", "start">>),
      Field(<<"json", "end_time">>, <<"event", "end">>)>>
Rest ==
    <<Typed(<<"json", "rtt_msec">>, <<"json", "rtt", "ms">>, "long"),
      Field(<<"json">>, <<"googlecloud", "vpcflow">>)>>
convertJsonPayload_Number ==  \* slip: the protocol converted to a number, as in firewall
    Do("convertJsonPayload",
       Convert(evt, Renames(Dest) \o Protocol("long") \o Renames(Src) \o Counters
                    \o Remainders(Dest) \o Remainders(Src) \o Rest,
               "rename", TRUE, TRUE))
(* One field that cannot be converted leaves all of them where they are.     *)
convertJsonPayload ==
    Do("convertJsonPayload",
       Convert(evt, Renames(Dest) \o Protocol("string") \o Renames(Src) \o Counters
                    \o Remainders(Dest) \o Remainders(Src) \o Rest,
               "rename", TRUE, TRUE))
dropEmptyObjects ==
    Do("dropEmptyObjects",
       Ok(DeleteAll(evt, {<<"googlecloud", "vpcflow", name>> :
                             name \in {"connection", "dest_location", "src_location"}})))
copyAddressFields ==
    Do("copyAddressFields",
       Convert(evt, <<CopiesToIP(Src), CopiesToIP(Dest)>>, "copy", FALSE, FALSE))

setCloudMetadata ==
    Do("setCloudMetadata",
       LET reporter == Get(evt, <<"googlecloud", "vpcflow", "reporter">>)
       IN  CASE reporter = Str("DEST") -> Convert(evt, CloudFields(Dest), "copy", TRUE, TRUE)
             [] reporter = Str("SRC") -> Convert(evt, CloudFields(Src), "copy", TRUE, TRUE)
             [] OTHER -> Ok(evt))
communityId ==
    Do("communityId", Ok(CommunityID(evt, Get(evt, <<"network", "iana_number">>))))
setNetworkBytesPackets ==
    Do("setNetworkBytesPackets",
       Convert(evt, <<Field(<<"source", "bytes">>, <<"network", "bytes">>),
                      Field(<<"source", "packets">>, <<"network", "packets">>)>>,
               "copy", TRUE, TRUE))
(* The cases are texts: a number would match neither. *)
setNetworkTransport ==
    Do("setNetworkTransport",
       LET ianaNumber == Get(evt, <<"network", "iana_number">>)
       IN  Ok(CASE ianaNumber = Str("6") -> Put(evt, <<"network", "transport">>, Str("tcp"))
                [] ianaNumber = Str("17") -> Put(evt, <<"network", "transport">>, Str("udp"))
                [] OTHER -> evt))
setNetworkDirection ==
    Do("setNetworkDirection",
       LET srcInstance == Has(evt, <<"googlecloud", "source", "instance">>)
           destInstance == Has(evt, <<"googlecloud", "destination", "instance">>)
           direction == CASE srcInstance /\ destInstance -> "internal"
                          [] srcInstance /\ ~destInstance -> "outbound"
                          [] ~srcInstance /\ destInstance -> "inbound"
                          [] OTHER -> "unknown"
       IN  Ok(Put(evt, <<"network", "direction">>, Str(direction))))
setNetworkType == Do("setNetworkType", Ok(SetNetworkType(evt)))
setRelatedIP == Do("setRelatedIP", Ok(SetRelatedIP(evt)))

Next ==
    \/ decodeJson \/ parseTimestamp \/ saveOriginalMessage \/ dropPubSubFields
    \/ categorizeEvent \/ saveMetadata \/ convertLogEntry \/ convertJsonPayload
    \/ dropEmptyObjects \/ copyAddressFields \/ setCloudMetadata \/ communityId
    \/ setNetworkBytesPackets \/ setNetworkTransport \/ setNetworkDirection
    \/ setNetworkType \/ setRelatedIP
=============================================================================
