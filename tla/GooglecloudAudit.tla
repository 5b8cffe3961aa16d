-------------------------- MODULE GooglecloudAudit --------------------------
(***************************************************************************)
(* The script of the audit fileset of filebeat's googlecloud module:       *)
(* audit/config/pipeline.js.  One action per step of the chain, with the   *)
(* step's name.  A list of authorizations is <<"list", s>>, s the sequence *)
(* of what each one has: its fields, and whether it is granted.            *)
(***************************************************************************)
EXTENDS ScriptProcessor

Chain ==
    <<"decodeJson", "parseTimestamp", "saveOriginalMessage", "dropPubSubFields",
      "saveMetadata", "setCloudMetadata", "convertLogEntry", "convertProtoPayload",
      "copyFields", "dropExtraFields", "RenameNestedFields", "setEventOutcome">>
Do(name, result) == Step(Chain, name, result)
-----------------------------------------------------------------------------
decodeJson == Do("decodeJson", DecodeJSON(evt, <<"message">>, <<"json">>))
parseTimestamp == Do("parseTimestamp", Timestamp(evt, <<"json", "timestamp">>))
saveOriginalMessage ==
    Do("saveOriginalMessage",
       IF input.keep
       THEN Convert(evt, <<Field(<<"message">>, <<"event", "original">>)>>, "rename", FALSE, TRUE)
       ELSE Ok(evt))
dropPubSubFields == Do("dropPubSubFields", Ok(Delete(evt, <<"message">>)))
saveMetadata ==
    Do("saveMetadata",
       Convert(evt, <<Field(<<"json", "logName">>, <<"log", "logger">>)>>, "copy", TRUE, TRUE))
setCloudMetadata ==
    Do("setCloudMetadata",
       Convert(evt, <<Field(<<"json", "resource", "labels", "project_id">>,
                            <<"cloud", "project", "id">>)>>, "copy", TRUE, TRUE))
convertLogEntry ==
    Do("convertLogEntry",
       Convert(evt, <<Field(<<"json", "protoPayload">>, <<"json">>)>>, "rename", FALSE, TRUE))

(* Fields that are renamed at the top of the payload, and within an object   *)
(* that is then renamed itself.                                              *)
Top(from, to) == Field(<<"json", from>>, <<"json", to>>)
In(obj, from, to) == Field(<<"json", obj, from>>, <<"json", obj, to>>)
PayloadFields ==
    <<Top("@type", "type"),
      In("authenticationInfo", "principalEmail", "principal_email"),
      In("authenticationInfo", "authoritySelector", "authority_selector"),
      Top("authenticationInfo", "authentication_info"),
      Top("authorizationInfo", "authorization_info"),
      Top("methodName", "method_name"),
      Typed(<<"json", "numResponseItems">>, <<"json", "num_response_items">>, "long"),
      In("request", "@type", "proto_name"),
      In("request", "filter", "filter"),
      In("request", "name", "name"),
      In("request", "resourceName", "resource_name"),
      Typed(<<"json", "requestMetadata", "callerIp">>,
            <<"json", "requestMetadata", "caller_ip">>, "ip"),
      In("requestMetadata", "callerSuppliedUserAgent", "caller_supplied_user_agent"),
      Top("requestMetadata", "request_metadata"),
      Top("resourceName", "resource_name"),
      In("resourceLocation", "currentLocations", "current_locations"),
      Top("resourceLocation", "resource_location"),
      Top("serviceName", "service_name"),
      Field(<<"json">>, <<"googlecloud", "audit">>)>>
(* A caller address that is no address, like "private", makes it throw. *)
convertProtoPayload ==
    Do("convertProtoPayload", Convert(evt, PayloadFields, "rename", TRUE, TRUE))

Audit(p) == <<"googlecloud", "audit">> \o p
CallerIP == Audit(<<"request_metadata", "caller_ip">>)
CopiedFields ==
    <<Field(CallerIP, <<"source", "ip">>),
      Field(Audit(<<"authentication_info", "principal_email">>), <<"user", "email">>),
      Field(Audit(<<"service_name">>), <<"service", "name">>),
      Field(Audit(<<"request_metadata", "caller_supplied_user_agent">>),
            <<"user_agent", "original">>)>>
copyFields_Strict ==  \* slip: fail_on_error left at its default
    Do("copyFields", Convert(evt, CopiedFields, "copy", FALSE, TRUE))
copyFields == Do("copyFields", Convert(evt, CopiedFields, "copy", FALSE, FALSE))
dropExtraFields ==
    Do("dropExtraFields",
       Ok(DeleteAll(evt, {<<"json">>, Audit(<<"request_metadata", "requestAttributes">>),
                          Audit(<<"request_metadata", "destinationAttributes">>)})))

(* arr.length of a list that is not there throws.  Every element has          *)
(* resource_attributes afterwards, undefined where it had no                  *)
(* resourceAttributes.                                                        *)
Authorizations == Audit(<<"authorization_info">>)
Renamed(a) == [a EXCEPT !.fields = (@ \ {"resourceAttributes"}) \union {"resource_attributes"}]
RenameNestedFields ==
    Do("RenameNestedFields",
       LET arr == Get(evt, Authorizations)
       IN  IF arr = Null THEN Throw(evt)
           ELSE Ok(Put(evt, Authorizations,
                       <<"list", [x \in DOMAIN arr[2] |-> Renamed(arr[2][x])]>>)))

(* Without a status the one authorization decides. *)
OutcomeOf_FirstOfMany(code, arr) ==  \* slip: the length is not looked at
    CASE code = Null /\ arr # << >> ->
             (CASE arr[1].granted = "unset" -> "unknown"
                [] arr[1].granted = "true" -> "success"
                [] OTHER -> "failure")
      [] code = Null /\ arr = << >> -> "unknown"
      [] code = Long("0") -> "success"
      [] OTHER -> "failure"
OutcomeOf(code, arr) ==
    CASE code = Null /\ Len(arr) = 1 ->
             (CASE arr[1].granted = "unset" -> "unknown"
                [] arr[1].granted = "true" -> "success"
                [] OTHER -> "failure")
      [] code = Null /\ Len(arr) # 1 -> "unknown"
      [] code = Long("0") -> "success"
      [] OTHER -> "failure"
setEventOutcome ==
    Do("setEventOutcome",
       LET code == Get(evt, Audit(<<"status", "code">>))
       IN  Ok(Put(evt, <<"event", "outcome">>,
                  Str(OutcomeOf(code, Get(evt, Authorizations)[2])))))

Next ==
    \/ decodeJson \/ parseTimestamp \/ saveOriginalMessage \/ dropPubSubFields
    \/ saveMetadata \/ setCloudMetadata \/ convertLogEntry \/ convertProtoPayload
    \/ copyFields \/ dropExtraFields \/ RenameNestedFields \/ setEventOutcome
=============================================================================
