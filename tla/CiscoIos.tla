------------------------------ MODULE CiscoIos ------------------------------
(***************************************************************************)
(* The script of the ios fileset of filebeat's cisco module:               *)
(* cisco/ios/config/pipeline.js.  A message is <<"ios", m>>, m its         *)
(* facility, severity, code and body; a line of a file read by the log     *)
(* input is <<"line", l>> with a message at its end.  The body of an       *)
(* access list message is <<"acl", f>>, f the fields it has, in order.      *)
(***************************************************************************)
EXTENDS ScriptProcessor

FromFile == Get(input.evt, <<"input", "type">>) = Str("log")
parseSyslogFileHeader ==
    <<"dissectHeader", "takeMessage", "convertSequence", "parseTimestamp", "deleteTmp">>
processMessage ==
    <<"dissectMessage", "replaceFields", "convertSeverity", "setLogLevel", "accessList",
      "communityId">>
Chain ==
    <<"copyOriginalMessage">>
        \o (IF FromFile THEN parseSyslogFileHeader ELSE << >>)
        \o processMessage
Do(name, result) == Step(Chain, name, result)
-----------------------------------------------------------------------------
copyOriginalMessage ==
    Do("copyOriginalMessage",
       Convert(evt, <<Field(<<"message">>, <<"log", "original">>)>>, "copy", FALSE, TRUE))

(* ------------------- the header of a line in a file --------------------- *)
HeaderOf(m) ==
    IF m[1] # "line" THEN << >>
    ELSE <<<<<<"_tmp", "ts">>, m[2].received>>, <<<<"log", "source", "address">>, m[2].host>>,
           <<<<"event", "sequence">>, m[2].sequence>>,
           <<<<"_tmp", "timestamp">>, m[2].timestamp>>, <<<<"_tmp", "message">>, m[2].message>>>>
dissectHeader == Do("dissectHeader", Dissect(evt, HeaderOf(Get(evt, <<"message">>))))
takeMessage ==
    Do("takeMessage",
       Convert(evt, <<Field(<<"_tmp", "message">>, <<"message">>)>>, "rename", FALSE, TRUE))
InPlace(p) == Typed(p, p, "long")
convertSequence ==
    Do("convertSequence", Convert(evt, <<InPlace(<<"event", "sequence">>)>>, "copy", TRUE, TRUE))
parseTimestamp == Do("parseTimestamp", Timestamp(evt, <<"_tmp", "timestamp">>))
deleteTmp == Do("deleteTmp", Ok(Delete(evt, <<"_tmp">>)))

(* ----------------------------- the message ------------------------------ *)
MessageFields(m) ==
    IF m[1] # "ios" THEN << >>
    ELSE <<<<<<"cisco", "ios", "facility">>, m[2].facility>>,
           <<<<"_event_severity">>, m[2].severity>>,
           <<<<"event", "code">>, m[2].code>>, <<<<"_message">>, m[2].body>>>>
dissectMessage == Do("dissectMessage", Dissect(evt, MessageFields(Get(evt, <<"message">>))))

(* The severity of the syslog header gives way to the one of the message. *)
Replace(e, from, to) == Rename(Delete(e, to), from, to)
replaceFields_Kept ==  \* slip: event.severity is not deleted before the rename
    Do("replaceFields",
       Ok(Rename(Replace(evt, <<"_message">>, <<"message">>),
                 <<"_event_severity">>, <<"event", "severity">>)))
replaceFields ==
    Do("replaceFields",
       Ok(Replace(Replace(evt, <<"_message">>, <<"message">>),
                  <<"_event_severity">>, <<"event", "severity">>)))
convertSeverity ==
    Do("convertSeverity", Convert(evt, <<InPlace(<<"event", "severity">>)>>, "copy", FALSE, TRUE))

LevelKeyword ==
    "0" :> "emergencies" @@ "1" :> "alerts" @@ "2" :> "critical" @@ "3" :> "errors"
        @@ "4" :> "warnings" @@ "5" :> "notifications" @@ "6" :> "informational"
        @@ "7" :> "debugging"
setLogLevel ==
    Do("setLogLevel",
       LET severity == Get(evt, <<"event", "severity">>)[2]
       IN  Ok(IF severity \in DOMAIN LevelKeyword
              THEN Put(evt, <<"log", "level">>, Str(LevelKeyword[severity]))
              ELSE evt))

(* --------------------- the messages of access lists --------------------- *)
AclHead(by) == <<<<"cisco", "ios", "access_list">>, <<"event", "outcome">>, by>>
Packets == <<"source", "packets">>
Transport == <<"network", "transport">>
From == <<"source", "address">>
To == <<"destination", "address">>
accessListMessagePatterns ==
    LET ports == AclHead(Transport) \o <<From, <<"source", "port">>, To, <<"destination", "port">>,
                                      Packets>>
        icmp == AclHead(Transport) \o <<From, To, <<"icmp", "type">>, <<"icmp", "code">>, Packets>>
        igmp == AclHead(Transport) \o <<From, To, <<"igmp", "type">>, Packets>>
        number == AclHead(<<"network", "iana_number">>) \o <<From, To, Packets>>
    IN  [IPACCESSLOGP |-> ports, IPACCESSLOGDP |-> icmp,
         IPACCESSLOGRP |-> AclHead(Transport) \o <<From, To, Packets>>,
         IPACCESSLOGSP |-> igmp, IPACCESSLOGNP |-> number,
         ACCESSLOGP |-> ports, ACCESSLOGSP |-> igmp, ACCESSLOGDP |-> icmp,
         ACCESSLOGNP |-> number]
(* The fields of a body that has the form of the pattern. *)
BodyFields(m, pattern) ==
    IF m[1] = "acl" /\ [x \in DOMAIN m[2] |-> m[2][x][1]] = pattern
    THEN [x \in DOMAIN pattern |-> <<pattern[x], m[2][x][2]>>]
    ELSE << >>

coerceNumbers(e) ==
    Convert(e, <<Typed(<<"destination", "address">>, <<"destination", "ip">>, "ip"),
                 InPlace(<<"destination", "port">>),
                 Typed(<<"source", "address">>, <<"source", "ip">>, "ip"),
                 InPlace(<<"source", "port">>), InPlace(<<"source", "packets">>),
                 Typed(<<"source", "packets">>, <<"network", "packets">>, "long"),
                 InPlace(<<"icmp", "type">>), InPlace(<<"icmp", "code">>),
                 InPlace(<<"igmp", "type">>)>>, "copy", TRUE, TRUE)
normalizeEventOutcome(e) ==
    CASE Get(e, <<"event", "outcome">>) = Str("denied") ->
             Put(e, <<"event", "outcome">>, Str("deny"))
      [] Get(e, <<"event", "outcome">>) = Str("permitted") ->
             Put(e, <<"event", "outcome">>, Str("allow"))
      [] OTHER -> e
setNetworkType(e) ==
    IF ~Has(e, <<"source", "ip">>) THEN e
    ELSE Put(e, <<"network", "type">>,
             Str(IF e[<<"source", "ip">>][2] \in Dotted THEN "ipv4" ELSE "ipv6"))
setRelatedIP(e) ==
    LET f == AppendTo(e, <<"related", "ip">>, Get(e, <<"source", "ip">>))
    IN  AppendTo(f, <<"related", "ip">>, Get(f, <<"destination", "ip">>))
Categorized(e) ==
    PutAll(e, <<<<<<"event", "category">>, Str("network_traffic")>>,
                <<<<"event", "type">>, Str("firewall")>>>>)

(* What throws in the middle leaves what was done before it. *)
AccessList_Early(pattern) ==  \* slip: categorised before the conversion
    LET d == Dissect(evt, BodyFields(Get(evt, <<"message">>), pattern))
        c == coerceNumbers(Categorized(d.evt))
    IN  IF d.ok /\ c.ok THEN Ok(setRelatedIP(setNetworkType(normalizeEventOutcome(c.evt))))
        ELSE IF d.ok THEN c ELSE d
AccessList(pattern) ==
    LET d == Dissect(evt, BodyFields(Get(evt, <<"message">>), pattern))
        c == coerceNumbers(d.evt)
    IN  IF d.ok /\ c.ok
        THEN Ok(Categorized(setRelatedIP(setNetworkType(normalizeEventOutcome(c.evt)))))
        ELSE IF d.ok THEN c ELSE d
accessList ==
    Do("accessList",
       LET eventCode == Get(evt, <<"event", "code">>)
       IN  IF eventCode # Null /\ eventCode[2] \in DOMAIN accessListMessagePatterns
           THEN AccessList(accessListMessagePatterns[eventCode[2]])
           ELSE Ok(evt))
(* By name, or by number where the message has no name. *)
communityId ==
    Do("communityId",
       Ok(CommunityID(evt, IF Has(evt, Transport) THEN evt[Transport]
                           ELSE Get(evt, <<"network", "iana_number">>))))

Next ==
    \/ copyOriginalMessage
    \/ dissectHeader \/ takeMessage \/ convertSequence \/ parseTimestamp \/ deleteTmp
    \/ dissectMessage \/ replaceFields \/ convertSeverity \/ setLogLevel \/ accessList
    \/ communityId
=============================================================================
