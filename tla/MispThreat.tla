----------------------------- MODULE MispThreat -----------------------------
(***************************************************************************)
(* The script of the threat fileset of filebeat's misp module:             *)
(* misp/threat/config/pipeline.js.  The value of an indicator is           *)
(* <<"value", s>>, s its parts between bars, each the sequence of its      *)
(* texts between slashes.  The two attack patterns of an indicator differ  *)
(* in their wording only; a pattern is the sequence of the comparisons it  *)
(* makes, a field and a value each.                                        *)
(***************************************************************************)
EXTENDS ScriptProcessor

CONSTANT AfterAS  \* texts that begin with AS -> what follows it

Chain == <<"decodeJson", "categorizeEvent", "setThreatFeedField", "convertFields",
           "setAttackPattern">>
Do(name, result) == Step(Chain, name, result)
Indicator(p) == <<"misp", "threat_indicator">> \o p
-----------------------------------------------------------------------------
decodeJson == Do("decodeJson", DecodeJSON(evt, <<"message">>, <<"json">>))
categorizeEvent ==
    Do("categorizeEvent",
       Ok(PutAll(evt, <<<<<<"event", "category">>, Str("threat-intel")>>,
                        <<<<"event", "type">>, Str("indicator")>>>>)))
setThreatFeedField ==
    Do("setThreatFeedField", Ok(Put(evt, Indicator(<<"feed">>), Str("misp"))))
convertFields ==
    Do("convertFields",
       Convert(evt, <<Field(<<"json", "Event", "info">>, Indicator(<<"description">>)),
                      Field(<<"json", "Event", "uuid">>, Indicator(<<"id">>))>>,
               "rename", TRUE, TRUE))

(* v.split("|"), and s.split("/")[0] of a part and of the whole. *)
Value(s) == <<"value", s>>
Part(v, n) == Value(<<v[2][n]>>)
BeforeSlash(v) ==
    LET cut == {n \in DOMAIN v[2] : Len(v[2][n]) > 1}
        n == CHOOSE x \in cut : \A y \in cut : x <= y
    IN  IF cut = {} THEN v ELSE Value(Append(SubSeq(v[2], 1, n - 1), <<v[2][n][1]>>))
(* v.substring of what begins with AS; only the first text can. *)
asn(v) == IF v[2][1][1] \in DOMAIN AfterAS
          THEN Value([v[2] EXCEPT ![1][1] = AfterAS[@]]) ELSE v

(* The field an indicator is compared with, where it is one.  url and link   *)
(* are alike, and so are the hashes.                                         *)
FieldOf ==
    "btc" :> <<"bitcoin", "address">> @@ "email-src" :> <<"user", "email">>
        @@ "filename" :> <<"file", "path">> @@ "github-username" :> <<"user", "name">>
        @@ "link" :> <<"url", "full">> @@ "url" :> <<"url", "full">>
        @@ "md5" :> <<"file", "hash", "md5">> @@ "sha1" :> <<"file", "hash", "sha1">>
        @@ "sha256" :> <<"file", "hash", "sha256">> @@ "sha512" :> <<"file", "hash", "sha512">>
        @@ "regkey" :> <<"regkey">> @@ "yara" :> <<"yara", "rule">>
FieldsOf ==
    "domain" :> <<<<"dns", "question", "name">>, <<"url", "domain">>, <<"source", "domain">>,
                  <<"destination", "domain">>>>
        @@ "hostname" :> <<<<"source", "domain">>, <<"destination", "domain">>>>
HashOf == "filename|md5" :> "md5" @@ "filename|sha1" :> "sha1" @@ "filename|sha256" :> "sha256"
Pairs == {"domain|ip", "ip-dst|port"} \union DOMAIN HashOf
Supported == {"AS", "ip-dst", "ip-src"} \union DOMAIN FieldOf \union DOMAIN FieldsOf \union Pairs

(* The types whose fields are put into the event too, as they are compared.  *)
Observed == {"email-src", "filename", "ip-dst", "ip-dst|port", "ip-src", "link", "url",
             "md5", "sha1", "sha256", "sha512"} \union DOMAIN HashOf

Both(f, g, v) == <<<<f, v>>, <<g, v>>>>
ComparedPair_OnePart(t, a, b) ==  \* slip: the domain compared with the addresses
    CASE t = "domain|ip" ->
             Both(<<"dns", "question", "name">>, <<"url", "domain">>, a)
                 \o Both(<<"source", "ip">>, <<"destination", "ip">>, a)
      [] t = "ip-dst|port" -> <<<<<<"destination", "ip">>, a>>, <<<<"destination", "port">>, b>>>>
      [] OTHER -> <<<<<<"file", "hash", HashOf[t]>>, b>>, <<<<"file", "path">>, a>>>>
ComparedPair(t, a, b) ==
    CASE t = "domain|ip" ->
             Both(<<"dns", "question", "name">>, <<"url", "domain">>, a)
                 \o Both(<<"source", "ip">>, <<"destination", "ip">>, BeforeSlash(b))
      [] t = "ip-dst|port" -> <<<<<<"destination", "ip">>, a>>, <<<<"destination", "port">>, b>>>>
      [] OTHER -> <<<<<<"file", "hash", HashOf[t]>>, b>>, <<<<"file", "path">>, a>>>>
(* No comparison where the code leaves the pattern undefined. *)
Compared(t, v) ==
    CASE t = "AS" -> Both(<<"source", "as", "number">>, <<"destination", "as", "number">>, asn(v))
      [] t = "ip-dst" -> <<<<<<"destination", "ip">>, BeforeSlash(v)>>>>
      [] t = "ip-src" -> <<<<<<"source", "ip">>, BeforeSlash(v)>>>>
      [] t \in DOMAIN FieldOf -> <<<<FieldOf[t], v>>>>
      [] t \in DOMAIN FieldsOf -> [x \in DOMAIN FieldsOf[t] |-> <<FieldsOf[t][x], v>>]
      [] t \in Pairs /\ Len(v[2]) = 2 -> ComparedPair(t, Part(v, 1), Part(v, 2))
      [] OTHER -> << >>
(* A method of a value that is not there throws. *)
CallsMethod == {"AS", "ip-dst", "ip-src"} \union Pairs

Explained(e, t, compared) ==
    PutAll(IF compared = << >> THEN Put(e, <<"error", "message">>, <<"unsupported", t>>) ELSE e,
           LET pattern == IF compared = << >> THEN Null ELSE <<"pattern", compared>>
           IN  <<<<Indicator(<<"attack_pattern">>), pattern>>,
                 <<Indicator(<<"attack_pattern_kql">>), pattern>>>>)
setAttackPattern ==
    Do("setAttackPattern",
       LET indicator_type == Get(evt, <<"json", "type">>)
           t == IF indicator_type = Null THEN "null" ELSE indicator_type[2]
           v == Get(evt, <<"json", "value">>)
           e == PutAll(evt, <<<<<<"message">>, v>>, <<Indicator(<<"type">>), indicator_type>>>>)
           text == IF v = Null THEN Value(<<<<"null">>>>) ELSE v
           f == CASE t \in Observed /\ v # Null -> PutAll(e, Compared(t, v))
                  [] t \in Observed /\ v = Null -> Put(e, FieldOf[t], Null)
                  [] OTHER -> e
       IN  IF v = Null /\ t \in CallsMethod THEN Throw(e)
           ELSE Ok(Explained(f, t, Compared(t, text))))

Next == decodeJson \/ categorizeEvent \/ setThreatFeedField \/ convertFields \/ setAttackPattern
=============================================================================
