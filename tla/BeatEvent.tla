----------------------------- MODULE BeatEvent -----------------------------
(***************************************************************************)
(* The event that filebeat gives to a module's script, and the operations  *)
(* of libbeat the scripts are written with.  libbeat is not in the         *)
(* repository: the operations are modelled from how the scripts use them.  *)
(*                                                                         *)
(* An event is a function from the paths it has, as sequences of names, to *)
(* their values.  A value is a tuple that starts with its kind; a path     *)
(* with fields below it holds Obj, and goes on holding it when the last of *)
(* them is gone.                                                           *)
(***************************************************************************)
EXTENDS Naturals, Sequences, FiniteSets, TLC

CONSTANTS
    Numerals,  \* texts that are integers
    Dotted,    \* texts that are IPv4 addresses
    Coloned,   \* texts that are IPv6 addresses
    Instants   \* texts that are times in the layouts of the scripts

(* As in SequencesExt; the scripts are instances, and each would have its    *)
(* own copy of everything in that module.                                    *)
IsPrefix(s, t) == Len(s) <= Len(t) /\ SubSeq(s, 1, Len(s)) = SubSeq(t, 1, Len(s))
ToSet(s) == {s[i] : i \in DOMAIN s}

Null == <<"null">>
Obj == <<"object">>
Str(t) == <<"string", t>>
Long(t) == <<"long", t>>

Has(e, p) == p \in DOMAIN e
Get(e, p) == IF Has(e, p) THEN e[p] ELSE Null
Above(p) == {SubSeq(p, 1, n) : n \in 1..(Len(p) - 1)}
Names == Seq(STRING)
Paths == Names \ {<< >>}
IsEvent(e) == \A p \in DOMAIN e : p \in Paths /\ \A q \in Above(p) : q \in DOMAIN e /\ e[q] = Obj
(* What is below a path, with the empty path for what is at it.               *)
IsTree(t) ==
    \A r \in DOMAIN t :
        /\ r \in Names
        /\ \A q \in Above(r) : q \in DOMAIN t /\ t[q] = Obj
        /\ r # << >> => << >> \in DOMAIN t /\ t[<< >>] = Obj

Below(e, p) == {q \in DOMAIN e : IsPrefix(p, q)}
Delete(e, p) == [q \in DOMAIN e \ Below(e, p) |-> e[q]]
DeleteAll(e, paths) == [q \in DOMAIN e \ (UNION {Below(e, p) : p \in paths}) |-> e[q]]

(* The tree below p, with paths that start at p. *)
Tree(e, p) ==
    LET Rest(q) == SubSeq(q, Len(p) + 1, Len(q))
    IN  [r \in {Rest(q) : q \in Below(e, p)} |-> e[p \o r]]
Graft(e, p, t) ==
    LET grafted == {p \o r : r \in DOMAIN t}
    IN  [q \in grafted \union Above(p) \union DOMAIN Delete(e, p) |->
            IF q \in grafted THEN t[SubSeq(q, Len(p) + 1, Len(q))]
            ELSE IF q \in Above(p) THEN Obj
            ELSE e[q]]
Put(e, p, v) == Graft(e, p, [r \in {<< >>} |-> v])
PutAll(e, fields) ==
    LET f[n \in 0..Len(fields)] ==
            IF n = 0 THEN e ELSE Put(f[n - 1], fields[n][1], fields[n][2])
    IN  f[Len(fields)]
Copy(e, from, to) == Graft(e, to, Tree(e, from))
(* The new place is written before the old one is deleted. *)
Move(e, from, to) == Delete(Copy(e, from, to), from)
(* evt.Rename does nothing when there is no source, or there is a target.    *)
Rename(e, from, to) == IF Has(e, from) /\ ~Has(e, to) THEN Move(e, from, to) ELSE e

(* What an operation comes to: the event it leaves, and whether it throws.   *)
Ok(e) == [ok |-> TRUE, evt |-> e]
Throw(e) == [ok |-> FALSE, evt |-> e]

IsText(v) == v[1] = "string"
IsIP(v) == IsText(v) /\ v[2] \in Dotted \union Coloned
Convertible(v, type) ==
    CASE type = "long" -> v[1] \in {"string", "long"} /\ v[2] \in Numerals
      [] type = "ip" -> IsIP(v)
      [] OTHER -> TRUE
Converted(v, type) ==
    CASE type = "long" -> Long(v[2])
      [] type = "string" -> Str(v[2])
      [] OTHER -> v

(* A field of Convert: where from, where to, and the type, "" for any.       *)
Field(from, to) == <<from, to, "">>
Typed(from, to, type) == <<from, to, type>>
ConvertOne(e, f, mode) ==
    LET c == IF mode = "rename" THEN Move(e, f[1], f[2]) ELSE Copy(e, f[1], f[2])
    IN  IF f[3] = "" THEN c ELSE Put(c, f[2], Converted(e[f[1]], f[3]))

Missing(e, f) == ~Has(e, f[1])
Bad(e, f) == ~Missing(e, f) /\ ~Convertible(e[f[1]], f[3])
ConvertUsable(e, g, f, mode) ==
    IF Missing(e, f) \/ Bad(e, f) THEN g ELSE ConvertOne(g, f, mode)
ConvertEach(e, fields, mode) ==
    LET g[n \in 0..Len(fields)] ==
            IF n = 0 THEN e ELSE ConvertUsable(e, g[n - 1], fields[n], mode)
    IN  g[Len(fields)]

(* Convert looks at all fields before it writes the first.  A field that is  *)
(* missing or cannot be converted makes it throw and change nothing, or is   *)
(* left out: the scripts' ignore_missing and fail_on_error.                  *)
Convert(e, fields, mode, ignore_missing, fail_on_error) ==
    IF /\ fail_on_error
       /\ \E x \in DOMAIN fields : \/ Bad(e, fields[x])
                                   \/ Missing(e, fields[x]) /\ ~ignore_missing
    THEN Throw(e)
    ELSE Ok(ConvertEach(e, fields, mode))

(* A JSON document is <<"json", its tree>>; any other text does not parse.   *)
DecodeJSON(e, from, to) ==
    CASE ~Has(e, from) -> Ok(e)
      [] Get(e, from)[1] = "json" -> Ok(Graft(e, to, e[from][2]))
      [] OTHER -> Throw(e)

Timestamp(e, from) ==
    CASE ~Has(e, from) -> Ok(e)
      [] Has(e, from) /\ Get(e, from)[2] \in Instants -> Ok(Put(e, <<"@timestamp">>, e[from]))
      [] OTHER -> Throw(e)

(* The fields a text is taken apart into, none when it does not match the    *)
(* pattern.  A field that is there already is not overwritten.               *)
Dissect(e, fields) ==
    IF fields = << >> \/ \E x \in DOMAIN fields : Has(e, fields[x][1])
    THEN Throw(e)
    ELSE Ok(PutAll(e, fields))

(* A list of texts, each once; nothing is appended for a missing field.      *)
Listed(e, p) == IF Has(e, p) THEN e[p][2] ELSE << >>
AppendTo(e, p, v) ==
    IF v = Null \/ v \in ToSet(Listed(e, p)) THEN e
    ELSE Put(e, p, <<"list", Append(Listed(e, p), v)>>)

(* The id is made of the two addresses, the transport and what the transport *)
(* has: ports, or the type and the code of an ICMP message where it is told. *)
(* The transport is a number, of eight bits, or a name that libbeat knows.   *)
(* Without transport, addresses or ports the event stays as it is.           *)
Ported == {"6", "17", "132", "tcp", "udp", "sctp"}
Typeful == {"1", "58", "icmp", "ipv6-icmp"}
Protocols == Numerals \union Ported \union Typeful \union {"igmp"}
Ends(e, field) == <<Get(e, <<"source", field>>), Get(e, <<"destination", field>>)>>
FlowOf(e, transport) ==
    <<transport>> \o Ends(e, "ip")
        \o (CASE transport[2] \in Ported -> Ends(e, "port")
              [] transport[2] \in Typeful -> <<Get(e, <<"icmp", "type">>),
                                               Get(e, <<"icmp", "code">>)>>
              [] OTHER -> << >>)
Identified(e, transport) ==
    /\ transport # Null /\ transport[2] \in Protocols
    /\ Null \notin ToSet(Ends(e, "ip"))
    /\ transport[2] \in Ported => Null \notin ToSet(Ends(e, "port"))
CommunityID(e, transport) ==
    IF Identified(e, transport)
    THEN Put(e, <<"network", "community_id">>, <<"flow", FlowOf(e, transport)>>)
    ELSE e
=============================================================================
