----------------------------- MODULE MCProcess ------------------------------
(***************************************************************************)
(* A server of two endpoints that share a storage, one of them through a   *)
(* pipeline with an inline check and a table of aliases; and what can be   *)
(* wrong with its configuration.                                           *)
(***************************************************************************)
EXTENDS Process

Word(w) == [word |-> w, num |-> 0, unit |-> NaN]
Num(n, u) == [word |-> "number", num |-> n, unit |-> u]
Dir(name, args) == [name |-> name, args |-> args, block |-> FALSE]

Matcher(name, kind, default) ==
    [name |-> name, kind |-> kind, required |-> FALSE, inherit |-> FALSE,
     defaultVal |-> "value", default |-> default,
     allowed |-> {"auto", "casefold", "accounts"}]
Inherited(m) == [m EXCEPT !.inherit = TRUE]
Required(m) == [m EXCEPT !.required = TRUE]
NoDefault(m) == [m EXCEPT !.defaultVal = "nil"]
BadDefault(m) == [m EXCEPT !.defaultVal = "error"]
Callback(name) == NoDefault(Matcher(name, "callback", <<>>))
TLS == NoDefault(Matcher("tls", "string", ""))

MCGlobalMatchers == {Matcher("hostname", "string", ""), TLS,
                     Matcher("debug", "bool", FALSE),
                     Matcher("auth_map_normalize", "enum", "auto"),
                     Matcher("auth_domains", "list", <<>>)}
Debug == Inherited(Matcher("debug", "bool", FALSE))
MCMatchers == [n \in {"smtp", "lmtp", "imap", "routing", "aliases", "storage",
                      "check"} |->
    CASE n = "smtp" -> {Debug, Inherited(Required(TLS)), Callback("auth"),
            Inherited(Required(Matcher("hostname", "string", ""))),
            Matcher("max_message_size", "size", 3),
            Matcher("read_timeout", "duration", 600)}
      [] n = "lmtp" -> {Inherited(TLS),
            BadDefault(Matcher("buffer", "string", ""))}
      [] n = "imap" -> {Debug,
            Inherited(Matcher("auth_map_normalize", "enum", "casefold")),
            NoDefault(Matcher("proxy_protocol", "string", "")),
            Matcher("extensions", "enumlist", <<>>)}
      [] n = "check" -> {Debug, Matcher("score", "int", 1)}
      [] OTHER -> {Debug}]

Unit(name, kind, refs) ==
    [name |-> name, kind |-> kind, aliases |-> {}, nodes |-> <<>>,
     refs |-> refs]
Ref(n) == [name |-> n, inline |-> FALSE]
Inline(n) == [name |-> n, inline |-> TRUE]

Smtp == [Unit("smtp", "endpoint", <<Inline("check"), Ref("routing")>>) EXCEPT
            !.nodes = <<Dir("max_message_size", <<Num(1, "K"), Num(1, "B")>>),
                        Dir("auth", <<Word("accounts")>>),
                        Dir("read_timeout", <<Num(1, "m"), Num(5, "s")>>),
                        Dir("auth", <<Word("auto")>>)>>]
Lmtp == Unit("lmtp", "endpoint", <<>>)
Imap == [Unit("imap", "endpoint", <<Ref("local")>>) EXCEPT
            !.nodes = <<Dir("debug", <<Word("no")>>),
                        Dir("extensions", <<Word("auto")>>)>>]
Routing == Unit("routing", "module", <<Ref("aliases"), Ref("storage")>>)
Aliases == Unit("aliases", "module", <<>>)
Storage == [Unit("storage", "module", <<>>) EXCEPT !.aliases = {"local"}]
Check == [Unit("check", "module", <<>>) EXCEPT
            !.nodes = <<Dir("score", <<Num(-2, "")>>)>>]

Normal == [nodes |-> <<Dir("hostname", <<Word("mx")>>), Dir("debug", <<>>),
                       Dir("auth_domains", <<Word("a"), Word("b")>>),
                       Dir("tls", <<Word("off")>>)>>,
           blocks |-> <<Smtp, Storage, Imap, Aliases, Routing>>,
           inline |-> {Check}, api |-> FALSE, admin |-> TRUE]
\* The goroutine of the API does not meet the reloader: no table.
WithApi == [Normal EXCEPT !.blocks = <<Imap, Storage>>, !.api = TRUE]
MCConfig ==
    <<Normal,
      WithApi,
      [WithApi EXCEPT !.admin = FALSE],
      [Normal EXCEPT !.nodes = SubSeq(@, 2, 4)],
      [Normal EXCEPT !.nodes = @ \o @],
      [Normal EXCEPT !.nodes[2] = Dir("debug", <<Word("maybe")>>)],
      [Normal EXCEPT !.nodes = SubSeq(@, 1, 3)],
      [Normal EXCEPT !.blocks = Append(@, Lmtp)],
      [Normal EXCEPT !.blocks[1].nodes[2] = Dir("auth", <<Word("a")>>)],
      [Normal EXCEPT !.blocks = <<Smtp, Aliases, Routing>>],
      [Normal EXCEPT !.blocks = <<Imap, Storage, Aliases>>],
      [Normal EXCEPT !.blocks = <<Storage, Aliases>>],
      [Normal EXCEPT !.blocks[5].kind = "unknown"],
      [Normal EXCEPT !.blocks[4].aliases = {"local"}],
      [Normal EXCEPT !.blocks = Append(@, Storage)],
      [Normal EXCEPT !.blocks[1].nodes[1] = Dir("max_message_size",
                                                <<Num(1, "X")>>)]>>
MCConfigs == DOMAIN MCConfig
=============================================================================
