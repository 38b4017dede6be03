----------------------------- MODULE ApiAnswers -----------------------------
(***************************************************************************)
(* The bytes that the Envoy API answers with: the objects that             *)
(* envoy_api.go builds from the registrar's entries and the generated      *)
(* encoder, MarshalJSONBuf, of each of their types.                        *)
(*                                                                         *)
(* An object is a record under its JSON keys.  A buffer is a sequence of   *)
(* tokens: class t and, for strings and numbers, text v.  " " is the blank *)
(* that the encoder of a struct with optional fields writes after the      *)
(* bracket, so that Rewind(1) always has a byte to take back.              *)
(***************************************************************************)
EXTENDS SvcNames, SequencesExt

CONSTANT Nil   \* the nil pointer, slice or map

-----------------------------------------------------------------------------
(***************************************************************************)
(* What the encoders have in common.                                       *)
(***************************************************************************)
Tok(c)          == <<[t |-> c, v |-> << >>]>>
WriteString(s)  == <<[t |-> "string", v |-> s]>>
FormatBits(n)   == <<[t |-> "integer", v |-> <<n>>]>>   \* the decimal of n
Null            == Tok("null")

\* A field: its key and its value; stop where the encoder returns in mid-value.
Field(k, buf)     == [buf |-> WriteString(<<k>>) \o Tok(":") \o buf, stop |-> FALSE]
Str(k, s)         == Field(k, WriteString(s))
Num(k, n)         == Field(k, FormatBits(n))

Pointer(k, p, buf) == Field(k, IF p = Nil THEN Null ELSE buf)

Commas(bufs) == FlattenSeq([i \in DOMAIN bufs |-> (IF i > 1 THEN Tok(",") ELSE << >>) \o bufs[i]])

StringSlice(k, s) ==
  Field(k, IF s = Nil THEN Null
           ELSE Tok("[") \o Commas([i \in DOMAIN s |-> WriteString(s[i])]) \o Tok("]"))

\* bufs has the elements as their own encoder writes them.  A nil element is
\* written as null, and the encoder of the struct returns.
StructSlice(k, s, bufs) ==
  IF s = Nil THEN Field(k, Null)
  ELSE LET nils == {i \in DOMAIN s : s[i] = Nil}
           n    == IF nils = {} THEN Len(s) ELSE Min(nils)
           buf  == Tok("[") \o Commas([i \in 1..n |-> IF s[i] = Nil THEN Null ELSE bufs[i]])
       IN  [Field(k, buf \o (IF nils = {} THEN Tok("]") ELSE << >>)) EXCEPT !.stop = nils # {}]

Rewind(buf) == Front(buf)

StringMap(k, m) ==
  Field(k, IF m = Nil THEN Null
           ELSE Rewind(Tok("{") \o Tok(" ") \o
                      FlattenSeq([i \in DOMAIN SetToSeq(DOMAIN m) |->
                        LET x == SetToSeq(DOMAIN m)[i] IN
                        WriteString(x) \o Tok(":") \o WriteString(m[x]) \o Tok(",")]))
                \o Tok("}"))

Stops(fields) == {i \in DOMAIN fields : fields[i].stop}
Reached(fields) == SubSeq(fields, 1, IF Stops(fields) = {} THEN Len(fields) ELSE Min(Stops(fields)))

\* A struct whose fields are all written: a comma before each but the first.
Plain(fields) ==
  LET r == Reached(fields) IN
  Tok("{") \o Commas([i \in DOMAIN r |-> r[i].buf])
    \o (IF Stops(fields) = {} THEN Tok("}") ELSE << >>)

\* A struct with optional fields: a comma after each, the last taken back.
Padded(fields) ==
  LET r   == Reached(fields)
      buf == Tok("{") \o Tok(" ") \o FlattenSeq(
               [i \in DOMAIN r |-> r[i].buf \o (IF r[i].stop THEN << >> ELSE Tok(","))])
  IN  IF Stops(fields) = {} THEN Rewind(buf) \o Tok("}") ELSE buf

\* omitempty.
Unless(empty, field) == IF empty THEN << >> ELSE <<field>>
Empty(s) == s = Nil \/ s = << >>

-----------------------------------------------------------------------------
(***************************************************************************)
(* MarshalJSONBuf of each struct.                                          *)
(***************************************************************************)
EnvoyServiceJSON(mj) ==
  Plain(<<Str("ip_address", mj.ip_address), Str("last_check_in", mj.last_check_in),
          Num("port", mj.port), Str("revision", mj.revision), Str("service", mj.service),
          Str("service_repo_name", mj.service_repo_name), StringMap("tags", mj.tags)>>)

EnvoyClusterJSON(mj) ==
  Plain(<<Str("name", mj.name), Str("type", mj.type),
          Num("connect_timeout_ms", mj.connect_timeout_ms), Str("lb_type", mj.lb_type),
          Str("service_name", mj.service_name)>>)

EnvoyRouteDecoratorJSON(mj) == Padded(Unless(Empty(mj.operation), Str("operation", mj.operation)))

EnvoyTracingConfigJSON(mj) == Plain(<<Str("operation_name", mj.operation_name)>>)

EnvoyRouteJSON(mj) ==
  Padded(<<Num("timeout_ms", mj.timeout_ms), Str("prefix", mj.prefix),
           Str("host_rewrite", mj.host_rewrite), Str("cluster", mj.cluster)>>
         \o Unless(mj.decorator = Nil, Field("decorator", EnvoyRouteDecoratorJSON(mj.decorator))))

EnvoyTCPRouteJSON(mj) ==
  Padded(<<Str("cluster", mj.cluster)>>
         \o Unless(Empty(mj.destination_ip_list), StringSlice("destination_ip_list", mj.destination_ip_list))
         \o Unless(Empty(mj.destination_ports), Str("destination_ports", mj.destination_ports))
         \o Unless(Empty(mj.source_ip_list), StringSlice("source_ip_list", mj.source_ip_list))
         \o Unless(Empty(mj.source_ports), StringSlice("source_ports", mj.source_ports)))

EnvoyHTTPVirtualHostJSON(mj) ==
  Plain(<<Str("name", mj.name), StringSlice("domains", mj.domains),
          StructSlice("routes", mj.routes,
                      [i \in DOMAIN mj.routes |-> EnvoyRouteJSON(mj.routes[i])])>>)

EnvoyRouteConfigJSON(mj) ==
  Padded(Unless(Empty(mj.virtual_hosts),
                StructSlice("virtual_hosts", mj.virtual_hosts,
                            [i \in DOMAIN mj.virtual_hosts |->
                               EnvoyHTTPVirtualHostJSON(mj.virtual_hosts[i])]))
         \o Unless(Empty(mj.routes),
                   StructSlice("routes", mj.routes,
                               [i \in DOMAIN mj.routes |-> EnvoyTCPRouteJSON(mj.routes[i])])))

\* inner has the filters in the configuration as their own encoder writes them.
EnvoyFilterConfigJSON(mj, inner) ==
  Padded(Unless(Empty(mj.codec_type), Str("codec_type", mj.codec_type))
         \o Unless(Empty(mj.stat_prefix), Str("stat_prefix", mj.stat_prefix))
         \o Unless(mj.route_config = Nil, Field("route_config", EnvoyRouteConfigJSON(mj.route_config)))
         \o Unless(Empty(mj.filters), StructSlice("filters", mj.filters, inner))
         \o Unless(mj.tracing = Nil, Field("tracing", EnvoyTracingConfigJSON(mj.tracing))))

FilterJSON(mj, inner) ==
  Plain(<<Str("name", mj.name), Pointer("config", mj.config, EnvoyFilterConfigJSON(mj.config, inner))>>)

\* The encoder of a filter calls itself for the filters in it.  The handlers put
\* one filter into another and nothing into that one: two levels are all.
EnvoyFilterJSON(mj) ==
  FilterJSON(mj, [i \in DOMAIN mj.config.filters |-> FilterJSON(mj.config.filters[i], << >>)])

EnvoyListenerJSON(mj) ==
  Plain(<<Str("name", mj.name), Str("address", mj.address),
          StructSlice("filters", mj.filters,
                      [i \in DOMAIN mj.filters |-> EnvoyFilterJSON(mj.filters[i])])>>)

SDSResultJSON(mj) ==
  Plain(<<Str("env", mj.env),
          StructSlice("hosts", mj.hosts,
                      [i \in DOMAIN mj.hosts |-> EnvoyServiceJSON(mj.hosts[i])]),
          Str("service", mj.service)>>)

CDSResultJSON(mj) ==
  Plain(<<StructSlice("clusters", mj.clusters,
                      [i \in DOMAIN mj.clusters |-> EnvoyClusterJSON(mj.clusters[i])])>>)

LDSResultJSON(mj) ==
  Plain(<<StructSlice("listeners", mj.listeners,
                      [i \in DOMAIN mj.listeners |-> EnvoyListenerJSON(mj.listeners[i])])>>)

MarshalJSON(T, mj) == CASE T = "SDSResult" -> SDSResultJSON(mj)
                        [] T = "CDSResult" -> CDSResultJSON(mj)
                        [] T = "LDSResult" -> LDSResultJSON(mj)

-----------------------------------------------------------------------------
(***************************************************************************)
(* The objects of an answer.                                               *)
(***************************************************************************)
EnvoyServiceFromEntry(entry) ==
  IF entry = Nil THEN Nil ELSE
  [ip_address |-> <<IPString(entry.BackendAddr.IP)>>, last_check_in |-> <<"now">>,
   port |-> entry.BackendAddr.Port, revision |-> <<"1">>, service |-> SvcName(entry),
   service_repo_name |-> <<"docker service">>, tags |-> << >>]

\* Mutant of EnvoyClusterFromEntry: the hosts are asked for by the bare label.
ClusterByLabel(entry) ==
  [name |-> SvcName(entry), type |-> <<"sds">>, connect_timeout_ms |-> 500,
   lb_type |-> <<"round_robin">>, service_name |-> entry.ServiceName]

EnvoyClusterFromEntry(entry) ==
  [name |-> SvcName(entry), type |-> <<"sds">>, connect_timeout_ms |-> 500,
   lb_type |-> <<"round_robin">>, service_name |-> SvcName(entry)]

FilterConfig(codec, stat, routes, filters, tracing) ==
  [codec_type |-> codec, stat_prefix |-> stat, route_config |-> routes,
   filters |-> filters, tracing |-> tracing]

HttpFilter(entry) ==
  LET route  == [timeout_ms |-> 0, prefix |-> <<"/">>, host_rewrite |-> << >>,
                 cluster |-> SvcName(entry),
                 decorator |-> [operation |-> entry.ServiceName]]
      host   == [name |-> SvcName(entry), domains |-> <<(<<"*">>)>>, routes |-> <<route>>]
      router == [name |-> <<"router">>, config |-> FilterConfig(<< >>, << >>, Nil, Nil, Nil)]
  IN  [name   |-> <<"envoy.http_connection_manager">>,
       config |-> FilterConfig(<<"auto">>, <<"ingress_http">>,
                    [virtual_hosts |-> <<host>>, routes |-> Nil], <<router>>,
                    [operation_name |-> <<"egress">>])]

TcpFilter(entry) ==
  LET route == [cluster |-> SvcName(entry), destination_ip_list |-> Nil,
                destination_ports |-> << >>, source_ip_list |-> Nil, source_ports |-> Nil]
  IN  [name   |-> <<"envoy.tcp_proxy">>,
       config |-> FilterConfig(<< >>, <<"ingress_tcp">>,
                    [virtual_hosts |-> Nil, routes |-> <<route>>], Nil, Nil)]

\* Mutant of ListenerAddress: the listener takes every address of the host.
ListenerAddressAny(addr) == <<"tcp://", "0.0.0.0", ":", addr.Port>>

\* Sprintf("tcp://%s:%d").
ListenerAddress(addr) == <<"tcp://", IPString(addr.IP), ":", addr.Port>>

EnvoyListenerFromEntry(entry) ==
  [name |-> SvcName(entry), address |-> ListenerAddress(entry.FrontendAddr),
   filters |-> <<IF entry.ProxyMode = "http" THEN HttpFilter(entry) ELSE TcpFilter(entry)>>]

(***************************************************************************)
(* The handlers.  order is the names in the order in which the range over  *)
(* the map comes upon them, which may be any.                              *)
(***************************************************************************)
Lookup(m, n) == IF n \in DOMAIN m THEN m[n] ELSE Nil

Answer(status, T, value) ==
  [status |-> status, T |-> T, value |-> value,
   body   |-> IF value = Nil THEN << >> ELSE MarshalJSON(T, value)]

\* sendJsonError: the client reads the status and leaves the body.
Error(status) == Answer(status, "SDSResult", Nil)

\* Mutant of registrationHandler: the name is not looked for first.
registrationUnchecked(m, n) ==
  Answer(200, "SDSResult", [env |-> << >>, service |-> n,
                            hosts |-> <<EnvoyServiceFromEntry(Lookup(m, n))>>])

registrationHandler(m, n) ==
  IF Lookup(m, n) = Nil THEN Error(404)
  ELSE Answer(200, "SDSResult", [env |-> << >>, service |-> n,
                                 hosts |-> <<EnvoyServiceFromEntry(Lookup(m, n))>>])

clustersHandler(m, order) ==
  Answer(200, "CDSResult", [clusters |-> [i \in DOMAIN order |-> EnvoyClusterFromEntry(m[order[i]])]])

listenersHandler(m, order) ==
  Answer(200, "LDSResult", [listeners |-> [i \in DOMAIN order |-> EnvoyListenerFromEntry(m[order[i]])]])

\* The variable of a route stands for one non-empty path segment.
Segment(n) == n # << >> /\ \A i \in DOMAIN n : n[i] # "/"

\* HttpMux: the handler of the path, or the router's own 404.
HttpMux(m, path, n, order) ==
  CASE path = "registration" -> IF Segment(n) THEN registrationHandler(m, n) ELSE Error(404)
    [] path = "clusters"     -> clustersHandler(m, order)
    [] path = "listeners"    -> listenersHandler(m, order)
=============================================================================
