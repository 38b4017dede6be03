------------------------------ MODULE ApiJson -------------------------------
(***************************************************************************)
(* An answer of the Envoy API on its way through JSON: a request finds the *)
(* registrar's map in some state, the handler builds its answer and        *)
(* encodes it (ApiAnswers), and a client decodes the body with the         *)
(* generated decoder (FFJson).  The body arrives whole; or cut short, as a *)
(* connection that breaks leaves it; or as another version of the server   *)
(* would write it, with keys in another case, with members that this one   *)
(* does not know or with tags, which this one never sets.                  *)
(***************************************************************************)
EXTENDS ApiAnswers

CONSTANT Registered   \* entries that the registrar may hold

\* A map of Go is finite; no entry in it, and no slice with a route in it, is nil.
ASSUME RegisteredAssumption ==
  /\ Registered \subseteq Entry /\ IsFiniteSet(Registered)
  /\ \A e \in Registered : e # Nil /\ TcpFilter(e).config.route_config.routes # Nil

VARIABLES
  entries,   \* Registrar.entries, when the request is handled
  sent,      \* the answer to it: status, type, object and body
  edit       \* what became of the body: "whole", "cut", "cased", "extra", "tags"

VARIABLES doc, pos, stack, outcome   \* the client's decoder

INSTANCE FFJson

vars == <<entries, sent, edit, doc, pos, stack, outcome>>

-----------------------------------------------------------------------------
\* The lexer passes over blanks.
Lexed(body) ==
  FlattenSeq([i \in DOMAIN body |-> IF body[i].t = " " THEN << >> ELSE <<body[i]>>])

Cased(d) == [i \in DOMAIN d |->
               IF d[i].t = "string" /\ i < Len(d) /\ d[i + 1].t = ":"
               THEN [d[i] EXCEPT !.v = <<"^">> \o @] ELSE d[i]]

\* "new":[{},1], as it is put behind a bracket that opens a struct.
Member == WriteString(<<"new">>) \o Tok(":") \o Tok("[") \o Tok("{") \o Tok("}")
            \o Tok(",") \o FormatBits(1) \o Tok("]") \o Tok(",")

OpensTags(d, i) == i > 2 /\ d[i].t = "{" /\ d[i - 1].t = ":" /\ d[i - 2].v = <<"tags">>

OpensStruct(d, i) == d[i].t = "{" /\ ~OpensTags(d, i)

\* The tags of a version that has some, and their members.
Tags  == [k \in {<<"a">>, <<"b">>} |-> <<"new">>]
Pairs == WriteString(<<"a">>) \o Tok(":") \o WriteString(<<"new">>) \o Tok(",")
           \o WriteString(<<"b">>) \o Tok(":") \o WriteString(<<"new">>)

Insert(d, i, tokens) == SubSeq(d, 1, i) \o tokens \o SubSeq(d, i + 1, Len(d))

Bodies(d) ==
  {[edit |-> "whole", doc |-> d], [edit |-> "cased", doc |-> Cased(d)]}
  \cup {[edit |-> "extra", doc |-> Insert(d, i, Member)] :
          i \in {j \in DOMAIN d : OpensStruct(d, j)}}
  \cup {[edit |-> "tags", doc |-> Insert(d, i, Pairs)] :
          i \in {j \in DOMAIN d : OpensTags(d, j)}}

\* Every map of these entries, each under its name.
Maps == {[n \in {SvcName(e) : e \in E} |-> CHOOSE e \in E : SvcName(e) = n] :
           E \in {F \in SUBSET Registered :
                    \A e, f \in F : SvcName(e) = SvcName(f) => e = f}}

\* The answers to a request for the hosts of a service, for the clusters or for
\* the listeners.
Answers(m) ==
  {HttpMux(m, "registration", SvcName(e), << >>) : e \in Registered}
  \cup {HttpMux(m, path, << >>, order) :
          path \in {"clusters", "listeners"}, order \in SetToSeqs(DOMAIN m)}

\* What the handlers build from an entry: what slices, maps and pointers lead to,
\* and the texts that omitempty may leave out.
Objects(e) ==
  LET http == HttpFilter(e).config.route_config.virtual_hosts[1]
      tcp  == TcpFilter(e).config.route_config.routes[1]
  IN  {EnvoyServiceFromEntry(e), EnvoyClusterFromEntry(e), EnvoyListenerFromEntry(e),
       HttpFilter(e), HttpFilter(e).config.filters[1], http, http.routes[1], TcpFilter(e), tcp,
       <<EnvoyServiceFromEntry(e)>>, EnvoyServiceFromEntry(e).tags}

Texts(e) ==
  {e.ServiceName, HttpFilter(e).config.codec_type, HttpFilter(e).config.stat_prefix,
   TcpFilter(e).config.stat_prefix}

\* nil is none of them, and no answer.
ASSUME NilAssumption ==
  /\ \A e \in Registered : Nil \notin Objects(e) /\ Nil \notin Texts(e)
  /\ \A m \in Maps : \A a \in Answers(m) : a.status = 200 => a.value # Nil

Init ==
  /\ entries \in Maps
  /\ sent \in {a \in Answers(entries) : a.status = 200}
  /\ \E b \in Bodies(Lexed(sent.body)) : edit = b.edit /\ Start(sent.T, b.doc)

\* The connection breaks: what the decoder has not read yet never comes.
Break ==
  /\ edit = "whole" /\ outcome = "parsing" /\ pos <= Len(doc)
  /\ edit' = "cut" /\ doc' = SubSeq(doc, 1, pos - 1)
  /\ UNCHANGED <<entries, sent, pos, stack, outcome>>

Decode == Parse /\ UNCHANGED <<entries, sent, edit>>

\* The decoder has come to its end.
Returned == outcome # "parsing" /\ UNCHANGED vars

Next == Break \/ Decode \/ Returned

Spec == Init /\ [][Next]_vars

-----------------------------------------------------------------------------
(***************************************************************************)
(* The types of the decoder's state: the calls under way are nested as the *)
(* structs are, each with the field whose handler made the next; and every *)
(* field of their objects has a value of its own kind, made of what was    *)
(* read and of nothing else.                                               *)
(***************************************************************************)
TypeOK ==
  /\ doc \in Seq({doc[i] : i \in DOMAIN doc}) /\ pos \in 1..(Len(doc) + 1)
  /\ outcome \in {"parsing", "done", "error"}
  /\ stack # << >> /\ stack \in Seq({stack[i] : i \in DOMAIN stack})
  /\ LET r == ReadSoFar IN \A i \in DOMAIN stack : IsFrame(r, stack[i])
  /\ \A i \in 1..(Len(stack) - 1) : Calls(stack[i], stack[i + 1])

\* The tokens to come, each counted twice; and, where a loop over structs may
\* make one call more at the end of the text, that call.
Left == 2 * (Len(doc) + 1 - pos)
        + (IF outcome # "parsing" THEN 0 ELSE IF top.state = "elements" THEN 2 ELSE 1)

(***************************************************************************)
(* UnmarshalJSON returns, when the text is an answer of the API, such an   *)
(* answer cut short, or one as another version writes it: every step of    *)
(* the decoder leaves it less to do, and no loop of it turns in place at   *)
(* the end of a text that was cut short.                                   *)
(***************************************************************************)
DecoderEnds == [][Left' < Left]_vars

(***************************************************************************)
(* Whatever the map holds, and whichever optional fields are empty, the    *)
(* client decodes the whole body to its last token and has the object that *)
(* the handler built: encoder and decoder agree on keys, commas, optional  *)
(* fields, and on nil against empty.                                       *)
(***************************************************************************)
RoundTrip ==
  edit = "whole" /\ outcome # "parsing" =>
    outcome = "done" /\ pos = Len(doc) + 1 /\ Decoded = sent.value

(***************************************************************************)
(* A body that was cut short is never taken for a complete answer, be it   *)
(* one with fewer services.                                                *)
(***************************************************************************)
CutIsRejected == edit = "cut" => outcome # "done"

\* The object that the other version built.
Meant == IF edit = "tags" THEN [sent.value EXCEPT !.hosts[1].tags = Tags] ELSE sent.value

(***************************************************************************)
(* A body of another version, with keys in another case, with a member     *)
(* more in any of its structs or with tags, is read for what it says.      *)
(***************************************************************************)
OtherVersionsAreRead ==
  edit \in {"cased", "extra", "tags"} /\ outcome # "parsing" =>
    outcome = "done" /\ Decoded = Meant

X == INSTANCE EnvoyXds
     WITH Requests <- {}, NoAnswer <- Nil, lds <- Nil, cds <- Nil, sds <- << >>,
          listeners <- {}, hosts <- << >>, served <- {}

\* What EnvoyXds keeps of a listener and of a host.
ListenerOf(l) ==
  LET config == l.filters[1].config IN
  [Name |-> l.name, IPAddress |-> l.address[2], Port |-> l.address[4],
   Filter  |-> IF l.filters[1].name = <<"envoy.tcp_proxy">> THEN "tcp" ELSE "http",
   Cluster |-> IF config.route_config.routes # Nil
               THEN config.route_config.routes[1].cluster
               ELSE config.route_config.virtual_hosts[1].routes[1].cluster]

HostOf(h) == [IPAddress |-> h.ip_address[1], Port |-> h.port, Service |-> h.service]

(***************************************************************************)
(* What the client reads out of the JSON is the answer that EnvoyXds       *)
(* reasons about: the same listeners, clusters and hosts for the same map. *)
(***************************************************************************)
ReadsEnvoyXds ==
  edit = "whole" /\ outcome = "done" =>
    CASE sent.T = "LDSResult" ->
           {ListenerOf(l) : l \in Range(Decoded.listeners)} = X!EnvoyListenersFromRegistrar
      [] sent.T = "CDSResult" ->
           {c.service_name : c \in Range(Decoded.clusters)} = X!EnvoyClustersFromRegistrar
      [] sent.T = "SDSResult" ->
           {HostOf(h) : h \in Range(Decoded.hosts)} = X!Registration(Decoded.service).hosts

(***************************************************************************)
(* A client that asks for the hosts of a cluster by the name it has read   *)
(* out of the list gets the backend of the cluster's entry, unless a slash *)
(* in a label keeps the router from taking the name for one segment.       *)
(***************************************************************************)
ListedIsAnswered ==
  edit = "whole" /\ outcome = "done" /\ sent.T = "CDSResult" =>
    \A c \in Range(Decoded.clusters) :
      LET answer == HttpMux(entries, "registration", c.service_name, << >>) IN
      IF Segment(c.service_name)
      THEN /\ answer.status = 200
           /\ answer.value.hosts = <<EnvoyServiceFromEntry(entries[c.name])>>
      ELSE answer.status = 404
=============================================================================
