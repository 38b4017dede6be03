------------------------------- MODULE FFJson -------------------------------
(***************************************************************************)
(* The generated decoder of envoy_api_objects_ffjson.go: for every struct  *)
(* of the Envoy API a function UnmarshalJSONFFLexer, one state machine     *)
(* over tokens.  The fourteen functions differ in their keys and in the    *)
(* handlers behind them, which are the tables below; a step of the module  *)
(* is one token in the innermost function, and stack has the calls.        *)
(*                                                                         *)
(* A token has its class t and, for a string or a number, its text v.  The *)
(* lexer (fflib) is outside the repository: it skips white space and ends  *)
(* in tokens "eof".  A text is a sequence of parts, as in SvcNames; the    *)
(* decimal of n is <<n>>; a key k is <<k>>, and in another case <<"^", k>>.*)
(***************************************************************************)
EXTENDS Naturals, Sequences

CONSTANT Nil   \* the nil pointer, slice or map

VARIABLES doc,      \* the tokens to decode
          pos,      \* the lexer: the next of them
          stack,    \* the calls of UnmarshalJSONFFLexer under way
          outcome   \* "parsing", "done" or "error"

parser == <<doc, pos, stack, outcome>>

-----------------------------------------------------------------------------
(***************************************************************************)
(* The tables: key, and kind of the field behind it.                       *)
(***************************************************************************)
String  == [kind |-> "string",  of |-> "string"]
Number  == [kind |-> "int",     of |-> "int"]
Strings == [kind |-> "strings", of |-> "string"]
Map     == [kind |-> "map",     of |-> "string"]
Ptr(T)  == [kind |-> "ptr",     of |-> T]
Ptrs(T) == [kind |-> "ptrs",    of |-> T]

CDSResultFields == [clusters |-> Ptrs("EnvoyCluster")]

LDSResultFields == [listeners |-> Ptrs("EnvoyListener")]

SDSResultFields == [env |-> String, hosts |-> Ptrs("EnvoyService"), service |-> String]

EnvoyServiceFields ==
  [ip_address |-> String, last_check_in |-> String, port |-> Number, revision |-> String,
   service |-> String, service_repo_name |-> String, tags |-> Map]

EnvoyClusterFields ==
  [name |-> String, type |-> String, connect_timeout_ms |-> Number,
   lb_type |-> String, service_name |-> String]

EnvoyListenerFields == [name |-> String, address |-> String, filters |-> Ptrs("EnvoyFilter")]

EnvoyFilterFields == [name |-> String, config |-> Ptr("EnvoyFilterConfig")]

EnvoyFilterConfigFields ==
  [codec_type |-> String, stat_prefix |-> String, filters |-> Ptrs("EnvoyFilter"),
   route_config |-> Ptr("EnvoyRouteConfig"), tracing |-> Ptr("EnvoyTracingConfig")]

EnvoyRouteConfigFields ==
  [virtual_hosts |-> Ptrs("EnvoyHTTPVirtualHost"), routes |-> Ptrs("EnvoyTCPRoute")]

EnvoyHTTPVirtualHostFields ==
  [name |-> String, domains |-> Strings, routes |-> Ptrs("EnvoyRoute")]

EnvoyRouteFields ==
  [timeout_ms |-> Number, prefix |-> String, host_rewrite |-> String, cluster |-> String,
   decorator |-> Ptr("EnvoyRouteDecorator")]

EnvoyRouteDecoratorFields == [operation |-> String]

EnvoyTracingConfigFields == [operation_name |-> String]

EnvoyTCPRouteFields ==
  [cluster |-> String, destination_ip_list |-> Strings, destination_ports |-> String,
   source_ip_list |-> Strings, source_ports |-> Strings]

Fields ==
  [CDSResult |-> CDSResultFields, LDSResult |-> LDSResultFields,
   SDSResult |-> SDSResultFields, EnvoyService |-> EnvoyServiceFields,
   EnvoyCluster |-> EnvoyClusterFields, EnvoyListener |-> EnvoyListenerFields,
   EnvoyFilter |-> EnvoyFilterFields, EnvoyFilterConfig |-> EnvoyFilterConfigFields,
   EnvoyRouteConfig |-> EnvoyRouteConfigFields, EnvoyRoute |-> EnvoyRouteFields,
   EnvoyHTTPVirtualHost |-> EnvoyHTTPVirtualHostFields,
   EnvoyRouteDecorator |-> EnvoyRouteDecoratorFields,
   EnvoyTracingConfig |-> EnvoyTracingConfigFields, EnvoyTCPRoute |-> EnvoyTCPRouteFields]

Structs == DOMAIN Fields
Keys(T) == DOMAIN Fields[T]

\* new(T): the zero value of every field.
ZeroOf(field) == CASE field.kind = "string" -> << >>
                   [] field.kind = "int"    -> 0
                   [] OTHER                 -> Nil

Zero(T) == [k \in Keys(T) |-> ZeroOf(Fields[T][k])]

-----------------------------------------------------------------------------
(***************************************************************************)
(* One call: the object it fills, its FFParseState and currentKey, and the *)
(* locals of its loops: wantVal, the map key k, the brackets left to skip. *)
(***************************************************************************)
Frame(T, obj, state) ==
  [T |-> T, obj |-> obj, state |-> state, key |-> "no_such_key",
   wantVal |-> TRUE, k |-> << >>, depth |-> 0]

top == stack[Len(stack)]
tok == IF pos <= Len(doc) THEN doc[pos] ELSE [t |-> "eof", v |-> << >>]

\* The switch on the key: as it is spelled or, failing that, in any case.
\* Mutants of KeyOf: a key that is not known is not told apart; only the exact
\* spelling is compared.
KeyOfUnknown(T, kn) == kn[Len(kn)]
KeyOfExact(T, kn) ==
  IF Len(kn) = 1 /\ kn[1] \in Keys(T) THEN kn[1] ELSE "no_such_key"

KeyOf(T, kn) ==
  IF Len(kn) = 1 /\ kn[1] \in Keys(T) THEN kn[1]
  ELSE IF Len(kn) = 2 /\ kn[1] = "^" /\ kn[2] \in Keys(T) THEN kn[2]
  ELSE "no_such_key"

KindOf(f) == IF f.key = "no_such_key" THEN "skipped" ELSE Fields[f.T][f.key].kind

\* Mutant of Ends: the end of the text ends the calls under way.
EndsAtEof == {"}", "eof"}

\* The token at which a call returns.
Ends == {"}"}

ValueTokens == {"[", "{", "integer", "double", "string", "bool", "null"}

Tokens == ValueTokens \cup {"]", "}", ",", ":", "eof"}

\* A comma that nothing precedes is an error; a second one, or one at the end,
\* is not, since the loops never set wantVal on a comma.
Separator(f) == IF f.wantVal THEN {} ELSE {","}

\* The tokens that the handler of a field begins with.  The one of a struct
\* does not look at the token that opens it.
Begins(f) ==
  CASE KindOf(f) = "string"              -> {"string", "null"}
    [] KindOf(f) = "int"                 -> {"integer", "null"}
    [] KindOf(f) \in {"ptrs", "strings"} -> {"[", "null"}
    [] KindOf(f) = "map"                 -> {"{", "null"}
    [] KindOf(f) \in {"ptr", "skipped"}  -> ValueTokens

\* The tokens that the innermost call goes on with.
Accepted(f) ==
  CASE f.state = "map_start"   -> {"{"}
    [] f.state = "want_key"    -> {"string"} \cup Ends
    [] f.state = "want_colon"  -> {":"}
    [] f.state = "after_value" -> {","} \cup Ends
    [] f.state = "want_value"  -> Begins(f)
    [] f.state = "elements"    ->
         IF KindOf(f) = "strings" THEN {"]", "string", "null"} \cup Separator(f)
         ELSE (Tokens \ {","}) \cup Separator(f)
    [] f.state = "pairs"       -> {"}", "string", "null"} \cup Separator(f)
    [] f.state = "pair_colon"  -> {":"}
    [] f.state = "pair_value"  -> {"string", "null"}
    [] f.state = "skip"        -> Tokens \ {"eof"}

Start(T, tokens) ==
  /\ doc = tokens /\ pos = 1 /\ outcome = "parsing"
  /\ stack = <<Frame(T, Zero(T), "map_start")>>

\* The innermost call is in the state and reads one of the tokens.
Reads(state, tokens) ==
  /\ outcome = "parsing" /\ top.state = state
  /\ tok.t \in tokens \cap Accepted(top)
  /\ pos' = (IF pos <= Len(doc) THEN pos + 1 ELSE pos) /\ UNCHANGED doc

Becomes(f) == stack' = [stack EXCEPT ![Len(stack)] = f] /\ UNCHANGED outcome
Goto(state) == Becomes([top EXCEPT !.state = state])
Assign(v)   == Becomes([top EXCEPT !.obj[top.key] = v, !.state = "after_value"])

(***************************************************************************)
(* mainparse.                                                              *)
(***************************************************************************)
MapStart   == Reads("map_start", {"{"}) /\ Goto("want_key")
AfterValue == Reads("after_value", {","}) /\ Goto("want_key")
WantColon  == Reads("want_colon", {":"}) /\ Goto("want_value")

WantKey ==
  /\ Reads("want_key", {"string"})
  /\ Becomes([top EXCEPT !.key = KeyOf(top.T, tok.v), !.state = "want_colon"])

\* done: the call returns; the handler that made it goes on.
Done ==
  /\ Reads("want_key", Ends) \/ Reads("after_value", Ends)
  /\ IF Len(stack) = 1 THEN outcome' = "done" /\ UNCHANGED stack
     ELSE LET n == Len(stack) - 1
              f == stack[n]
          IN  /\ stack' = [SubSeq(stack, 1, n) EXCEPT ![n] =
                    IF f.state = "elements"
                    THEN [f EXCEPT !.obj[f.key] = Append(@, top.obj), !.wantVal = FALSE]
                    ELSE [f EXCEPT !.obj[f.key] = top.obj, !.state = "after_value"]]
              /\ UNCHANGED outcome

(***************************************************************************)
(* The handlers.  A null leaves a string or a number as it was.            *)
(***************************************************************************)
handle_string ==
  /\ KindOf(top) = "string" /\ Reads("want_value", {"string", "null"})
  /\ Assign(IF tok.t = "null" THEN top.obj[top.key] ELSE tok.v)

handle_int ==
  /\ KindOf(top) = "int" /\ Reads("want_value", {"integer", "null"})
  /\ Assign(IF tok.t = "null" THEN top.obj[top.key] ELSE tok.v[1])

Call(T, obj) == stack' = Append(stack, Frame(T, obj, "want_key")) /\ UNCHANGED outcome

\* A struct that is there already is filled further.
handle_ptr ==
  /\ KindOf(top) = "ptr" /\ Reads("want_value", ValueTokens)
  /\ LET T == Fields[top.T][top.key].of IN
     IF tok.t = "null" THEN Assign(Nil)
     ELSE Call(T, IF top.obj[top.key] = Nil THEN Zero(T) ELSE top.obj[top.key])

handle_slice ==
  /\ KindOf(top) \in {"ptrs", "strings"} /\ Reads("want_value", {"[", "null"})
  /\ IF tok.t = "null" THEN Assign(Nil)
     ELSE Becomes([top EXCEPT !.obj[top.key] = << >>, !.state = "elements", !.wantVal = TRUE])

ElementsEnd == Reads("elements", {"]"}) /\ Goto("after_value")

Comma == /\ Reads("elements", {","}) \/ Reads("pairs", {","})
         /\ UNCHANGED <<stack, outcome>>

StringElement ==
  /\ KindOf(top) = "strings" /\ Reads("elements", {"string", "null"})
  /\ Becomes([top EXCEPT !.obj[top.key] = Append(@, IF tok.t = "null" THEN << >> ELSE tok.v),
                         !.wantVal = FALSE])

\* At a null the handler goes to mainparse, out of the array that it is in.
StructElement ==
  /\ KindOf(top) = "ptrs" /\ Reads("elements", Tokens \ {"]", ","})
  /\ IF tok.t = "null" THEN Goto("after_value")
     ELSE Call(Fields[top.T][top.key].of, Zero(Fields[top.T][top.key].of))

handle_map ==
  /\ KindOf(top) = "map" /\ Reads("want_value", {"{", "null"})
  /\ IF tok.t = "null" THEN Assign(Nil)
     ELSE Becomes([top EXCEPT !.obj[top.key] = << >>, !.state = "pairs", !.wantVal = TRUE])

PairsEnd == Reads("pairs", {"}"}) /\ Goto("after_value")

PairKey ==
  /\ Reads("pairs", {"string", "null"})
  /\ Becomes([top EXCEPT !.k = IF tok.t = "null" THEN << >> ELSE tok.v,
                         !.state = "pair_colon", !.wantVal = TRUE])

PairColon == Reads("pair_colon", {":"}) /\ Goto("pair_value")

PairValue ==
  /\ Reads("pair_value", {"string", "null"})
  /\ LET m == top.obj[top.key]
         v == IF tok.t = "null" THEN << >> ELSE tok.v
     IN  Becomes([top EXCEPT !.obj[top.key] =
                                [k \in DOMAIN m \cup {top.k} |-> IF k = top.k THEN v ELSE m[k]],
                             !.state = "pairs", !.wantVal = FALSE])

\* SkipField (fflib): a value under an unknown key, to its last bracket.
SkipField ==
  /\ KindOf(top) = "skipped" /\ Reads("want_value", ValueTokens)
  /\ IF tok.t \in {"{", "["} THEN Becomes([top EXCEPT !.state = "skip", !.depth = 1])
     ELSE Goto("after_value")

Skip ==
  /\ Reads("skip", Tokens)
  /\ LET d == IF tok.t \in {"{", "["} THEN top.depth + 1
              ELSE IF tok.t \in {"}", "]"} THEN top.depth - 1 ELSE top.depth
     IN  Becomes([top EXCEPT !.depth = d, !.state = IF d = 0 THEN "after_value" ELSE "skip"])

\* wrongtokenerror, wantedvalue, and the handlers' own errors.
WrongToken ==
  /\ outcome = "parsing" /\ tok.t \notin Accepted(top)
  /\ outcome' = "error" /\ UNCHANGED <<doc, pos, stack>>

Parse ==
  \/ MapStart \/ AfterValue \/ WantKey \/ WantColon \/ Done \/ WrongToken
  \/ handle_string \/ handle_int \/ handle_ptr \/ handle_slice \/ handle_map
  \/ ElementsEnd \/ Comma \/ StringElement \/ StructElement
  \/ PairsEnd \/ PairKey \/ PairColon \/ PairValue
  \/ SkipField \/ Skip

\* What the call of UnmarshalJSON has made, once it is done.
Decoded == stack[1].obj

-----------------------------------------------------------------------------
(***************************************************************************)
(* The values of the fields, made of what was read so far: r.texts are the *)
(* strings read and the empty one, r.ints the numbers read and 0.          *)
(***************************************************************************)
ReadTokens(class) == {doc[i] : i \in {j \in 1..(pos - 1) : doc[j].t = class}}

ReadSoFar == [texts |-> {<< >>} \cup {x.v : x \in ReadTokens("string")},
              ints  |-> {0} \cup {x.v[1] : x \in ReadTokens("integer")}]

\* A value that the handler of the field may put there.
IsValue(r, field, v) ==
  CASE field.kind = "string"  -> v \in r.texts
    [] field.kind = "int"     -> v \in r.ints
    [] field.kind = "strings" -> v \in Seq(r.texts)
    [] field.kind = "map"     -> DOMAIN v \subseteq r.texts /\ v \in [DOMAIN v -> r.texts]
    [] field.kind = "ptrs"    -> /\ v \in Seq({v[i] : i \in DOMAIN v})
                                 /\ \A i \in DOMAIN v : DOMAIN v[i] = Keys(field.of)
    [] OTHER                  -> FALSE

Fits(r, field, v) == (field.kind \notin {"string", "int"} /\ v = Nil) \/ IsValue(r, field, v)

\* An object of struct T.  Pointers lead from struct to struct twice at most: from
\* a filter to its configuration and from there to the routes.
IsLeaf(r, T, o) ==
  DOMAIN o = Keys(T) /\ \A k \in Keys(T) : Fits(r, Fields[T][k], o[k])

IsNode(r, T, o) ==
  /\ DOMAIN o = Keys(T)
  /\ \A k \in Keys(T) : \/ Fits(r, Fields[T][k], o[k])
                        \/ Fields[T][k].kind = "ptr" /\ IsLeaf(r, Fields[T][k].of, o[k])

IsObject(r, T, o) ==
  /\ DOMAIN o = Keys(T)
  /\ \A k \in Keys(T) : \/ Fits(r, Fields[T][k], o[k])
                        \/ Fields[T][k].kind = "ptr" /\ IsNode(r, Fields[T][k].of, o[k])

\* A call and the loop that it is in.
States == {"map_start", "want_key", "want_colon", "want_value", "after_value",
           "elements", "pairs", "pair_colon", "pair_value", "skip"}

LoopStates == {"elements", "pairs", "pair_colon", "pair_value"}

KindsIn(state) == IF state = "elements" THEN {"strings", "ptrs"} ELSE {"map"}

IsFrame(r, f) ==
  /\ DOMAIN f = {"T", "obj", "state", "key", "wantVal", "k", "depth"}
  /\ f.T \in Structs /\ f.key \in Keys(f.T) \cup {"no_such_key"}
  /\ f.state \in States /\ f.wantVal \in BOOLEAN /\ f.k \in r.texts
  /\ f.depth \in Nat /\ (f.state = "skip" => f.depth > 0)
  /\ IsObject(r, f.T, f.obj)
  /\ f.state \in LoopStates => KindOf(f) \in KindsIn(f.state)
                               /\ IsValue(r, Fields[f.T][f.key], f.obj[f.key])

\* f waits for g to return: in the handler of a struct, or in the loop of a slice.
Calls(f, g) ==
  /\ <<f.state, KindOf(f)>> \in {<<"elements", "ptrs">>, <<"want_value", "ptr">>}
  /\ g.T = Fields[f.T][f.key].of
=============================================================================
