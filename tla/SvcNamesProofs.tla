--------------------------- MODULE SvcNamesProofs ---------------------------
(***************************************************************************)
(* What the registrar's keys and its map promise, for any labels,          *)
(* addresses and ports.                                                    *)
(***************************************************************************)
EXTENDS SvcNames, SequenceTheorems, TLAPS

-----------------------------------------------------------------------------
(***************************************************************************)
(* Facts about the service name.                                           *)
(***************************************************************************)
\* What RequestToEntry makes of a request is an entry for the request's port.
LEMMA RequestToEntryType ==
  ASSUME NEW req \in RegistrarRequest
  PROVE  /\ RequestToEntry(req) \in Entry
         /\ RequestToEntry(req).FrontendAddr.Port = req.FrontendPort
  BY DEF RegistrarRequest, RequestToEntry, Entry, TCPAddr, ParseIP

\* SvcName is some string followed by the entry's frontend port.
LEMMA SvcNameEndsInPort ==
  ASSUME NEW e \in Entry
  PROVE  \E base \in Names : /\ SvcName(e) = base \o <<Dash, e.FrontendAddr.Port>>
                             /\ SvcName(e) \in Names
  <1> DEFINE env  == IF e.EnvironmentName = << >> THEN << >>
                     ELSE <<Dash>> \o e.EnvironmentName
             text == e.ServiceName \o env
             base == IF text = << >> THEN <<"unknown", Dash>> ELSE text
  <1>1. /\ e.ServiceName \in Names /\ e.EnvironmentName \in Names
        /\ e.FrontendAddr.Port \in Ports
    BY LabelsAssumption DEF Entry, TCPAddr, Names
  <1>2. env \in Names
    <2>1. << >> \in Names /\ <<Dash>> \in Names
      BY DEF Names, Dash
    <2>2. <<Dash>> \o e.EnvironmentName \in Names
      BY <1>1, <2>1, ConcatProperties DEF Names
    <2> QED BY <2>1, <2>2
  <1>3. base \in Names
    <2>1. text \in Names
      BY <1>1, <1>2, ConcatProperties DEF Names
    <2>2. <<"unknown", Dash>> \in Names
      BY DEF Names, Dash
    <2> QED BY <2>1, <2>2
  <1>4. <<Dash, e.FrontendAddr.Port>> \in Names
    BY <1>1 DEF Names, Dash
  <1>5. SvcName(e) = base \o <<Dash, e.FrontendAddr.Port>>
    BY DEF SvcName
  <1>6. SvcName(e) \in Names
    BY <1>3, <1>4, <1>5, ConcatProperties DEF Names
  <1> QED BY <1>3, <1>5, <1>6

(***************************************************************************)
(* Entries with different frontend ports have different names, whatever    *)
(* their labels: SvcName ends in the port.                                 *)
(***************************************************************************)
THEOREM SvcNameDeterminesPort ==
  ASSUME NEW e \in Entry, NEW f \in Entry, SvcName(e) = SvcName(f)
  PROVE  e.FrontendAddr.Port = f.FrontendAddr.Port
  <1>1. ASSUME NEW s \in Names, NEW p
        PROVE  (s \o <<Dash, p>>)[Len(s \o <<Dash, p>>)] = p
    BY <1>1 DEF Names
  <1>2. PICK s \in Names : SvcName(e) = s \o <<Dash, e.FrontendAddr.Port>>
    BY SvcNameEndsInPort
  <1>3. PICK t \in Names : SvcName(f) = t \o <<Dash, f.FrontendAddr.Port>>
    BY SvcNameEndsInPort
  <1>4. SvcName(e)[Len(SvcName(e))] = e.FrontendAddr.Port
    BY <1>1, <1>2
  <1>5. SvcName(f)[Len(SvcName(f))] = f.FrontendAddr.Port
    BY <1>1, <1>3
  <1> QED BY <1>4, <1>5

-----------------------------------------------------------------------------
(***************************************************************************)
(* The map after a request: still a map from names to entries, each under  *)
(* its own name, and changed at no name of another port.                   *)
(***************************************************************************)
LEMMA UpdatedType ==
  ASSUME NEW m, m \in [DOMAIN m -> Entry], DOMAIN m \subseteq Names,
         \A n \in DOMAIN m : SvcName(m[n]) = n,
         NEW req \in RegistrarRequest
  PROVE  /\ Updated(m, req) \in [DOMAIN Updated(m, req) -> Entry]
         /\ DOMAIN Updated(m, req) \subseteq Names
         /\ \A n \in DOMAIN Updated(m, req) : SvcName(Updated(m, req)[n]) = n
  <1> DEFINE e == RequestToEntry(req)
  <1>1. e \in Entry /\ SvcName(e) \in Names
    BY RequestToEntryType, SvcNameEndsInPort
  <1>2. CASE req.Action = "REGISTER"
    <2>1. Updated(m, req) = [k \in DOMAIN m \cup {SvcName(e)} |->
                               IF k = SvcName(e) THEN e ELSE m[k]]
      BY <1>2 DEF Updated, Put
    <2> HIDE DEF e
    <2> QED BY <1>1, <2>1
  <1>3. CASE req.Action # "REGISTER"
    <2>1. Updated(m, req) = [k \in DOMAIN m \ {SvcName(e)} |-> m[k]]
      BY <1>3 DEF Updated, Delete, Restrict
    <2> HIDE DEF e
    <2> QED BY <2>1
  <1> QED BY <1>2, <1>3

\* Only the name in the request is touched: it holds the new entry, or nothing.
LEMMA UpdatedAt ==
  ASSUME NEW m, NEW req \in RegistrarRequest
  PROVE  LET e == RequestToEntry(req)
             n == SvcName(e)
             u == Updated(m, req)
         IN  /\ \A k : k # n => (k \in DOMAIN u <=> k \in DOMAIN m)
             /\ \A k \in DOMAIN u : k # n => u[k] = m[k]
             /\ req.Action = "REGISTER" => n \in DOMAIN u /\ u[n] = e
             /\ req.Action # "REGISTER" => n \notin DOMAIN u
  <1> DEFINE e == RequestToEntry(req)
             n == SvcName(e)
             u == Updated(m, req)
  <1>1. CASE req.Action = "REGISTER"
    <2>1. u = [k \in DOMAIN m \cup {n} |-> IF k = n THEN e ELSE m[k]]
      BY <1>1 DEF Updated, Put
    <2> HIDE DEF e, n, u
    <2> QED BY <1>1, <2>1 DEF e, n, u
  <1>2. CASE req.Action # "REGISTER"
    <2>1. u = [k \in DOMAIN m \ {n} |-> m[k]]
      BY <1>2 DEF Updated, Delete, Restrict
    <2> HIDE DEF e, n, u
    <2> QED BY <1>2, <2>1 DEF e, n, u
  <1> QED BY <1>1, <1>2
=============================================================================
