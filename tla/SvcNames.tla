------------------------------ MODULE SvcNames ------------------------------
(***************************************************************************)
(* The data the registrar keeps: the wire request, the Entry made of it    *)
(* and the service name that is the key of the entries map                 *)
(* (internal/envoyhttp/registrar.go).                                      *)
(*                                                                         *)
(* A string is the sequence of its parts around the dashes: "bede-dev" is  *)
(* <<"bede", "-", "dev">>.  SvcName only ever joins parts with a dash, so  *)
(* two names are the same string exactly when they are the same sequence.  *)
(***************************************************************************)
EXTENDS Sequences, Functions

CONSTANTS
  Addresses,   \* address strings that net.ParseIP accepts
  BadAddress,  \* any string that it does not accept, such as "<nil>"
  Ports,       \* port numbers, as the text "%d" prints
  Atoms,       \* dash-free parts of labels, and the dash
  Labels,      \* values of the ServiceName and EnvironmentName labels
  NilIP        \* the nil net.IP

ASSUME LabelsAssumption == Labels \subseteq Seq(Atoms)

ProxyModes == {"http", "tcp"}

\* The enum is open on the wire: UNKNOWN is any value but the two it names.
RequestActions == {"REGISTER", "DEREGISTER", "UNKNOWN"}

RegistrarRequest ==
  [FrontendAddr    : Addresses \cup {BadAddress}, FrontendPort : Ports,
   BackendAddr     : Addresses \cup {BadAddress}, BackendPort  : Ports,
   Action          : RequestActions,
   EnvironmentName : Labels,
   ServiceName     : Labels,
   ProxyMode       : ProxyModes]

TCPAddr == [IP : Addresses \cup {NilIP}, Port : Ports]

Entry == [FrontendAddr : TCPAddr, BackendAddr : TCPAddr,
          ServiceName : Labels, EnvironmentName : Labels,
          ProxyMode : ProxyModes]

-----------------------------------------------------------------------------
\* Mutant of ParseIP: the address is kept as it came.
ParseIPVerbatim(text) == text

ParseIP(text) == IF text \in Addresses THEN text ELSE NilIP

\* Mutant of IPString: a nil address is sent as it is.
IPStringNil(ip) == ip

\* net.IP.String prints a nil address as "<nil>".
IPString(ip) == IF ip = NilIP THEN BadAddress ELSE ip

RequestToEntry(req) ==
  [FrontendAddr    |-> [IP |-> ParseIP(req.FrontendAddr), Port |-> req.FrontendPort],
   BackendAddr     |-> [IP |-> ParseIP(req.BackendAddr),  Port |-> req.BackendPort],
   ServiceName     |-> req.ServiceName,
   EnvironmentName |-> req.EnvironmentName,
   ProxyMode       |-> req.ProxyMode]

Dash == "-"

\* Mutant of SvcName: the port is left out of the name.
SvcNameNoPort(entry) == entry.ServiceName \o <<Dash>> \o entry.EnvironmentName

SvcName(entry) ==
  LET env  == IF entry.EnvironmentName = << >> THEN << >>
              ELSE <<Dash>> \o entry.EnvironmentName
      base == entry.ServiceName \o env
  IN  (IF base = << >> THEN <<"unknown", Dash>> ELSE base)
        \o <<Dash, entry.FrontendAddr.Port>>

\* Every string that could be asked for or used as a key.
Names == Seq(Atoms \cup Ports \cup {"unknown", Dash})

-----------------------------------------------------------------------------
Put(m, n, e)  == [k \in DOMAIN m \cup {n} |-> IF k = n THEN e ELSE m[k]]
Delete(m, n)  == Restrict(m, DOMAIN m \ {n})

\* Mutants of Updated: DEREGISTER deletes nothing; the key is the bare label.
UpdatedNoDelete(m, req) ==
  LET e == RequestToEntry(req) IN
  IF req.Action = "REGISTER" THEN Put(m, SvcName(e), e) ELSE m

UpdatedByLabel(m, req) ==
  LET e == RequestToEntry(req) IN
  IF req.Action = "REGISTER" THEN Put(m, e.ServiceName, e) ELSE Delete(m, e.ServiceName)

\* The map after the request: assignment to, or delete of, the entry's name.
Updated(m, req) ==
  LET e == RequestToEntry(req) IN
  IF req.Action = "REGISTER" THEN Put(m, SvcName(e), e) ELSE Delete(m, SvcName(e))
=============================================================================
