----------------------------- MODULE MCApiJson ------------------------------
(***************************************************************************)
(* ApiJson for TLC: an http service, a tcp service that may take its place *)
(* under the same name, one whose container has no labels, so that every   *)
(* optional field is empty once, and one whose name has a slash in it.     *)
(***************************************************************************)
EXTENDS ApiJson

CONSTANTS p80, p81, p8080   \* the ports

MCAtoms  == {"bede", "team", "/", "dev"}
MCLabels == {<< >>, <<"bede">>, <<"dev">>, <<"team", "/", "bede">>}

Addr(ip, port) == [IP |-> ip, Port |-> port]

MCRegistered ==
  {[FrontendAddr |-> Addr("10.0.0.1", p80), BackendAddr |-> Addr("172.16.0.2", p8080),
    ServiceName |-> <<"bede">>, EnvironmentName |-> <<"dev">>, ProxyMode |-> "http"],
   [FrontendAddr |-> Addr("10.0.0.1", p80), BackendAddr |-> Addr("172.16.0.3", p8080),
    ServiceName |-> <<"bede">>, EnvironmentName |-> <<"dev">>, ProxyMode |-> "tcp"],
   [FrontendAddr |-> Addr(NilIP, p8080), BackendAddr |-> Addr("172.16.0.2", p81),
    ServiceName |-> << >>, EnvironmentName |-> << >>, ProxyMode |-> "http"],
   [FrontendAddr |-> Addr("10.0.0.1", p80), BackendAddr |-> Addr("172.16.0.3", p81),
    ServiceName |-> <<"team", "/", "bede">>, EnvironmentName |-> <<"dev">>, ProxyMode |-> "tcp"]}
=============================================================================
