---------------------------- MODULE MCRegistrar ----------------------------
(***************************************************************************)
(* A small registrar for TLC: three goroutines; the endpoints of two       *)
(* containers on port 80 whose different labels ("a-b" without, "a" with   *)
(* the environment "b") make the same service name, and on port 81 one     *)
(* with the labels of the second and one without labels.  The address of   *)
(* the second does not parse.                                              *)
(***************************************************************************)
EXTENDS Registrar

CONSTANTS c1, c2, c3

MCLabels == {<< >>, <<"a">>, <<"b">>, <<"a", "-", "b">>}

Request(action, frontend, port, backend, svc, env, mode) ==
  [Action |-> action, FrontendAddr |-> frontend, FrontendPort |-> port,
   BackendAddr |-> backend, BackendPort |-> "80",
   ServiceName |-> svc, EnvironmentName |-> env, ProxyMode |-> mode]

Dashed(action)  == Request(action, "h1", "80", "b1", <<"a", "-", "b">>, << >>, "http")
Joined(action)  == Request(action, BadAddress, "80", "b2", <<"a">>, <<"b">>, "tcp")
Twin(action)    == Request(action, "h1", "81", "b3", <<"a">>, <<"b">>, "tcp")
Unnamed(action) == Request(action, "h1", "81", "b3", << >>, << >>, "http")

MCRequests == {Dashed("REGISTER"), Joined("REGISTER"), Joined("DEREGISTER"),
               Twin("DEREGISTER"), Unnamed("UNKNOWN")}

MCLookups == {<<"a", "-", "b", "-", "80">>}
=============================================================================
