----------------------------- MODULE MCEnvoyXds -----------------------------
(***************************************************************************)
(* A small host for TLC: two containers on port 80 with different labels   *)
(* and one name, and one on port 81 with the labels of the second.         *)
(***************************************************************************)
EXTENDS EnvoyXds

MCLabels == {<< >>, <<"a">>, <<"b">>, <<"a", "-", "b">>}

Request(action, port, backend, svc, env, mode) ==
  [Action |-> action, FrontendAddr |-> "h1", FrontendPort |-> port,
   BackendAddr |-> backend, BackendPort |-> "80",
   ServiceName |-> svc, EnvironmentName |-> env, ProxyMode |-> mode]

Dashed(action) == Request(action, "80", "b1", <<"a", "-", "b">>, << >>, "http")
Joined(action) == Request(action, "80", "b2", <<"a">>, <<"b">>, "tcp")
Twin(action)   == Request(action, "81", "b3", <<"a">>, <<"b">>, "tcp")

MCRequests == {Dashed("REGISTER"), Joined("REGISTER"), Joined("DEREGISTER"),
               Twin("REGISTER"), Twin("DEREGISTER")}
=============================================================================
