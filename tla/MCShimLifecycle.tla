--------------------------- MODULE MCShimLifecycle ---------------------------
(***************************************************************************)
(* Two shims for TLC.                                                      *)
(***************************************************************************)
EXTENDS ShimLifecycle

MCLabels == {<< >>, <<"a">>, <<"b">>, <<"a", "-", "b">>}

Addr(ip, port) == [IP |-> ip, Port |-> port]
Tag(svc, env, mode) == [ServiceName |-> svc, EnvironmentName |-> env, ProxyMode |-> mode]

MCBackend == [s \in Shims |-> IF s = "s1" THEN Addr("b1", "80") ELSE Addr("b2", "80")]

\* A container and the next release of it under another name, on one address;
\* a bystander that publishes the same port number elsewhere.
RedeployFrontend   == [s \in Shims |-> Addr(NilIP, "80")]
RedeployPublicPort == [c \in Containers |-> "80"]
RedeployLabelsOf   ==
  [c \in Containers |-> IF c = "s1" THEN Tag(<<"a">>, << >>, "none")
                        ELSE Tag(<<"b">>, << >>, "none")]

\* One container that nobody else is like.
OneFrontend   == [s \in Shims |-> Addr("h1", "80")]
OnePublicPort == [c \in Containers |-> "80"]
OneLabelsOf   == [c \in Containers |-> Tag(<<"a">>, << >>, "tcp")]
=============================================================================
