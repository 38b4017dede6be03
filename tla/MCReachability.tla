--------------------------- MODULE MCReachability ---------------------------
(***************************************************************************)
(* One container and its shim for TLC.                                     *)
(***************************************************************************)
EXTENDS Reachability

MCLabels == {<< >>, <<"a">>}

MCBackend    == [s \in Shims |-> [IP |-> "b1", Port |-> "80"]]
MCFrontend   == [s \in Shims |-> [IP |-> "h1", Port |-> "80"]]
MCPublicPort == [c \in Containers |-> "80"]
MCLabelsOf   == [c \in Containers |->
                   [ServiceName |-> <<"a">>, EnvironmentName |-> << >>, ProxyMode |-> "tcp"]]
=============================================================================
