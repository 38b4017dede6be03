---------------------------- MODULE RegistryMap ----------------------------
(***************************************************************************)
(* What the registrar promises its callers: one map from service names to  *)
(* entries on which every call takes effect at a single instant between    *)
(* its invocation and its return.  A listing is the whole map as it was at *)
(* that instant.  Registrar.tla implements this specification with a Go    *)
(* map, a sync.RWMutex and one goroutine per call.                         *)
(***************************************************************************)
EXTENDS SvcNames

CONSTANTS
  Calls,     \* goroutines that serve gRPC and HTTP calls
  Requests,  \* register and deregister requests that callers send
  Lookups    \* service names that callers look up

Operations == [kind : {"Register"}, req : Requests]
                \cup [kind : {"GetEntry"}, name : Lookups]
                \cup {[kind |-> "EachEntry"]}

VARIABLES entries, call

Idle == [st |-> "idle"]

\* The map after an operation on map m, and the answer to the operation.
Effect(m, o) ==
  IF o.kind # "Register" \/ o.req.Action = "UNKNOWN" THEN m
  ELSE LET e == RequestToEntry(o.req)
           n == SvcName(e)
       IN  IF o.req.Action = "REGISTER"
           THEN [k \in DOMAIN m \cup {n} |-> IF k = n THEN e ELSE m[k]]
           ELSE Restrict(m, DOMAIN m \ {n})

Answer(m, o) ==
  CASE o.kind = "Register"  -> [ok |-> o.req.Action # "UNKNOWN"]
    [] o.kind = "GetEntry"  -> [found |-> IF o.name \in DOMAIN m THEN {m[o.name]} ELSE {}]
    [] o.kind = "EachEntry" -> [listing |-> m]

-----------------------------------------------------------------------------
Init == /\ entries = << >>
        /\ call = [c \in Calls |-> Idle]

Invoke(c) == /\ call[c] = Idle
             /\ \E o \in Operations : call' = [call EXCEPT ![c] = [st |-> "pending", op |-> o]]
             /\ UNCHANGED entries

Perform(c) == /\ call[c].st = "pending"
              /\ entries' = Effect(entries, call[c].op)
              /\ call' = [call EXCEPT ![c] =
                            [st |-> "done", ret |-> Answer(entries, call[c].op)]]

Return(c) == /\ call[c].st = "done"
             /\ call' = [call EXCEPT ![c] = Idle]
             /\ UNCHANGED entries

Next == \E c \in Calls : Invoke(c) \/ Perform(c) \/ Return(c)

Safety == Init /\ [][Next]_<<entries, call>>

\* Every call that was made is answered, and its answer delivered.
Spec == Safety /\ \A c \in Calls : /\ WF_<<entries, call>>(Perform(c))
                                   /\ WF_<<entries, call>>(Return(c))
=============================================================================
