----------------------------- MODULE Registrar -----------------------------
(***************************************************************************)
(* internal/envoyhttp/registrar.go as its goroutines run it: the entries   *)
(* map, the sync.RWMutex embedded in Registrar, and one goroutine for each *)
(* gRPC call of Register and each HTTP call that ends in GetEntry or       *)
(* EachEntry.  Every access to the map and every lock operation is a step. *)
(*                                                                         *)
(* sync.RWMutex (Go 1.10, .travis.yml): Lock takes the writers' mutex,     *)
(* which from then on keeps new readers out, and waits for the readers     *)
(* that are in; Unlock lets in every reader that has come in the meantime. *)
(***************************************************************************)
EXTENDS SvcNames, FiniteSets

CONSTANTS
  Calls,     \* goroutines that serve gRPC and HTTP calls
  Requests,  \* register and deregister requests that callers send
  Lookups,   \* service names that callers look up
  NoCall     \* no goroutine

ASSUME RegistrarAssumption ==
  /\ Requests \subseteq RegistrarRequest
  /\ Lookups \subseteq Names
  /\ NoCall \notin Calls

VARIABLES
  entries,   \* Registrar.entries
  writer,    \* RWMutex: the goroutine that is in Lock or holds the lock
  readers,   \* RWMutex: the goroutines that hold a read lock
  pc,        \* where each goroutine is
  op,        \* the call each goroutine serves
  seen,      \* EachEntry: what the range loop has passed to its callback
  ret        \* what the goroutine will return

vars == <<entries, writer, readers, pc, op, seen, ret>>

RegisterOp == [kind : {"Register"}, req : Requests]
GetOp      == [kind : {"GetEntry"}, name : Lookups]
EachOp     == {[kind |-> "EachEntry"]}
NoOp       == [kind |-> "None"]
NoRet      == [none |-> TRUE]
Empty      == << >>          \* the map without entries

Goto(c, label) == pc' = [pc EXCEPT ![c] = label]

-----------------------------------------------------------------------------
Init == /\ entries = Empty
        /\ writer  = NoCall
        /\ readers = {}
        /\ pc   = [c \in Calls |-> "idle"]
        /\ op   = [c \in Calls |-> NoOp]
        /\ seen = [c \in Calls |-> Empty]
        /\ ret  = [c \in Calls |-> NoRet]

(***************************************************************************)
(* Calls of Register.                                                      *)
(***************************************************************************)
Register(c, req) ==
  /\ pc[c] = "idle"
  /\ op' = [op EXCEPT ![c] = [kind |-> "Register", req |-> req]]
  /\ Goto(c, IF req.Action = "UNKNOWN" THEN "reject" ELSE "lock")
  /\ UNCHANGED <<entries, writer, readers, seen, ret>>

RejectUnknown(c) ==
  /\ pc[c] = "reject"
  /\ ret' = [ret EXCEPT ![c] = [ok |-> FALSE]]
  /\ Goto(c, "return")
  /\ UNCHANGED <<entries, writer, readers, op, seen>>

\* Mutant of NoReaders: Lock does not wait for the readers that are in.
IgnoreReaders == TRUE

NoReaders == readers = {}

LockBegin(c) ==
  /\ pc[c] = "lock"
  /\ writer = NoCall
  /\ writer' = c
  /\ Goto(c, "drain")
  /\ UNCHANGED <<entries, readers, op, seen, ret>>

LockEnd(c) ==
  /\ pc[c] = "drain"
  /\ NoReaders
  /\ Goto(c, "critical")
  /\ UNCHANGED <<entries, writer, readers, op, seen, ret>>

Update(c) ==
  /\ pc[c] = "critical"
  /\ entries' = Updated(entries, op[c].req)
  /\ ret' = [ret EXCEPT ![c] = [ok |-> TRUE]]
  /\ Goto(c, "unlock")
  /\ UNCHANGED <<writer, readers, op, seen>>

Unlock(c) ==
  LET admitted == {d \in Calls : pc[d] = "rwait"} IN
  /\ pc[c] = "unlock"
  /\ writer' = NoCall
  /\ readers' = readers \cup admitted
  /\ pc' = [d \in Calls |-> IF d = c THEN "return"
                            ELSE IF d \in admitted THEN "read" ELSE pc[d]]
  /\ UNCHANGED <<entries, op, seen, ret>>

(***************************************************************************)
(* Calls of GetEntry and EachEntry.                                        *)
(***************************************************************************)
Read(c, o) ==
  /\ pc[c] = "idle"
  /\ op' = [op EXCEPT ![c] = o]
  /\ Goto(c, "rlock")
  /\ UNCHANGED <<entries, writer, readers, seen, ret>>

\* Mutants of ReaderMayEnter: readers overtake a writer that waits in Lock;
\* the readers take no lock.
ReaderOvertakes == writer = NoCall \/ pc[writer] = "drain"
ReaderUnlocked  == TRUE

ReaderMayEnter == writer = NoCall

RLock(c) ==
  /\ pc[c] = "rlock"
  /\ IF ReaderMayEnter THEN readers' = readers \cup {c} /\ Goto(c, "read")
                       ELSE readers' = readers /\ Goto(c, "rwait")
  /\ UNCHANGED <<entries, writer, op, seen, ret>>

GetEntry(c) ==
  /\ pc[c] = "read" /\ op[c].kind = "GetEntry"
  /\ LET n == op[c].name IN
     ret' = [ret EXCEPT ![c] = [found |-> IF n \in DOMAIN entries THEN {entries[n]} ELSE {}]]
  /\ Goto(c, "runlock")
  /\ UNCHANGED <<entries, writer, readers, op, seen>>

\* One round of EachEntry's range loop, which visits the map in any order.
EachEntryVisit(c) ==
  /\ pc[c] = "read" /\ op[c].kind = "EachEntry"
  /\ \E n \in DOMAIN entries \ DOMAIN seen[c] :
       seen' = [seen EXCEPT ![c] = Put(@, n, entries[n])]
  /\ UNCHANGED <<entries, writer, readers, pc, op, ret>>

EachEntryEnd(c) ==
  /\ pc[c] = "read" /\ op[c].kind = "EachEntry"
  /\ DOMAIN entries \subseteq DOMAIN seen[c]
  /\ ret' = [ret EXCEPT ![c] = [listing |-> seen[c]]]
  /\ Goto(c, "runlock")
  /\ UNCHANGED <<entries, writer, readers, op, seen>>

RUnlock(c) ==
  /\ pc[c] = "runlock"
  /\ readers' = readers \ {c}
  /\ Goto(c, "return")
  /\ UNCHANGED <<entries, writer, op, seen, ret>>

Return(c) ==
  /\ pc[c] = "return"
  /\ op'   = [op EXCEPT ![c] = NoOp]
  /\ seen' = [seen EXCEPT ![c] = Empty]
  /\ ret'  = [ret EXCEPT ![c] = NoRet]
  /\ Goto(c, "idle")
  /\ UNCHANGED <<entries, writer, readers>>

-----------------------------------------------------------------------------
Invoke(c) == \/ \E req \in Requests : Register(c, req)
             \/ \E o \in GetOp \cup EachOp : Read(c, o)

\* The steps of a call that is under way, except for taking the writers' mutex.
Serve(c) == \/ RejectUnknown(c) \/ LockEnd(c) \/ Update(c) \/ Unlock(c)
            \/ RLock(c) \/ GetEntry(c) \/ EachEntryVisit(c) \/ EachEntryEnd(c)
            \/ RUnlock(c) \/ Return(c)

Next == \E c \in Calls : Invoke(c) \/ LockBegin(c) \/ Serve(c)

Spec == Init /\ [][Next]_vars

(***************************************************************************)
(* A runnable goroutine is scheduled, and the writers' sync.Mutex starves  *)
(* nobody (starvation mode, since Go 1.9).  No caller has to call.         *)
(***************************************************************************)
Fairness == \A c \in Calls : WF_vars(Serve(c)) /\ SF_vars(LockBegin(c))

FairSpec == Spec /\ Fairness

-----------------------------------------------------------------------------
TypeOK ==
  /\ DOMAIN entries \subseteq Names
  /\ entries \in [DOMAIN entries -> Entry]
  /\ writer \in Calls \cup {NoCall}
  /\ readers \subseteq Calls
  /\ pc \in [Calls -> {"idle", "reject", "lock", "drain", "critical", "unlock",
                      "rlock", "rwait", "read", "runlock", "return"}]
  /\ op \in [Calls -> RegisterOp \cup GetOp \cup EachOp \cup {NoOp}]
  /\ DOMAIN seen = Calls /\ \A c \in Calls : seen[c] \in [DOMAIN seen[c] -> Entry]
  /\ DOMAIN ret = Calls

(***************************************************************************)
(* The lock does what Register, GetEntry and EachEntry take it for: while  *)
(* a goroutine changes the map, no other goroutine reads or changes it.    *)
(***************************************************************************)
RWExclusion ==
  \A c \in Calls : pc[c] \in {"critical", "unlock"} =>
    \A d \in Calls \ {c} : pc[d] \notin {"critical", "unlock", "read", "runlock"}

(***************************************************************************)
(* EachEntry's loop never mixes two states of the map: what it has visited *)
(* so far is part of the map as it now is, whatever calls of Register have *)
(* arrived since the loop began.                                           *)
(***************************************************************************)
ListingIsCurrent ==
  \A c \in Calls : pc[c] = "read" => IsRestriction(seen[c], entries)

(***************************************************************************)
(* An entry's key is the SvcName of the entry.  clustersHandler announces  *)
(* SvcName(entry) and Envoy then asks registrationHandler for that name,   *)
(* which looks it up as a key.                                             *)
(***************************************************************************)
KeyedByName == \A n \in DOMAIN entries : SvcName(entries[n]) = n

(***************************************************************************)
(* The inductive invariant.  LockState ties the lock's two words to the    *)
(* goroutines' places, OpAtPlace says which calls can be at which place,   *)
(* and a loop that has not begun has visited nothing.                      *)
(***************************************************************************)
LockState ==
  \A c \in Calls :
    /\ writer = c <=> pc[c] \in {"drain", "critical", "unlock"}
    /\ c \in readers <=> pc[c] \in {"read", "runlock"}
    /\ pc[c] \in {"critical", "unlock"} => readers = {}

OpAtPlace ==
  \A c \in Calls :
    /\ pc[c] \in {"lock", "drain", "critical"} =>
         op[c] \in RegisterOp /\ op[c].req.Action # "UNKNOWN"
    /\ pc[c] = "reject" => op[c] \in RegisterOp /\ op[c].req.Action = "UNKNOWN"
    /\ pc[c] \in {"rlock", "rwait", "read"} => op[c] \in GetOp \cup EachOp
    /\ pc[c] = "idle" => op[c] = NoOp

LoopStartsEmpty ==
  \A c \in Calls : pc[c] \in {"idle", "rlock", "rwait"} => seen[c] = Empty

IInv == /\ TypeOK /\ LockState /\ OpAtPlace /\ LoopStartsEmpty
        /\ ListingIsCurrent /\ KeyedByName

\* The entries whose frontend listens on port p.
OnPort(p) == Restrict(entries, {n \in DOMAIN entries : entries[n].FrontendAddr.Port = p})

(***************************************************************************)
(* A call of Register for one frontend port adds, changes or removes       *)
(* entries of that port only, however the labels of two containers relate: *)
(* the port at the end of SvcName keeps the names of two ports apart.      *)
(***************************************************************************)
PortIsolation ==
  [][\A p \in Ports : OnPort(p)' # OnPort(p) =>
       \E c \in Calls : pc[c] = "critical" /\ op[c].req.FrontendPort = p]_vars

(***************************************************************************)
(* The registrar is the atomic map of RegistryMap: a call takes effect in  *)
(* Update, GetEntry, EachEntryEnd or RejectUnknown, inside its lock, and   *)
(* its caller sees that and nothing else.                                  *)
(***************************************************************************)
AbstractCall(c) ==
  CASE pc[c] = "idle"                             -> [st |-> "idle"]
    [] pc[c] \in {"unlock", "runlock", "return"} -> [st |-> "done", ret |-> ret[c]]
    [] OTHER                                      -> [st |-> "pending", op |-> op[c]]

Abstract == INSTANCE RegistryMap WITH call <- [c \in Calls |-> AbstractCall(c)]

Linearizable == Abstract!Safety

(***************************************************************************)
(* Every call of Register, GetEntry or EachEntry comes back, however many  *)
(* others keep coming: neither Envoy's polling nor other shims can keep a  *)
(* goroutine waiting for the lock for ever.                                *)
(***************************************************************************)
EveryCallReturns == \A c \in Calls : pc[c] # "idle" ~> pc[c] = "idle"
=============================================================================
