--------------------------- MODULE RegistrarProofs ---------------------------
(***************************************************************************)
(* Theorems about Registrar, for any set of goroutines, requests, labels,  *)
(* addresses and ports.                                                    *)
(***************************************************************************)
EXTENDS Registrar, SvcNamesProofs

-----------------------------------------------------------------------------
(***************************************************************************)
(* NewRegistrar makes an empty map and a free lock.                        *)
(***************************************************************************)
LEMMA InitInv == Init => IInv
  <1> SUFFICES ASSUME Init PROVE IInv
    OBVIOUS
  <1>1. TypeOK
    BY RegistrarAssumption DEF Init, TypeOK, Empty
  <1>2. LockState
    BY RegistrarAssumption DEF Init, LockState
  <1>3. OpAtPlace /\ LoopStartsEmpty
    BY DEF Init, OpAtPlace, LoopStartsEmpty
  <1>4. ListingIsCurrent /\ KeyedByName
    BY DEF Init, ListingIsCurrent, KeyedByName, Empty
  <1> QED BY <1>1, <1>2, <1>3, <1>4 DEF IInv

(***************************************************************************)
(* Every step of a goroutine in Register, GetEntry, EachEntry or the lock  *)
(* keeps the inductive invariant.                                          *)
(***************************************************************************)
LEMMA StepInv == IInv /\ [Next]_vars => IInv'
  <1> SUFFICES ASSUME IInv, [Next]_vars PROVE IInv'
    OBVIOUS
  <1> USE DEF IInv
  <1>a. RegisterOp \subseteq [kind : {"Register"}, req : RegistrarRequest]
    BY RegistrarAssumption DEF RegisterOp
  <1>1. ASSUME NEW c \in Calls, NEW req \in Requests, Register(c, req) PROVE IInv'
    <2> USE <1>1, RegistrarAssumption DEF Register, Goto
    <2>1. TypeOK'
      BY DEF TypeOK, RegisterOp
    <2>2. LockState'
      BY DEF TypeOK, LockState
    <2>3. OpAtPlace' /\ LoopStartsEmpty'
      BY DEF TypeOK, OpAtPlace, LoopStartsEmpty, RegisterOp
    <2>4. ListingIsCurrent' /\ KeyedByName'
      BY DEF TypeOK, ListingIsCurrent, KeyedByName
    <2> QED BY <2>1, <2>2, <2>3, <2>4
  <1>2. ASSUME NEW c \in Calls, NEW o \in GetOp \cup EachOp, Read(c, o) PROVE IInv'
    <2> USE <1>2, RegistrarAssumption DEF Read, Goto
    <2>1. TypeOK'
      BY DEF TypeOK
    <2>2. LockState'
      BY DEF TypeOK, LockState
    <2>3. OpAtPlace' /\ LoopStartsEmpty'
      BY DEF TypeOK, OpAtPlace, LoopStartsEmpty
    <2>4. ListingIsCurrent' /\ KeyedByName'
      BY DEF TypeOK, ListingIsCurrent, KeyedByName
    <2> QED BY <2>1, <2>2, <2>3, <2>4
  <1>3. ASSUME NEW c \in Calls, LockBegin(c) PROVE IInv'
    <2> USE <1>3, RegistrarAssumption DEF LockBegin, Goto
    <2>1. TypeOK'
      BY DEF TypeOK
    <2>2. LockState'
      BY DEF TypeOK, LockState
    <2>3. OpAtPlace' /\ LoopStartsEmpty'
      BY DEF TypeOK, OpAtPlace, LoopStartsEmpty
    <2>4. ListingIsCurrent' /\ KeyedByName'
      BY DEF TypeOK, ListingIsCurrent, KeyedByName
    <2> QED BY <2>1, <2>2, <2>3, <2>4
  <1>4. ASSUME NEW c \in Calls, RejectUnknown(c) \/ LockEnd(c) \/ GetEntry(c) PROVE IInv'
    <2> USE <1>4, RegistrarAssumption
        DEF RejectUnknown, LockEnd, NoReaders, GetEntry, Goto
    <2>1. TypeOK'
      BY DEF TypeOK
    <2>2. LockState'
      BY DEF TypeOK, LockState
    <2>3. OpAtPlace' /\ LoopStartsEmpty'
      BY DEF TypeOK, OpAtPlace, LoopStartsEmpty
    <2>4. ListingIsCurrent' /\ KeyedByName'
      BY DEF TypeOK, ListingIsCurrent, KeyedByName
    <2> QED BY <2>1, <2>2, <2>3, <2>4
  <1>5. ASSUME NEW c \in Calls, Update(c) PROVE IInv'
    <2> USE <1>5, RegistrarAssumption DEF Update, Goto
    <2>0. op[c].req \in RegistrarRequest
      BY <1>a DEF OpAtPlace
    <2>1. /\ entries' \in [DOMAIN entries' -> Entry]
          /\ DOMAIN entries' \subseteq Names
          /\ KeyedByName'
      BY <2>0, UpdatedType DEF TypeOK, KeyedByName
    <2>2. TypeOK'
      BY <2>1 DEF TypeOK
    <2>3. LockState'
      BY DEF TypeOK, LockState
    <2>4. OpAtPlace' /\ LoopStartsEmpty'
      BY DEF TypeOK, OpAtPlace, LoopStartsEmpty
    <2>5. \A d \in Calls : pc'[d] # "read"
      BY DEF TypeOK, LockState
    <2> QED BY <2>1, <2>2, <2>3, <2>4, <2>5 DEF ListingIsCurrent
  <1>6. ASSUME NEW c \in Calls, Unlock(c) PROVE IInv'
    <2> USE <1>6, RegistrarAssumption DEF Unlock
    <2>1. TypeOK'
      BY DEF TypeOK
    <2>2. LockState'
      BY DEF TypeOK, LockState
    <2>3. OpAtPlace' /\ LoopStartsEmpty'
      BY DEF TypeOK, OpAtPlace, LoopStartsEmpty
    <2>4. ListingIsCurrent'
      BY DEF TypeOK, ListingIsCurrent, LoopStartsEmpty, IsRestriction, Empty
    <2>5. KeyedByName'
      BY DEF KeyedByName
    <2> QED BY <2>1, <2>2, <2>3, <2>4, <2>5
  <1>7. ASSUME NEW c \in Calls, RLock(c) PROVE IInv'
    <2> USE <1>7, RegistrarAssumption DEF RLock, ReaderMayEnter, Goto
    <2>1. TypeOK'
      BY DEF TypeOK
    <2>2. LockState'
      BY DEF TypeOK, LockState
    <2>3. OpAtPlace' /\ LoopStartsEmpty'
      BY DEF TypeOK, OpAtPlace, LoopStartsEmpty
    <2>4. ListingIsCurrent'
      BY DEF TypeOK, ListingIsCurrent, LoopStartsEmpty, IsRestriction, Empty
    <2>5. KeyedByName'
      BY DEF KeyedByName
    <2> QED BY <2>1, <2>2, <2>3, <2>4, <2>5
  <1>8. ASSUME NEW c \in Calls, EachEntryVisit(c) PROVE IInv'
    <2>1. PICK n \in DOMAIN entries \ DOMAIN seen[c] :
            seen' = [seen EXCEPT ![c] = Put(seen[c], n, entries[n])]
      BY <1>8 DEF EachEntryVisit
    <2>2. DOMAIN seen' = Calls /\ \A d \in Calls \ {c} : seen'[d] = seen[d]
      BY <2>1 DEF TypeOK
    <2>3. seen'[c] = [k \in DOMAIN seen[c] \cup {n} |->
                        IF k = n THEN entries[n] ELSE seen[c][k]]
      BY <2>1 DEF TypeOK, Put
    <2>4. seen'[c] \in [DOMAIN seen'[c] -> Entry]
      BY <2>3 DEF TypeOK
    <2>5. TypeOK'
      BY <1>8, <2>2, <2>4 DEF EachEntryVisit, TypeOK
    <2>6. LockState' /\ OpAtPlace' /\ KeyedByName'
      BY <1>8 DEF EachEntryVisit, LockState, OpAtPlace, KeyedByName
    <2>7. LoopStartsEmpty'
      BY <1>8, <2>2 DEF EachEntryVisit, LoopStartsEmpty
    <2>8. IsRestriction(seen[c], entries)
      BY <1>8 DEF EachEntryVisit, ListingIsCurrent
    <2>9. IsRestriction(seen'[c], entries)
      BY <2>3, <2>8 DEF IsRestriction
    <2>10. ListingIsCurrent'
      BY <1>8, <2>2, <2>9 DEF EachEntryVisit, ListingIsCurrent
    <2> QED BY <2>5, <2>6, <2>7, <2>10
  <1>9. ASSUME NEW c \in Calls, EachEntryEnd(c) \/ RUnlock(c) PROVE IInv'
    <2> USE <1>9, RegistrarAssumption DEF EachEntryEnd, RUnlock, Goto
    <2>1. TypeOK'
      BY DEF TypeOK
    <2>2. LockState'
      BY DEF TypeOK, LockState
    <2>3. OpAtPlace' /\ LoopStartsEmpty'
      BY DEF TypeOK, OpAtPlace, LoopStartsEmpty
    <2>4. ListingIsCurrent' /\ KeyedByName'
      BY DEF TypeOK, ListingIsCurrent, KeyedByName
    <2> QED BY <2>1, <2>2, <2>3, <2>4
  <1>10. ASSUME NEW c \in Calls, Return(c) PROVE IInv'
    <2> USE <1>10, RegistrarAssumption DEF Return, Goto
    <2>1. TypeOK'
      BY DEF TypeOK, Empty
    <2>2. LockState'
      BY DEF TypeOK, LockState
    <2>3. OpAtPlace' /\ LoopStartsEmpty'
      BY DEF TypeOK, OpAtPlace, LoopStartsEmpty
    <2>4. ListingIsCurrent' /\ KeyedByName'
      BY DEF TypeOK, ListingIsCurrent, KeyedByName
    <2> QED BY <2>1, <2>2, <2>3, <2>4
  <1>11. CASE UNCHANGED vars
    BY <1>11 DEF vars, TypeOK, LockState, OpAtPlace, LoopStartsEmpty,
                 ListingIsCurrent, KeyedByName
  <1> QED BY <1>1, <1>2, <1>3, <1>4, <1>5, <1>6, <1>7, <1>8, <1>9, <1>10, <1>11
         DEF Next, Invoke, Serve

(***************************************************************************)
(* The inductive invariant holds in every state of the registrar.          *)
(***************************************************************************)
THEOREM InvariantHolds == Spec => []IInv
  BY InitInv, StepInv, PTL DEF Spec

(***************************************************************************)
(* Type correctness: the map always holds entries under service names, and *)
(* every goroutine is at a place of Register, GetEntry or EachEntry.       *)
(***************************************************************************)
THEOREM TypeCorrect == Spec => []TypeOK
  <1>1. IInv => TypeOK
    BY DEF IInv
  <1> QED BY <1>1, InvariantHolds, PTL

(***************************************************************************)
(* While a call of Register writes the map no other goroutine is in it.    *)
(***************************************************************************)
THEOREM ExclusionHolds == Spec => []RWExclusion
  <1>1. IInv => RWExclusion
    BY DEF IInv, TypeOK, LockState, RWExclusion
  <1> QED BY <1>1, InvariantHolds, PTL

(***************************************************************************)
(* What EachEntry's loop has visited is part of the map as it is.          *)
(***************************************************************************)
THEOREM ListingHolds == Spec => []ListingIsCurrent
  <1>1. IInv => ListingIsCurrent
    BY DEF IInv
  <1> QED BY <1>1, InvariantHolds, PTL

(***************************************************************************)
(* Every entry is under the name that the cluster and listener handlers    *)
(* announce for it.                                                        *)
(***************************************************************************)
THEOREM KeysHold == Spec => []KeyedByName
  <1>1. IInv => KeyedByName
    BY DEF IInv
  <1> QED BY <1>1, InvariantHolds, PTL

-----------------------------------------------------------------------------
(***************************************************************************)
(* A request keeps the entries of every port but its own.                  *)
(***************************************************************************)
LEMMA UpdatedPort ==
  ASSUME IInv, NEW req \in RegistrarRequest, entries' = Updated(entries, req),
         NEW p, p # req.FrontendPort
  PROVE  OnPort(p)' = OnPort(p)
  <1> DEFINE e  == RequestToEntry(req)
             n  == SvcName(e)
             on(m) == {k \in DOMAIN m : m[k].FrontendAddr.Port = p}
  <1>1. e \in Entry /\ e.FrontendAddr.Port # p
    BY RequestToEntryType
  <1>2. ASSUME n \in DOMAIN entries PROVE entries[n].FrontendAddr.Port # p
    <2>1. entries[n] \in Entry /\ SvcName(entries[n]) = SvcName(e)
      BY <1>2 DEF IInv, TypeOK, KeyedByName
    <2> QED BY <1>1, <2>1, SvcNameDeterminesPort
  <1>3. /\ \A k : k # n => (k \in DOMAIN entries' <=> k \in DOMAIN entries)
        /\ \A k \in DOMAIN entries' : k # n => entries'[k] = entries[k]
        /\ n \in DOMAIN entries' => entries'[n].FrontendAddr.Port # p
    BY <1>1, UpdatedAt
  <1> HIDE DEF e, n
  <1>4. on(entries') = on(entries) /\ \A k \in on(entries) : entries'[k] = entries[k]
    BY <1>2, <1>3
  <1>5. OnPort(p)' = [k \in on(entries') |-> entries'[k]]
    BY DEF OnPort, Restrict
  <1>6. OnPort(p) = [k \in on(entries) |-> entries[k]]
    BY DEF OnPort, Restrict
  <1> HIDE DEF on
  <1> QED BY <1>4, <1>5, <1>6

(***************************************************************************)
(* A call of Register for one frontend port never touches the entries of   *)
(* another port, whatever labels the two containers carry.                 *)
(***************************************************************************)
THEOREM PortsAreIsolated == Spec => PortIsolation
  <1>1. IInv /\ [Next]_vars =>
          \A p \in Ports : OnPort(p)' # OnPort(p) =>
            \E c \in Calls : pc[c] = "critical" /\ op[c].req.FrontendPort = p
    <2> SUFFICES ASSUME IInv, [Next]_vars, NEW p \in Ports, OnPort(p)' # OnPort(p)
                 PROVE  \E c \in Calls : pc[c] = "critical" /\ op[c].req.FrontendPort = p
      OBVIOUS
    <2>1. entries' # entries
      BY DEF OnPort
    <2>2. PICK c \in Calls : Update(c)
      BY <2>1 DEF Next, Invoke, Serve, vars, Register, Read, LockBegin, RejectUnknown,
                  LockEnd, Unlock, RLock, GetEntry, EachEntryVisit, EachEntryEnd,
                  RUnlock, Return
    <2>3. /\ pc[c] = "critical" /\ op[c].req \in RegistrarRequest
          /\ entries' = Updated(entries, op[c].req)
      BY <2>2, RegistrarAssumption DEF Update, IInv, OpAtPlace, RegisterOp
    <2> QED BY <2>3, UpdatedPort
  <1> QED BY <1>1, InvariantHolds, PTL DEF Spec, PortIsolation

-----------------------------------------------------------------------------
(***************************************************************************)
(* The implementation of the atomic map.  A step of goroutine c changes    *)
(* the abstract state of call c only.                                      *)
(***************************************************************************)
AbstractCalls == [c \in Calls |-> AbstractCall(c)]

\* The empty registrar is the empty map.
LEMMA InitRefines == Init => Abstract!Init
  BY DEF Init, Abstract!Init, Abstract!Idle, AbstractCall, Empty

\* Every step of a goroutine is a step of the atomic map or changes nothing there.
LEMMA StepRefines == IInv /\ [Next]_vars => [Abstract!Next]_<<entries, AbstractCalls>>
  <1> SUFFICES ASSUME IInv, [Next]_vars
               PROVE  [Abstract!Next]_<<entries, AbstractCalls>>
    OBVIOUS
  <1> USE DEF IInv
  \* Only call c changes: from nothing, to an operation, or to its answer.
  <1>1. ASSUME NEW c \in Calls, NEW x, AbstractCall(c)' = x,
               \A d \in Calls \ {c} : AbstractCall(d)' = AbstractCall(d)
        PROVE  AbstractCalls' = [AbstractCalls EXCEPT ![c] = x]
    <2>1. AbstractCalls' = [d \in Calls |-> AbstractCall(d)']
      BY DEF AbstractCalls
    <2>2. AbstractCalls' = [d \in Calls |-> IF d = c THEN x ELSE AbstractCall(d)]
      BY <1>1, <2>1
    <2> QED BY <2>2 DEF AbstractCalls
  <1>2. ASSUME \A d \in Calls : AbstractCall(d)' = AbstractCall(d), entries' = entries
        PROVE  UNCHANGED <<entries, AbstractCalls>>
    BY <1>2 DEF AbstractCalls
  \* A call that is made.
  <1>3. ASSUME NEW c \in Calls, Invoke(c) PROVE Abstract!Invoke(c)
    <2>1. PICK o \in Abstract!Operations :
            /\ pc[c] = "idle" /\ entries' = entries
            /\ op' = [op EXCEPT ![c] = o] /\ ret' = ret
            /\ \E l \in {"reject", "lock", "rlock"} : pc' = [pc EXCEPT ![c] = l]
      BY <1>3 DEF Invoke, Register, Read, Goto, Abstract!Operations, GetOp, EachOp
    <2>2. AbstractCall(c)' = [st |-> "pending", op |-> o]
      BY <2>1 DEF AbstractCall, TypeOK
    <2>3. \A d \in Calls \ {c} : AbstractCall(d)' = AbstractCall(d)
      BY <2>1 DEF AbstractCall, TypeOK
    <2>4. AbstractCalls[c] = Abstract!Idle
      BY <2>1 DEF AbstractCalls, AbstractCall, Abstract!Idle
    <2> QED BY <1>1, <2>1, <2>2, <2>3, <2>4 DEF Abstract!Invoke, AbstractCalls
  \* A call that takes effect with answer r.
  <1>4. ASSUME NEW c \in Calls, NEW r, NEW l \in {"unlock", "runlock", "return"},
               pc[c] \in {"reject", "critical", "read"},
               pc' = [pc EXCEPT ![c] = l], ret' = [ret EXCEPT ![c] = r], op' = op,
               entries' = Abstract!Effect(entries, op[c]),
               r = Abstract!Answer(entries, op[c])
        PROVE  Abstract!Perform(c)
    <2>1. AbstractCall(c)' = [st |-> "done", ret |-> r]
      BY <1>4 DEF AbstractCall, TypeOK
    <2>2. \A d \in Calls \ {c} : AbstractCall(d)' = AbstractCall(d)
      BY <1>4 DEF AbstractCall, TypeOK
    <2>3. AbstractCalls[c] = [st |-> "pending", op |-> op[c]]
      BY <1>4 DEF AbstractCalls, AbstractCall
    <2> QED BY <1>1, <1>4, <2>1, <2>2, <2>3 DEF Abstract!Perform, AbstractCalls
  <1>5. ASSUME NEW c \in Calls, RejectUnknown(c) PROVE Abstract!Perform(c)
    <2>1. op[c].kind = "Register" /\ op[c].req.Action = "UNKNOWN"
      BY <1>5 DEF RejectUnknown, OpAtPlace, RegisterOp
    <2>2. /\ Abstract!Effect(entries, op[c]) = entries
          /\ Abstract!Answer(entries, op[c]) = [ok |-> FALSE]
      BY <2>1 DEF Abstract!Effect, Abstract!Answer
    <2> QED BY <1>4, <1>5, <2>2 DEF RejectUnknown, Goto
  <1>6. ASSUME NEW c \in Calls, Update(c) PROVE Abstract!Perform(c)
    <2>1. op[c].kind = "Register" /\ op[c].req.Action # "UNKNOWN"
      BY <1>6 DEF Update, OpAtPlace, RegisterOp
    <2> DEFINE e == RequestToEntry(op[c].req)
    <2>2. Abstract!RequestToEntry(op[c].req) = e
      BY DEF RequestToEntry, Abstract!RequestToEntry, ParseIP, Abstract!ParseIP
    <2>3. Abstract!SvcName(e) = SvcName(e)
      BY DEF SvcName, Abstract!SvcName, Dash, Abstract!Dash
    <2>4. Abstract!Effect(entries, op[c]) = Updated(entries, op[c].req)
      <3> HIDE DEF e
      <3>1. Updated(entries, op[c].req) =
              IF op[c].req.Action = "REGISTER" THEN Put(entries, SvcName(e), e)
                                               ELSE Delete(entries, SvcName(e))
        BY DEF Updated, e
      <3> QED BY <2>1, <2>2, <2>3, <3>1
              DEF Abstract!Effect, Put, Delete, Restrict, Abstract!Restrict
    <2>5. Abstract!Answer(entries, op[c]) = [ok |-> TRUE]
      BY <2>1 DEF Abstract!Answer
    <2> QED BY <1>4, <1>6, <2>4, <2>5 DEF Update, Goto
  <1>7. ASSUME NEW c \in Calls, GetEntry(c) PROVE Abstract!Perform(c)
    <2>1. Abstract!Effect(entries, op[c]) = entries
      BY <1>7 DEF GetEntry, Abstract!Effect
    <2>2. Abstract!Answer(entries, op[c]) =
            [found |-> IF op[c].name \in DOMAIN entries THEN {entries[op[c].name]} ELSE {}]
      BY <1>7 DEF GetEntry, Abstract!Answer
    <2> QED BY <1>4, <1>7, <2>1, <2>2 DEF GetEntry, Goto
  <1>8. ASSUME NEW c \in Calls, EachEntryEnd(c) PROVE Abstract!Perform(c)
    <2>1. Abstract!Effect(entries, op[c]) = entries
      BY <1>8 DEF EachEntryEnd, Abstract!Effect
    <2>2. seen[c] = entries
      <3>1. /\ IsRestriction(seen[c], entries) /\ DOMAIN seen[c] = DOMAIN entries
            /\ seen[c] \in [DOMAIN seen[c] -> Entry]
            /\ entries \in [DOMAIN entries -> Entry]
        BY <1>8 DEF EachEntryEnd, ListingIsCurrent, IsRestriction, TypeOK
      <3> QED BY <3>1 DEF IsRestriction
    <2>3. Abstract!Answer(entries, op[c]) = [listing |-> seen[c]]
      BY <1>8, <2>2 DEF EachEntryEnd, Abstract!Answer
    <2> QED BY <1>4, <1>8, <2>1, <2>3 DEF EachEntryEnd, Goto
  \* A call that returns.
  <1>9. ASSUME NEW c \in Calls, Return(c) PROVE Abstract!Return(c)
    <2>1. AbstractCall(c)' = Abstract!Idle
      BY <1>9 DEF Return, Goto, AbstractCall, Abstract!Idle, TypeOK
    <2>2. \A d \in Calls \ {c} : AbstractCall(d)' = AbstractCall(d)
      BY <1>9 DEF Return, Goto, AbstractCall, TypeOK
    <2>3. AbstractCalls[c].st = "done"
      BY <1>9 DEF Return, AbstractCalls, AbstractCall
    <2> QED BY <1>1, <1>9, <2>1, <2>2, <2>3 DEF Abstract!Return, AbstractCalls, Return
  \* The other steps: the lock's, and the rounds of EachEntry's loop.
  <1>10. ASSUME NEW c \in Calls,
                LockBegin(c) \/ LockEnd(c) \/ RLock(c) \/ EachEntryVisit(c) \/ RUnlock(c)
         PROVE  UNCHANGED <<entries, AbstractCalls>>
    BY <1>2, <1>10 DEF LockBegin, LockEnd, RLock, EachEntryVisit, RUnlock, Goto,
                       AbstractCall, TypeOK
  <1>11. ASSUME NEW c \in Calls, Unlock(c) PROVE UNCHANGED <<entries, AbstractCalls>>
    BY <1>2, <1>11 DEF Unlock, AbstractCall, TypeOK
  <1>12. CASE UNCHANGED vars
    BY <1>2, <1>12 DEF vars, AbstractCall
  <1> QED
    BY <1>3, <1>5, <1>6, <1>7, <1>8, <1>9, <1>10, <1>11, <1>12
       DEF Next, Serve, Abstract!Next

(***************************************************************************)
(* The map behind the RWMutex is linearizable: Registrar implements        *)
(* RegistryMap.                                                            *)
(***************************************************************************)
THEOREM RegistrarIsLinearizable == Spec => Linearizable
  BY InitRefines, StepRefines, InvariantHolds, PTL
     DEF Spec, Linearizable, Abstract!Safety, AbstractCalls
=============================================================================
