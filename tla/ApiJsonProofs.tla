--------------------------- MODULE ApiJsonProofs ----------------------------
(***************************************************************************)
(* For any entries of the registrar: the decoder keeps its types, comes to *)
(* an end and takes nothing for whole that broke off; it reads the body of *)
(* every answer back as the object that the handler built; and so a client *)
(* reads the answers that EnvoyXds reasons about.                          *)
(*                                                                         *)
(* The proofs go from the sequences of tokens to the encoders, struct by   *)
(* struct, with what the decoder does along what each of them writes; then *)
(* to the types of the decoder, its end and the cut body; and last to the  *)
(* round trip, where the decoder is shown to do that and nothing else.     *)
(***************************************************************************)
EXTENDS ApiJson, SvcNamesProofs, FiniteSetTheorems, WellFoundedInduction

-----------------------------------------------------------------------------
(***************************************************************************)
(* Induction.  That of the library is over a predicate, which the provers  *)
(* cannot instantiate; here it is over a set, from the least element of    *)
(* what is left out of it.                                                 *)
(***************************************************************************)
\* A non-empty set of natural numbers has a least element, which is its Min.
LEMMA LeastOfNats ==
  ASSUME NEW S, S \subseteq Nat, S # {}
  PROVE  Min(S) \in S /\ \A n \in S : Min(S) <= n
<1> DEFINE R == {ss \in Nat \X Nat : ss[1] < ss[2]}
<1>1. IsWellFoundedOn(R, Nat)
  BY NatLessThanWellFounded DEF OpToRel
<1> HIDE DEF R
<1>2. PICK x \in S : \A y \in S : ~(<<y, x>> \in R)
  BY <1>1, WFMin
<1>3. \A y \in S : x <= y
  <2> SUFFICES ASSUME NEW y \in S, y < x PROVE FALSE
    OBVIOUS
  <2>1. <<y, x>> \in R
    BY DEF R
  <2> QED BY <1>2, <2>1
<1> QED BY <1>3 DEF Min

\* A set that has 0 and every successor of its members has every number.
LEMMA InductionOnSet ==
  ASSUME NEW S, 0 \in S, \A n \in Nat : n \in S => n + 1 \in S
  PROVE  Nat \subseteq S
<1> SUFFICES ASSUME Nat \ S # {} PROVE FALSE
  OBVIOUS
<1>1. Min(Nat \ S) \in Nat \ S /\ \A n \in Nat \ S : Min(Nat \ S) <= n
  BY LeastOfNats
<1>2. PICK m \in Nat \ S : \A n \in Nat \ S : m <= n
  BY <1>1
<1>3. m - 1 \in Nat /\ m - 1 \in S
  BY <1>2
<1> QED BY <1>2, <1>3

\* f is the function that FlattenSeq goes by.
Flattens(f, ss) ==
  \A m \in Nat : m < Len(ss) =>
    f[m + 1] = IF m = 0 THEN ss[m + 1] ELSE f[m] \o ss[m + 1]

LEMMA FlattenFunction ==
  ASSUME NEW S, NEW ss \in Seq(Seq(S))
  PROVE  \E f \in [1..Len(ss) -> Seq(S)] :
           Flattens(f, ss) /\ FlattenSeq(ss) = IF Len(ss) = 0 THEN << >> ELSE f[Len(ss)]
<1> DEFINE n       == Len(ss)
           At(g,i) == IF i = 1 THEN ss[i] ELSE g[i - 1] \o ss[i]
           Up(m)   == \E g \in [1..m -> Seq(S)] : \A i \in 1..m : g[i] = At(g, i)
           U       == {m \in Nat : m <= n => Up(m)}
           f       == CHOOSE g : g = [i \in 1..n |-> At(g, i)]
           D       == {m \in Nat : m \in 1..n => f[m] \in Seq(S)}
<1>1. n \in Nat /\ ss \in [1..n -> Seq(S)]
  OBVIOUS
<1>2. Nat \subseteq U
  <2>1. 0 \in U
    <3>1. << >> \in [1..0 -> Seq(S)] /\ \A i \in 1..0 : FALSE
      OBVIOUS
    <3> HIDE DEF At
    <3>2. Up(0)
      BY <3>1
    <3> QED BY <3>2
  <2>2. ASSUME NEW m \in Nat, m \in U PROVE m + 1 \in U
    <3> HIDE DEF Up, n
    <3> SUFFICES ASSUME m + 1 <= n PROVE Up(m + 1)
      OBVIOUS
    <3>0. Up(m)
      BY <1>1, <2>2
    <3> HIDE DEF At
    <3>1. PICK g \in [1..m -> Seq(S)] : \A i \in 1..m : g[i] = At(g, i)
      BY <3>0 DEF Up
    <3> USE DEF At
    <3>2. At(g, m + 1) \in Seq(S)
      BY <1>1
    <3> DEFINE h == [i \in 1..(m + 1) |-> IF i = m + 1 THEN At(g, m + 1) ELSE g[i]]
    <3>3. h \in [1..(m + 1) -> Seq(S)]
      BY <3>2
    <3>4. ASSUME NEW i \in 1..(m + 1) PROVE h[i] = At(h, i)
      <4>1. i # 1 => h[i - 1] = g[i - 1] /\ i - 1 \in 1..m
        OBVIOUS
      <4>2. At(h, i) = At(g, i)
        BY <4>1
      <4> HIDE DEF At
      <4>3. h[i] = IF i = m + 1 THEN At(g, m + 1) ELSE g[i]
        OBVIOUS
      <4>4. i # m + 1 => g[i] = At(g, i)
        BY <3>1
      <4> QED BY <4>2, <4>3, <4>4
    <3> HIDE DEF h, At
    <3> QED BY <3>3, <3>4 DEF Up
  <2> HIDE DEF U
  <2> QED BY <2>1, <2>2, InductionOnSet
<1>3. f = [i \in 1..n |-> At(f, i)]
  <2> HIDE DEF At, n
  <2>1. Up(n)
    BY <1>1, <1>2
  <2>2. PICK g \in [1..n -> Seq(S)] : \A i \in 1..n : g[i] = At(g, i)
    BY <2>1
  <2>3. g = [i \in 1..n |-> At(g, i)]
    BY <2>2
  <2> QED BY <2>3
<1> HIDE DEF f
<1>4. Nat \subseteq D
  <2>1. 0 \in D
    BY <1>1
  <2>2. ASSUME NEW m \in Nat, m \in D PROVE m + 1 \in D
    <3> SUFFICES ASSUME m + 1 \in 1..n PROVE f[m + 1] \in Seq(S)
      OBVIOUS
    <3>1. f[m + 1] = At(f, m + 1)
      BY <1>3
    <3> QED BY <1>1, <2>2, <3>1
  <2> HIDE DEF D
  <2> QED BY <2>1, <2>2, InductionOnSet
<1>5. f \in [1..n -> Seq(S)]
  <2>1. \A i \in 1..n : f[i] \in Seq(S)
    BY <1>4
  <2>2. DOMAIN f = 1..n /\ f = [i \in 1..n |-> f[i]]
    BY <1>3
  <2> HIDE DEF n
  <2> QED BY <2>1, <2>2
<1>6. Flattens(f, ss)
  <2> SUFFICES ASSUME NEW m \in Nat, m < n
               PROVE  f[m + 1] = IF m = 0 THEN ss[m + 1] ELSE f[m] \o ss[m + 1]
    BY DEF Flattens
  <2>1. m + 1 \in 1..n /\ (m + 1) - 1 = m /\ (m + 1 = 1 <=> m = 0)
    BY <1>1
  <2> HIDE DEF n
  <2>2. f[m + 1] = At(f, m + 1)
    BY <1>3, <2>1
  <2> QED BY <2>1, <2>2
<1>7. FlattenSeq(ss) = IF n = 0 THEN << >> ELSE f[n]
  BY <1>1 DEF FlattenSeq, f
<1> QED BY <1>5, <1>6, <1>7

\* FlattenSeq of sequences over S is a sequence over S, and takes one more at the end.
LEMMA FlattenFacts ==
  ASSUME NEW S, NEW ss \in Seq(Seq(S))
  PROVE  /\ FlattenSeq(ss) \in Seq(S)
         /\ \A s \in Seq(S) : FlattenSeq(Append(ss, s)) = FlattenSeq(ss) \o s
<1>1. PICK f \in [1..Len(ss) -> Seq(S)] :
        Flattens(f, ss) /\ FlattenSeq(ss) = IF Len(ss) = 0 THEN << >> ELSE f[Len(ss)]
  BY FlattenFunction
<1>2. Len(ss) \in Nat /\ FlattenSeq(ss) \in Seq(S)
  <2>1. Len(ss) \in Nat
    OBVIOUS
  <2>2. CASE Len(ss) = 0
    BY <1>1, <2>2
  <2>3. CASE Len(ss) # 0
    <3>1. FlattenSeq(ss) = f[Len(ss)]
      BY <1>1, <2>3
    <3>2. Len(ss) \in 1..Len(ss)
      BY <2>1, <2>3
    <3>3. f[Len(ss)] \in Seq(S)
      BY <1>1, <3>2
    <3> QED BY <2>1, <3>1, <3>3
  <2> QED BY <2>1, <2>2, <2>3
<1>3. ASSUME NEW s \in Seq(S) PROVE FlattenSeq(Append(ss, s)) = FlattenSeq(ss) \o s
  <2> DEFINE tt == Append(ss, s)
             n  == Len(ss)
  <2>1. /\ tt \in Seq(Seq(S)) /\ Len(tt) = n + 1 /\ tt[n + 1] = s
        /\ \A i \in 1..n : tt[i] = ss[i]
    OBVIOUS
  <2> HIDE DEF tt
  <2>2. PICK g \in [1..Len(tt) -> Seq(S)] :
          Flattens(g, tt) /\ FlattenSeq(tt) = IF Len(tt) = 0 THEN << >> ELSE g[Len(tt)]
    BY <2>1, FlattenFunction
  <2> DEFINE D == {m \in Nat : m \in 1..n => g[m] = f[m]}
  <2>3. Nat \subseteq D
    <3>1. ASSUME NEW m \in Nat, m \in D PROVE m + 1 \in D
      <4> SUFFICES ASSUME m + 1 \in 1..n PROVE g[m + 1] = f[m + 1]
        OBVIOUS
      <4>1. g[m + 1] = IF m + 1 = 1 THEN ss[m + 1] ELSE g[m] \o ss[m + 1]
        <5>1. m < Len(tt) /\ tt[m + 1] = ss[m + 1] /\ (m + 1 = 1 <=> m = 0)
          BY <1>2, <2>1, SMTT(40)
        <5> QED BY <2>2, <5>1 DEF Flattens
      <4>2. f[m + 1] = IF m + 1 = 1 THEN ss[m + 1] ELSE f[m] \o ss[m + 1]
        <5>1. m < Len(ss) /\ (m + 1 = 1 <=> m = 0)
          BY <1>2
        <5> QED BY <1>1, <5>1 DEF Flattens
      <4>3. m # 0 => g[m] = f[m]
        BY <1>2, <3>1
      <4> QED BY <4>1, <4>2, <4>3
    <3>2. 0 \in D
      BY <1>2
    <3> HIDE DEF D
    <3> QED BY <3>1, <3>2, InductionOnSet
  <2>4. FlattenSeq(tt) = g[n + 1]
    BY <1>2, <2>1, <2>2
  <2>5. g[n + 1] = IF n = 0 THEN s ELSE g[n] \o s
    <3>1. n \in Nat /\ n < Len(tt) /\ tt[n + 1] = s
      BY <1>2, <2>1
    <3> HIDE DEF n
    <3> QED BY <2>2, <3>1 DEF Flattens
  <2>6. n # 0 => g[n] = f[n]
    <3>1. n \in Nat
      BY <1>2
    <3> HIDE DEF n
    <3> QED BY <2>3, <3>1
  <2>7. n = 0 => << >> \o s = s
    OBVIOUS
  <2> QED BY <1>1, <2>4, <2>5, <2>6, <2>7 DEF tt
<1> QED BY <1>2, <1>3

-----------------------------------------------------------------------------
(***************************************************************************)
(* What the encoders write is a sequence of tokens, of whatever texts.     *)
(***************************************************************************)
IsBuffer(s) == \E S : s \in Seq(S)

LEMMA TokensAreBuffers ==
  /\ IsBuffer(<< >>)
  /\ \A x : IsBuffer(<<x>>)
  /\ \A x : IsBuffer(Tok(x)) /\ IsBuffer(WriteString(x)) /\ IsBuffer(FormatBits(x))
  /\ IsBuffer(Null)
<1>1. IsBuffer(<< >>)
  BY DEF IsBuffer
<1>2. ASSUME NEW x PROVE IsBuffer(<<x>>)
  <2>1. <<x>> \in Seq({x})
    OBVIOUS
  <2> QED BY <2>1 DEF IsBuffer
<1> QED BY <1>1, <1>2 DEF Tok, WriteString, FormatBits, Null

LEMMA ConcatIsBuffer ==
  ASSUME NEW s, NEW t, IsBuffer(s), IsBuffer(t)
  PROVE  IsBuffer(s \o t)
<1>1. PICK S : s \in Seq(S)
  BY DEF IsBuffer
<1>2. PICK T : t \in Seq(T)
  BY DEF IsBuffer
<1>3. s \in Seq(S \cup T) /\ t \in Seq(S \cup T)
  BY <1>1, <1>2
<1>4. s \o t \in Seq(S \cup T)
  BY <1>3
<1> QED BY <1>4 DEF IsBuffer

LEMMA FlattenIsBuffer ==
  ASSUME NEW ss, IsBuffer(ss), \A i \in DOMAIN ss : IsBuffer(ss[i])
  PROVE  IsBuffer(FlattenSeq(ss))
<1> DEFINE S == UNION {{ss[i][j] : j \in DOMAIN ss[i]} : i \in DOMAIN ss}
<1>1. ASSUME NEW i \in DOMAIN ss PROVE ss[i] \in Seq(S)
  <2>1. PICK T : ss[i] \in Seq(T)
    BY DEF IsBuffer
  <2>2. \A j \in DOMAIN ss[i] : ss[i][j] \in S
    OBVIOUS
  <2> HIDE DEF S
  <2> QED BY <2>1, <2>2
<1>2. PICK T : ss \in Seq(T)
  BY DEF IsBuffer
<1> HIDE DEF S
<1>3. ss \in Seq(Seq(S))
  BY <1>1, <1>2
<1> QED BY <1>3, FlattenFacts DEF IsBuffer

LEMMA SameIndicesIsBuffer ==
  ASSUME NEW s, IsBuffer(s), NEW f, DOMAIN f = DOMAIN s, f = [i \in DOMAIN f |-> f[i]]
  PROVE  IsBuffer(f)
<1>1. PICK T : s \in Seq(T)
  BY DEF IsBuffer
<1>2. DOMAIN f = 1..Len(s) /\ Len(s) \in Nat
  BY <1>1
<1> DEFINE S == {f[i] : i \in 1..Len(s)}
<1>3. f \in [1..Len(s) -> S]
  BY <1>2
<1> HIDE DEF S
<1>4. f \in Seq(S)
  BY <1>2, <1>3
<1> QED BY <1>4 DEF IsBuffer

LEMMA CommasIsBuffer ==
  ASSUME NEW bufs, IsBuffer(bufs), \A i \in DOMAIN bufs : IsBuffer(bufs[i])
  PROVE  IsBuffer(Commas(bufs))
<1> DEFINE ss == [i \in DOMAIN bufs |-> (IF i > 1 THEN Tok(",") ELSE << >>) \o bufs[i]]
<1>1. ASSUME NEW i \in DOMAIN ss PROVE IsBuffer(ss[i])
  <2>1. IsBuffer(IF i > 1 THEN Tok(",") ELSE << >>)
    BY TokensAreBuffers
  <2> QED BY <2>1, ConcatIsBuffer
<1>2. DOMAIN ss = DOMAIN bufs /\ ss = [i \in DOMAIN ss |-> ss[i]]
  OBVIOUS
<1> HIDE DEF ss
<1>3. IsBuffer(ss)
  BY <1>2, SameIndicesIsBuffer
<1>4. IsBuffer(FlattenSeq(ss))
  BY <1>1, <1>3, FlattenIsBuffer
<1> QED BY <1>4 DEF Commas, ss

\* A list of fields as the encoder of a struct goes through it.
IsField(f)   == IsBuffer(f.buf) /\ f.stop \in BOOLEAN

LEMMA FieldsAreFields ==
  ASSUME NEW k
  PROVE  /\ \A buf : IsBuffer(buf) => IsField(Field(k, buf))
         /\ \A x : IsField(Str(k, x)) /\ IsField(Num(k, x))
         /\ \A p, buf : p = Nil \/ IsBuffer(buf) => IsField(Pointer(k, p, buf))
<1>1. ASSUME NEW buf, IsBuffer(buf) PROVE IsField(Field(k, buf))
  <2>1. IsBuffer(WriteString(<<k>>) \o Tok(":"))
    BY TokensAreBuffers, ConcatIsBuffer
  <2>2. IsBuffer((WriteString(<<k>>) \o Tok(":")) \o buf)
    BY <1>1, <2>1, ConcatIsBuffer
  <2> QED BY <2>2 DEF IsField, Field
<1>2. \A x : IsField(Str(k, x)) /\ IsField(Num(k, x))
  BY <1>1, TokensAreBuffers DEF Str, Num
<1>3. ASSUME NEW p, NEW buf, p = Nil \/ IsBuffer(buf) PROVE IsField(Pointer(k, p, buf))
  <2>1. IsBuffer(IF p = Nil THEN Null ELSE buf)
    BY <1>3, TokensAreBuffers
  <2> QED BY <1>1, <2>1 DEF Pointer
<1> QED BY <1>1, <1>2, <1>3

-----------------------------------------------------------------------------
(***************************************************************************)
(* The map that a request finds, and the answer to it.                     *)
(***************************************************************************)
IsMap(m) ==
  /\ IsFiniteSet(DOMAIN m) /\ Cardinality(DOMAIN m) \in Nat
  /\ \A n \in DOMAIN m : m[n] \in Registered /\ SvcName(m[n]) = n

LEMMA MapFacts ==
  ASSUME NEW m \in Maps
  PROVE  IsMap(m)
<1>1. PICK E \in SUBSET Registered :
        m = [n \in {SvcName(e) : e \in E} |-> CHOOSE e \in E : SvcName(e) = n]
  BY DEF Maps
<1>2. ASSUME NEW n \in DOMAIN m PROVE m[n] \in Registered /\ SvcName(m[n]) = n
  <2>1. PICK e \in E : SvcName(e) = n
    BY <1>1
  <2>2. m[n] = CHOOSE f \in E : SvcName(f) = n
    BY <1>1
  <2>3. m[n] \in E /\ SvcName(m[n]) = n
    BY <2>1, <2>2
  <2> QED BY <2>3
<1>3. m = [n \in DOMAIN m |-> m[n]]
  BY <1>1
<1>4. m \in Injection(DOMAIN m, Registered)
  BY <1>2, <1>3 DEF Injection, IsInjective
<1>5. IsFiniteSet(DOMAIN m)
  BY <1>4, RegisteredAssumption, FS_Injection
<1> QED BY <1>2, <1>5, FS_CardinalityType DEF IsMap

\* The order of a range over the map has each of its names.
LEMMA OrderFacts ==
  ASSUME NEW m, IsMap(m), NEW order \in SetToSeqs(DOMAIN m)
  PROVE  IsBuffer(order) /\ {order[i] : i \in DOMAIN order} = DOMAIN m
<1> DEFINE D == 1..Cardinality(DOMAIN m)
<1>1. order \in [D -> DOMAIN m] /\ \A i, j \in D : i # j => order[i] # order[j]
  BY DEF SetToSeqs
<1>2. order \in Injection(D, DOMAIN m)
  BY <1>1 DEF Injection, IsInjective
<1>3. Cardinality(D) = Cardinality(DOMAIN m)
  <2>1. Cardinality(DOMAIN m) \in Nat
    BY DEF IsMap
  <2> HIDE DEF IsMap
  <2>2. CASE Cardinality(DOMAIN m) = 0
    <3>1. 1 > Cardinality(DOMAIN m)
      BY <2>2
    <3> QED BY <2>1, <2>2, <3>1, FS_Interval
  <2>3. CASE Cardinality(DOMAIN m) # 0
    BY <2>1, <2>3, FS_Interval
  <2> QED BY <2>2, <2>3
<1>4. order \in Surjection(D, DOMAIN m)
  BY <1>2, <1>3, FS_Injection DEF IsMap
<1>5. {order[i] : i \in DOMAIN order} = DOMAIN m
  BY <1>1, <1>4, SMTT(40) DEF Surjection
<1>6. order \in Seq(DOMAIN m)
  BY <1>1 DEF IsMap
<1> QED BY <1>5, <1>6 DEF IsBuffer

\* The objects of an answer with status 200: the entry that was asked for, or all
\* of the map in the order of a range over it.
IsSDS(m, a) ==
  a.T = "SDSResult" /\ \E n \in DOMAIN m :
    a.value = [env |-> << >>, service |-> n, hosts |-> <<EnvoyServiceFromEntry(m[n])>>]

IsCDS(m, a) ==
  a.T = "CDSResult" /\ \E order \in SetToSeqs(DOMAIN m) :
    a.value = [clusters |-> [i \in DOMAIN order |-> EnvoyClusterFromEntry(m[order[i]])]]

IsLDS(m, a) ==
  a.T = "LDSResult" /\ \E order \in SetToSeqs(DOMAIN m) :
    a.value = [listeners |-> [i \in DOMAIN order |-> EnvoyListenerFromEntry(m[order[i]])]]

LEMMA AnswerFacts ==
  ASSUME NEW m, IsMap(m), NEW a \in Answers(m), a.status = 200
  PROVE  /\ (a.value # Nil => a.body = MarshalJSON(a.T, a.value))
         /\ IsSDS(m, a) \/ IsCDS(m, a) \/ IsLDS(m, a)
<1>1. ASSUME NEW e \in Registered, a = HttpMux(m, "registration", SvcName(e), << >>)
      PROVE  (a.value # Nil => a.body = MarshalJSON(a.T, a.value)) /\ IsSDS(m, a)
  <2>1. a = Error(404) \/ a = registrationHandler(m, SvcName(e))
    BY <1>1 DEF HttpMux
  <2>2. Error(404).status = 404
    BY DEF Error, Answer
  <2>3. a = registrationHandler(m, SvcName(e)) /\ Lookup(m, SvcName(e)) # Nil
    BY <2>1, <2>2 DEF registrationHandler
  <2>4. SvcName(e) \in DOMAIN m /\ Lookup(m, SvcName(e)) = m[SvcName(e)]
    BY <2>3 DEF Lookup
  <2> DEFINE value == [env |-> << >>, service |-> SvcName(e),
                       hosts |-> <<EnvoyServiceFromEntry(m[SvcName(e)])>>]
  <2>5. a = Answer(200, "SDSResult", value)
    BY <2>3, <2>4 DEF registrationHandler
  <2> HIDE DEF value
  <2>6. a.T = "SDSResult" /\ a.value = value /\ (a.value # Nil => a.body = MarshalJSON(a.T, a.value))
    BY <2>5 DEF Answer
  <2> QED BY <2>4, <2>6 DEF IsSDS, value
<1>2. ASSUME NEW order \in SetToSeqs(DOMAIN m), a = HttpMux(m, "clusters", << >>, order)
      PROVE  (a.value # Nil => a.body = MarshalJSON(a.T, a.value)) /\ IsCDS(m, a)
  <2> DEFINE value == [clusters |-> [i \in DOMAIN order |-> EnvoyClusterFromEntry(m[order[i]])]]
  <2>1. a = Answer(200, "CDSResult", value)
    BY <1>2 DEF HttpMux, clustersHandler
  <2> HIDE DEF value
  <2>2. a.T = "CDSResult" /\ a.value = value /\ (a.value # Nil => a.body = MarshalJSON(a.T, a.value))
    BY <2>1 DEF Answer
  <2> QED BY <2>2 DEF IsCDS, value
<1>3. ASSUME NEW order \in SetToSeqs(DOMAIN m), a = HttpMux(m, "listeners", << >>, order)
      PROVE  (a.value # Nil => a.body = MarshalJSON(a.T, a.value)) /\ IsLDS(m, a)
  <2> DEFINE value == [listeners |-> [i \in DOMAIN order |-> EnvoyListenerFromEntry(m[order[i]])]]
  <2>1. a = Answer(200, "LDSResult", value)
    BY <1>3 DEF HttpMux, listenersHandler
  <2> HIDE DEF value
  <2>2. a.T = "LDSResult" /\ a.value = value /\ (a.value # Nil => a.body = MarshalJSON(a.T, a.value))
    BY <2>1 DEF Answer
  <2> QED BY <2>2 DEF IsLDS, value
<1> QED BY <1>1, <1>2, <1>3 DEF Answers

-----------------------------------------------------------------------------
(***************************************************************************)
(* The tables of the decoder: what the kinds of the fields are, that       *)
(* a field of structs names one of them, and that two pointers in a row    *)
(* lead to a struct that has none.                                         *)
(***************************************************************************)
Kinds == {"string", "int", "strings", "map", "ptr", "ptrs"}

Pointed == {"EnvoyFilterConfig", "EnvoyRouteConfig", "EnvoyTracingConfig",
            "EnvoyRouteDecorator"}

IsEntry(field) ==
  /\ field.kind \in Kinds
  /\ field.kind \in {"ptr", "ptrs"} => field.of \in Structs
  /\ field.kind = "ptr" => field.of \in Pointed

LEMMA StructsAre ==
  Structs = {"CDSResult", "LDSResult", "SDSResult", "EnvoyService", "EnvoyCluster",
             "EnvoyListener", "EnvoyFilter", "EnvoyFilterConfig", "EnvoyRouteConfig",
             "EnvoyRoute", "EnvoyHTTPVirtualHost", "EnvoyRouteDecorator",
             "EnvoyTracingConfig", "EnvoyTCPRoute"}
BY SMTT(40) DEF Structs, Fields

LEMMA EntriesAre ==
  ASSUME NEW T \in Structs, NEW k \in Keys(T)
  PROVE  IsEntry(Fields[T][k]) /\ k # "no_such_key"
<1> USE StructsAre DEF Keys, IsEntry, Kinds, Pointed, String, Number, Strings, Map, Ptr, Ptrs
<1>1. CASE T = "CDSResult"
  BY <1>1 DEF Fields, CDSResultFields
<1>2. CASE T = "LDSResult"
  BY <1>2 DEF Fields, LDSResultFields
<1>3. CASE T = "SDSResult"
  BY <1>3 DEF Fields, SDSResultFields
<1>4. CASE T = "EnvoyService"
  BY <1>4 DEF Fields, EnvoyServiceFields
<1>5. CASE T = "EnvoyCluster"
  BY <1>5 DEF Fields, EnvoyClusterFields
<1>6. CASE T = "EnvoyListener"
  BY <1>6 DEF Fields, EnvoyListenerFields
<1>7. CASE T = "EnvoyFilter"
  BY <1>7 DEF Fields, EnvoyFilterFields
<1>8. CASE T = "EnvoyFilterConfig"
  BY <1>8 DEF Fields, EnvoyFilterConfigFields
<1>9. CASE T = "EnvoyRouteConfig"
  BY <1>9 DEF Fields, EnvoyRouteConfigFields
<1>10. CASE T = "EnvoyRoute"
  BY <1>10 DEF Fields, EnvoyRouteFields
<1>11. CASE T = "EnvoyHTTPVirtualHost"
  BY <1>11 DEF Fields, EnvoyHTTPVirtualHostFields
<1>12. CASE T = "EnvoyRouteDecorator"
  BY <1>12 DEF Fields, EnvoyRouteDecoratorFields
<1>13. CASE T = "EnvoyTracingConfig"
  BY <1>13 DEF Fields, EnvoyTracingConfigFields
<1>14. CASE T = "EnvoyTCPRoute"
  BY <1>14 DEF Fields, EnvoyTCPRouteFields
<1> QED BY <1>1, <1>2, <1>3, <1>4, <1>5, <1>6, <1>7, <1>8, <1>9, <1>10, <1>11, <1>12, <1>13, <1>14

-----------------------------------------------------------------------------
(***************************************************************************)
(* The way of a body through the decoder. A text moves the calls under way *)
(* from one stack to another, a token at a time: FlattenSeq, from which    *)
(* the encoders make their texts, takes the texts one after the other, and *)
(* so does the decoder.                                                    *)
(***************************************************************************)

\* FlattenSeq takes the sequences one after the other.
LEMMA FlattenPrefix ==
  ASSUME NEW ss, IsBuffer(ss), \A i \in DOMAIN ss : IsBuffer(ss[i])
  PROVE  /\ Len(ss) \in Nat /\ DOMAIN ss = 1..Len(ss)
         /\ FlattenSeq(SubSeq(ss, 1, 0)) = << >>
         /\ FlattenSeq(SubSeq(ss, 1, Len(ss))) = FlattenSeq(ss)
         /\ \A m \in Nat : m < Len(ss) =>
              FlattenSeq(SubSeq(ss, 1, m + 1)) = FlattenSeq(SubSeq(ss, 1, m)) \o ss[m + 1]
<1> DEFINE S == UNION {{ss[i][j] : j \in DOMAIN ss[i]} : i \in DOMAIN ss}
<1>1. ASSUME NEW i \in DOMAIN ss PROVE ss[i] \in Seq(S)
  <2>1. PICK T : ss[i] \in Seq(T)
    BY DEF IsBuffer
  <2>2. \A j \in DOMAIN ss[i] : ss[i][j] \in S
    OBVIOUS
  <2> HIDE DEF S
  <2> QED BY <2>1, <2>2
<1>2. PICK T : ss \in Seq(T)
  BY DEF IsBuffer
<1> HIDE DEF S
<1>3. ss \in Seq(Seq(S))
  BY <1>1, <1>2
<1>4. SubSeq(ss, 1, 0) = << >> /\ SubSeq(ss, 1, Len(ss)) = ss
  BY <1>3
<1>5. FlattenSeq(<< >>) = << >>
  BY DEF FlattenSeq
<1>6. ASSUME NEW m \in Nat, m < Len(ss)
      PROVE  FlattenSeq(SubSeq(ss, 1, m + 1)) = FlattenSeq(SubSeq(ss, 1, m)) \o ss[m + 1]
  <2>1. /\ SubSeq(ss, 1, m) \in Seq(Seq(S)) /\ ss[m + 1] \in Seq(S)
        /\ SubSeq(ss, 1, m + 1) = Append(SubSeq(ss, 1, m), ss[m + 1])
    BY <1>3, <1>6
  <2> QED BY <2>1, FlattenFacts
<1>7. Len(ss) \in Nat /\ DOMAIN ss = 1..Len(ss)
  BY <1>3
<1>8. FlattenSeq(SubSeq(ss, 1, 0)) = << >> /\ FlattenSeq(SubSeq(ss, 1, Len(ss))) = FlattenSeq(ss)
  BY <1>4, <1>5
<1> QED BY <1>6, <1>7, <1>8

\* TRUE and FALSE as constants.
Yes == TRUE
No  == FALSE

\* A call under way, and what becomes of it at a token: its state, its key, its
\* field or its slice changed.
At(T, o, state, key, wv) ==
  [T |-> T, obj |-> o, state |-> state, key |-> key, wantVal |-> wv, k |-> << >>, depth |-> 0]
Gone(f, state)  == [f EXCEPT !.state = state]
Keyed(f, k)     == [f EXCEPT !.key = k, !.state = "want_colon"]
Assigned(f, v)  == [f EXCEPT !.obj[f.key] = v, !.state = "after_value"]
Opened(f, s)    == [f EXCEPT !.obj[f.key] = << >>, !.state = s, !.wantVal = Yes]
Extended(f, v)  == [f EXCEPT !.obj[f.key] = Append(@, v), !.wantVal = No]

\* The token is a key of the struct, as it is spelled.
Knows(f, x, g) ==
  /\ f.T \in Structs
  /\ \E k \in Keys(f.T) : x = [t |-> "string", v |-> <<k>>] /\ g = Keyed(f, k)

\* At token x the innermost call f, in the handler of a field of that kind, goes on
\* as g; it calls as h; the call h ends and f goes on as g.
TurnsIn(f, kind, x, g) ==
  \/ f.state = "want_key" /\ x.t = "string" /\ Knows(f, x, g)
  \/ f.state = "want_colon" /\ x.t = ":" /\ g = Gone(f, "want_value")
  \/ f.state = "want_value" /\ kind = "string" /\ x.t = "string" /\ g = Assigned(f, x.v)
  \/ f.state = "want_value" /\ kind = "int" /\ x.t = "integer" /\ g = Assigned(f, x.v[1])
  \/ f.state = "want_value" /\ kind \in {"ptr", "ptrs", "strings", "map"} /\ x.t = "null"
     /\ g = Assigned(f, Nil)
  \/ f.state = "want_value" /\ kind \in {"ptrs", "strings"} /\ x.t = "["
     /\ g = Opened(f, "elements")
  \/ f.state = "want_value" /\ kind = "map" /\ x.t = "{" /\ g = Opened(f, "pairs")
  \/ f.state = "elements" /\ kind \in {"ptrs", "strings"} /\ x.t = "," /\ f.wantVal = No /\ g = f
  \/ f.state = "elements" /\ kind = "strings" /\ x.t = "string" /\ g = Extended(f, x.v)
  \/ f.state = "elements" /\ kind \in {"ptrs", "strings"} /\ x.t = "]" /\ g = Gone(f, "after_value")
  \/ f.state = "pairs" /\ x.t = "}" /\ g = Gone(f, "after_value")
  \/ f.state = "after_value" /\ x.t = "," /\ g = Gone(f, "want_key")
  \/ f.state = "map_start" /\ x.t = "{" /\ g = Gone(f, "want_key")

Turns(f, x, g) == TurnsIn(f, KindOf(f), x, g)
Waits(f) == <<f.state, KindOf(f)>> \in {<<"elements", "ptrs">>, <<"want_value", "ptr">>}

Enters(f, x, h) ==
  /\ Waits(f) /\ x.t = "{"
  /\ f.state = "want_value" => f.obj[f.key] = Nil
  /\ h = Frame(Fields[f.T][f.key].of, Zero(Fields[f.T][f.key].of), "want_key")

Returns(f, h, x, g) ==
  /\ h.state \in {"want_key", "after_value"} /\ x.t = "}"
  /\ g = IF f.state = "elements" THEN Extended(f, h.obj) ELSE Assigned(f, h.obj)

\* The stack s becomes t at token x; and from a to b along the text w.
Moves(s, x, t) ==
  \/ x.t = " " /\ t = s
  \/ \E base, f, g : IsBuffer(base) /\ s = Append(base, f) /\ t = Append(base, g) /\ Turns(f, x, g)
  \/ \E base, f, h : IsBuffer(base) /\ s = Append(base, f) /\ t = Append(s, h) /\ Enters(f, x, h)
  \/ \E base, f, g, h : /\ IsBuffer(base) /\ s = Append(Append(base, f), h) /\ t = Append(base, g)
                        /\ Returns(f, h, x, g)

Runs(w, a, b) ==
  IsBuffer(w) /\ \E s : /\ s[0] = a /\ s[Len(w)] = b
                        /\ \A i \in 1..Len(w) : Moves(s[i - 1], w[i], s[i])

\* No token, no step.
LEMMA RunsNone == ASSUME NEW a PROVE Runs(<< >>, a, a)
<1> DEFINE s == [i \in {0} |-> a]
<1>1. s[0] = a /\ s[Len(<< >>)] = a /\ \A i \in 1..Len(<< >>) : FALSE
  OBVIOUS
<1> HIDE DEF s
<1> QED BY <1>1, TokensAreBuffers DEF Runs

\* One token, one step.
LEMMA RunsOne == ASSUME NEW a, NEW b, NEW x, Moves(a, x, b) PROVE Runs(<<x>>, a, b)
<1> DEFINE s == [i \in {0, 1} |-> IF i = 0 THEN a ELSE b]
<1>1. s[0] = a /\ s[1] = b /\ Len(<<x>>) = 1 /\ <<x>>[1] = x
  OBVIOUS
<1> HIDE DEF s
<1>2. ASSUME NEW i \in 1..Len(<<x>>) PROVE Moves(s[i - 1], <<x>>[i], s[i])
  <2>1. i = 1 /\ i - 1 = 0
    BY <1>1
  <2> QED BY <1>1, <2>1
<1> QED BY <1>1, <1>2, TokensAreBuffers DEF Runs

\* Along y the stacks are u; at its token i they are as s is at some token of w.
As(y, u, i, w, s) == \E j \in 1..Len(w) : y[i] = w[j] /\ u[i - 1] = s[j - 1] /\ u[i] = s[j]

\* Two texts, and the stacks along them, one after the other.
LEMMA Joined ==
  ASSUME NEW v, IsBuffer(v), NEW w, IsBuffer(w), NEW s, NEW t, s[Len(v)] = t[0]
  PROVE  \E u : /\ IsBuffer(v \o w) /\ u[0] = s[0] /\ u[Len(v \o w)] = t[Len(w)]
                /\ \A i \in 1..Len(v \o w) : As(v \o w, u, i, v, s) \/ As(v \o w, u, i, w, t)
<1>3. IsBuffer(v \o w)
  BY ConcatIsBuffer
<1> DEFINE m == Len(v)
           n == Len(w)
           u == [i \in 0..(m + n) |-> IF i <= m THEN s[i] ELSE t[i - m]]
<1>4. /\ m \in Nat /\ n \in Nat /\ Len(v \o w) = m + n
      /\ \A i \in 1..m : (v \o w)[i] = v[i]
      /\ \A i \in (m + 1)..(m + n) : (v \o w)[i] = w[i - m]
  <2>1. PICK S : v \in Seq(S)
    BY DEF IsBuffer
  <2>2. PICK T : w \in Seq(T)
    BY DEF IsBuffer
  <2> QED BY <2>1, <2>2
<1>0. s[m] = t[0]
  OBVIOUS
<1> HIDE DEF m, n
<1>5. u[0] = s[0] /\ u[m + n] = t[n]
  <2>1. n = 0 => u[m + n] = s[m]
    BY <1>4
  <2>2. n # 0 => u[m + n] = t[n]
    BY <1>4
  <2>3. u[0] = s[0]
    BY <1>4
  <2> QED BY <1>0, <2>1, <2>2, <2>3
<1>6. ASSUME NEW i \in 1..(m + n)
      PROVE  As(v \o w, u, i, v, s) \/ As(v \o w, u, i, w, t)
  <2>1. CASE i <= m
    <3>1. u[i - 1] = s[i - 1] /\ u[i] = s[i] /\ (v \o w)[i] = v[i] /\ i \in 1..m
      BY <1>4, <2>1
    <3> QED BY <3>1 DEF As, m
  <2>2. CASE i > m
    <3> DEFINE j == i - m
    <3>0. j \in 1..n /\ i \in (m + 1)..(m + n) /\ i \in 0..(m + n) /\ i - 1 \in 0..(m + n)
          /\ (i - 1) - m = j - 1
      BY <1>4, <2>2
    <3>1. u[i] = t[j] /\ (v \o w)[i] = w[j]
      BY <1>4, <2>2, <3>0
    <3>2. CASE i - 1 = m
      <4>1. u[i - 1] = s[m] /\ j - 1 = 0
        BY <1>4, <3>0, <3>2, SMTT(40)
      <4> QED BY <1>0, <3>0, <3>1, <4>1 DEF As, n
    <3>3. CASE i - 1 # m
      <4>1. ~(i - 1 <= m)
        BY <1>4, <2>2, <3>3
      <4>2. u[i - 1] = t[j - 1]
        BY <3>0, <4>1
      <4> HIDE DEF u, j
      <4> QED BY <3>0, <3>1, <4>2 DEF As, n
    <3> QED BY <3>2, <3>3
  <2> QED BY <1>4, <2>1, <2>2
<1> HIDE DEF u
<1> QED BY <1>3, <1>4, <1>5, <1>6 DEF m, n

\* One text after the other.
LEMMA RunsOn ==
  ASSUME NEW a, NEW b, NEW c, NEW v, NEW w, Runs(v, a, b), Runs(w, b, c)
  PROVE  Runs(v \o w, a, c)
<1>1. PICK s : /\ s[0] = a /\ s[Len(v)] = b
               /\ \A i \in 1..Len(v) : Moves(s[i - 1], v[i], s[i])
  BY DEF Runs
<1>2. PICK t : /\ t[0] = b /\ t[Len(w)] = c
               /\ \A i \in 1..Len(w) : Moves(t[i - 1], w[i], t[i])
  BY DEF Runs
<1> DEFINE y == v \o w
<1>0. IsBuffer(v) /\ IsBuffer(w) /\ s[Len(v)] = t[0]
  BY <1>1, <1>2 DEF Runs
<1>3. PICK u : /\ IsBuffer(y) /\ u[0] = s[0] /\ u[Len(y)] = t[Len(w)]
               /\ \A i \in 1..Len(y) : As(y, u, i, v, s) \/ As(y, u, i, w, t)
  BY <1>0, Joined
<1> HIDE DEF y
<1>4. ASSUME NEW i \in 1..Len(y) PROVE Moves(u[i - 1], y[i], u[i])
  <2>1. CASE As(y, u, i, v, s)
    BY <1>1, <2>1 DEF As
  <2>2. CASE As(y, u, i, w, t)
    BY <1>2, <2>2 DEF As
  <2> QED BY <1>3, <2>1, <2>2
<1>5. Runs(y, a, c)
  BY <1>1, <1>2, <1>3, <1>4 DEF Runs
<1> QED BY <1>5 DEF y

-----------------------------------------------------------------------------
(***************************************************************************)
(* What the decoder does besides with the text of another version: a key   *)
(* in another case or one that it does not know, whose value it skips, and *)
(* the members of a map.                                                   *)
(***************************************************************************)

Depth(d, c)   == IF c \in {"{", "["} THEN d + 1 ELSE IF c \in {"}", "]"} THEN d - 1 ELSE d
Skipped(f, d) == [f EXCEPT !.depth = d, !.state = IF d = 0 THEN "after_value" ELSE "skip"]
Named(f, v)   == [f EXCEPT !.k = v, !.state = "pair_colon", !.wantVal = Yes]
Paired(f, v)  ==
  [f EXCEPT !.obj[f.key] = Put(f.obj[f.key], f.k, v), !.state = "pairs", !.wantVal = No]

\* The call f goes on as g at token x.
AlsoIn(f, kind, x, g) ==
  \/ f.state = "want_key" /\ x.t = "string" /\ g = Keyed(f, KeyOf(f.T, x.v))
  \/ f.state = "want_value" /\ kind = "skipped" /\ x.t \in {"{", "["} /\ g = Skipped(f, 1)
  \/ f.state = "skip" /\ x.t \in Tokens \ {"eof"} /\ g = Skipped(f, Depth(f.depth, x.t))
  \/ f.state = "pairs" /\ x.t = "," /\ f.wantVal = No /\ g = f
  \/ f.state = "pairs" /\ x.t = "string" /\ g = Named(f, x.v)
  \/ f.state = "pair_colon" /\ x.t = ":" /\ g = Gone(f, "pair_value")
  \/ f.state = "pair_value" /\ x.t = "string" /\ g = Paired(f, x.v)

Also(f, x, g) == AlsoIn(f, KindOf(f), x, g)

\* The stack s becomes t at token x; and from a to b along the text w.
Steps(s, x, t) ==
  \/ Moves(s, x, t)
  \/ \E base, f, g : IsBuffer(base) /\ s = Append(base, f) /\ t = Append(base, g) /\ Also(f, x, g)

Goes(w, a, b) ==
  IsBuffer(w) /\ \E s : /\ s[0] = a /\ s[Len(w)] = b
                        /\ \A i \in 1..Len(w) : Steps(s[i - 1], w[i], s[i])

\* What Moves does, Steps does.
LEMMA RunsGoes == ASSUME NEW w, NEW a, NEW b, Runs(w, a, b) PROVE Goes(w, a, b)
BY DEF Runs, Goes, Steps

\* One token, one step.
LEMMA GoesOne == ASSUME NEW a, NEW b, NEW x, Steps(a, x, b) PROVE Goes(<<x>>, a, b)
<1> DEFINE s == [i \in {0, 1} |-> IF i = 0 THEN a ELSE b]
<1>1. s[0] = a /\ s[1] = b /\ Len(<<x>>) = 1 /\ <<x>>[1] = x
  OBVIOUS
<1> HIDE DEF s
<1>2. ASSUME NEW i \in 1..Len(<<x>>) PROVE Steps(s[i - 1], <<x>>[i], s[i])
  <2>1. i = 1 /\ i - 1 = 0
    BY <1>1
  <2> QED BY <1>1, <2>1
<1> QED BY <1>1, <1>2, TokensAreBuffers DEF Goes

\* One text after the other.
LEMMA GoesOn ==
  ASSUME NEW a, NEW b, NEW c, NEW v, NEW w, Goes(v, a, b), Goes(w, b, c)
  PROVE  Goes(v \o w, a, c)
<1>1. PICK s : /\ s[0] = a /\ s[Len(v)] = b
               /\ \A i \in 1..Len(v) : Steps(s[i - 1], v[i], s[i])
  BY DEF Goes
<1>2. PICK t : /\ t[0] = b /\ t[Len(w)] = c
               /\ \A i \in 1..Len(w) : Steps(t[i - 1], w[i], t[i])
  BY DEF Goes
<1> DEFINE y == v \o w
<1>0. IsBuffer(v) /\ IsBuffer(w) /\ s[Len(v)] = t[0]
  BY <1>1, <1>2 DEF Goes
<1>3. PICK u : /\ IsBuffer(y) /\ u[0] = s[0] /\ u[Len(y)] = t[Len(w)]
               /\ \A i \in 1..Len(y) : As(y, u, i, v, s) \/ As(y, u, i, w, t)
  BY <1>0, Joined
<1> HIDE DEF y
<1>4. ASSUME NEW i \in 1..Len(y) PROVE Steps(u[i - 1], y[i], u[i])
  <2>1. CASE As(y, u, i, v, s)
    BY <1>1, <2>1 DEF As
  <2>2. CASE As(y, u, i, w, t)
    BY <1>2, <2>2 DEF As
  <2> QED BY <1>3, <2>1, <2>2
<1>5. Goes(y, a, c)
  BY <1>1, <1>2, <1>3, <1>4 DEF Goes
<1> QED BY <1>5 DEF y

\* A token of the innermost call.
LEMMA AlsoGoes ==
  ASSUME NEW base, IsBuffer(base), NEW f, NEW g, NEW x, Also(f, x, g)
  PROVE  Goes(<<x>>, Append(base, f), Append(base, g))
BY GoesOne DEF Steps

-----------------------------------------------------------------------------
(***************************************************************************)
(* One field: its key, its colon and a value, read into an object that has *)
(* been filled from mj so far.                                             *)
(***************************************************************************)

\* A sequence stays one with an element more.
LEMMA AppendIsBuffer ==
  ASSUME NEW s, IsBuffer(s), NEW x
  PROVE  IsBuffer(Append(s, x))
<1>1. PICK S : s \in Seq(S)
  BY DEF IsBuffer
<1>2. Append(s, x) \in Seq(S \cup {x})
  BY <1>1
<1> QED BY <1>2 DEF IsBuffer

\* A token that the innermost call reads; one that makes a call; one that ends it.
LEMMA TurnRuns ==
  ASSUME NEW base, IsBuffer(base), NEW f, NEW g, NEW x, Turns(f, x, g)
  PROVE  Runs(<<x>>, Append(base, f), Append(base, g))
BY RunsOne DEF Moves

LEMMA EnterRuns ==
  ASSUME NEW base, IsBuffer(base), NEW f, NEW h, NEW x, Enters(f, x, h)
  PROVE  Runs(<<x>>, Append(base, f), Append(Append(base, f), h))
BY RunsOne DEF Moves

LEMMA ReturnRuns ==
  ASSUME NEW base, IsBuffer(base), NEW f, NEW h, NEW g, NEW x, Returns(f, h, x, g)
  PROVE  Runs(<<x>>, Append(Append(base, f), h), Append(base, g))
BY RunsOne DEF Moves

LEMMA BlankRuns == ASSUME NEW a PROVE Runs(Tok(" "), a, a)
<1>1. Moves(a, [t |-> " ", v |-> << >>], a)
  BY DEF Moves
<1> QED BY <1>1, RunsOne DEF Tok

\* The object that a call has filled from mj when the fields K are read.
Part(T, mj, K) == [k \in Keys(T) |-> IF k \in K THEN mj[k] ELSE ZeroOf(Fields[T][k])]
Filled(o, k, v) == [o EXCEPT ![k] = v]

\* What happens to the object when a field more is read; and before any is.
LEMMA PartGrows ==
  ASSUME NEW T, NEW mj, NEW K, NEW k \in Keys(T)
  PROVE  Filled(Part(T, mj, K), k, mj[k]) = Part(T, mj, K \cup {k})
BY DEF Part, Filled

LEMMA PartFacts ==
  ASSUME NEW T, NEW mj, NEW K, NEW k \in Keys(T)
  PROVE  /\ k \notin K => Part(T, mj, K)[k] = ZeroOf(Fields[T][k])
         /\ Part(T, mj, {}) = Zero(T)
BY DEF Part, Zero

LEMMA FilledTwice ==
  ASSUME NEW T, NEW mj, NEW K, NEW k \in Keys(T), NEW v, NEW w
  PROVE  Filled(Filled(Part(T, mj, K), k, v), k, w) = Filled(Part(T, mj, K), k, w)
BY DEF Part, Filled

LEMMA FilledHas ==
  ASSUME NEW T, NEW mj, NEW K, NEW k \in Keys(T), NEW v
  PROVE  Filled(Part(T, mj, K), k, v)[k] = v
BY DEF Part, Filled

\* buf is what the encoder writes for the value of field k, and what a field is.
Takes(buf, T, mj, k) ==
  \A base, K, wv : IsBuffer(base) /\ k \notin K =>
    \E wv2 : Runs(buf, Append(base, At(T, Part(T, mj, K), "want_value", k, wv)),
                       Append(base, At(T, Part(T, mj, K \cup {k}), "after_value", k, wv2)))

Writes(buf, T, mj, k) ==
  \A base, K, key, wv : IsBuffer(base) /\ k \notin K =>
    \E wv2 : Runs(buf, Append(base, At(T, Part(T, mj, K), "want_key", key, wv)),
                       Append(base, At(T, Part(T, mj, K \cup {k}), "after_value", k, wv2)))

\* What the encoder of a struct writes.
Encodes(w, T, mj) ==
  \E m : /\ w = (Tok("{") \o m) \o Tok("}") /\ IsBuffer(m)
         /\ \A base : IsBuffer(base) =>
              \E h : /\ Runs(m, Append(base, Frame(T, Zero(T), "want_key")), Append(base, h))
                     /\ h.state \in {"want_key", "after_value"} /\ h.obj = mj

\* A call, and what becomes of it at a token.
LEMMA AtFacts ==
  ASSUME NEW T, NEW o, NEW state, NEW key, NEW wv
  PROVE  /\ At(T, o, state, key, wv).T = T /\ At(T, o, state, key, wv).obj = o
         /\ At(T, o, state, key, wv).state = state /\ At(T, o, state, key, wv).key = key
         /\ At(T, o, state, key, wv).wantVal = wv
BY DEF At

\* wantVal by itself.
LEMMA AtWants ==
  ASSUME NEW T, NEW o, NEW state, NEW key, NEW wv, NEW b
  PROVE  [At(T, o, state, key, wv) EXCEPT !.wantVal = b] = At(T, o, state, key, b)
BY DEF At

\* A call after each kind of token.
LEMMA AtChanges ==
  ASSUME NEW T, NEW o, NEW state, NEW key, NEW wv
  PROVE  /\ \A s : Gone(At(T, o, state, key, wv), s) = At(T, o, s, key, wv)
         /\ \A k : Keyed(At(T, o, state, key, wv), k) = At(T, o, "want_colon", k, wv)
         /\ \A v : Assigned(At(T, o, state, key, wv), v)
                     = At(T, Filled(o, key, v), "after_value", key, wv)
         /\ \A s : Opened(At(T, o, state, key, wv), s) = At(T, Filled(o, key, << >>), s, key, Yes)
         /\ \A v : Extended(At(T, o, state, key, wv), v)
                     = At(T, Filled(o, key, Append(o[key], v)), state, key, No)
<1> DEFINE f == At(T, o, state, key, wv)
<1>1. f.obj = o /\ f.key = key
  BY DEF At
<1>2. \A s : Gone(f, s) = At(T, o, s, key, wv)
  BY DEF At, Gone
<1>3. ASSUME NEW k PROVE Keyed(f, k) = At(T, o, "want_colon", k, wv)
  <2>1. Keyed(f, k) = Gone([f EXCEPT !.key = k], "want_colon")
    BY DEF Keyed, Gone
  <2>2. [f EXCEPT !.key = k] = At(T, o, state, k, wv)
    BY DEF At
  <2>3. Gone(At(T, o, state, k, wv), "want_colon") = At(T, o, "want_colon", k, wv)
    BY DEF At, Gone
  <2> QED BY <2>1, <2>2, <2>3
<1>4. ASSUME NEW v PROVE [f EXCEPT !.obj[f.key] = v] = At(T, Filled(o, key, v), state, key, wv)
  BY <1>1 DEF At, Filled
<1>5. ASSUME NEW v
      PROVE  Assigned(f, v) = At(T, Filled(o, key, v), "after_value", key, wv)
  <2>1. Assigned(f, v) = Gone([f EXCEPT !.obj[f.key] = v], "after_value")
    BY DEF Assigned, Gone
  <2>2. Gone(At(T, Filled(o, key, v), state, key, wv), "after_value")
          = At(T, Filled(o, key, v), "after_value", key, wv)
    BY DEF At, Gone
  <2> QED BY <1>4, <2>1, <2>2
<1>6. ASSUME NEW s
      PROVE  Opened(f, s) = At(T, Filled(o, key, << >>), s, key, Yes)
  <2>1. Opened(f, s) = [Gone([f EXCEPT !.obj[f.key] = << >>], s) EXCEPT !.wantVal = Yes]
    BY DEF Opened, Gone
  <2>2. Gone(At(T, Filled(o, key, << >>), state, key, wv), s) = At(T, Filled(o, key, << >>), s, key, wv)
    BY DEF At, Gone
  <2>3. [At(T, Filled(o, key, << >>), s, key, wv) EXCEPT !.wantVal = Yes]
          = At(T, Filled(o, key, << >>), s, key, Yes)
    BY AtWants
  <2> QED BY <1>4, <2>1, <2>2, <2>3
<1>7. ASSUME NEW v
      PROVE  Extended(f, v) = At(T, Filled(o, key, Append(o[key], v)), state, key, No)
  <2>1. Extended(f, v) = [[f EXCEPT !.obj[f.key] = Append(o[key], v)] EXCEPT !.wantVal = No]
    BY <1>1 DEF Extended
  <2>2. [At(T, Filled(o, key, Append(o[key], v)), state, key, wv) EXCEPT !.wantVal = No]
          = At(T, Filled(o, key, Append(o[key], v)), state, key, No)
    BY AtWants
  <2> QED BY <1>4, <2>1, <2>2
<1> QED BY <1>2, <1>3, <1>5, <1>6, <1>7

\* The kind of the field that a call is at.
LEMMA AtKind ==
  ASSUME NEW T \in Structs, NEW k \in Keys(T), NEW o, NEW state, NEW wv
  PROVE  KindOf(At(T, o, state, k, wv)) = Fields[T][k].kind
BY EntriesAre, AtFacts DEF KindOf

\* The key and its colon.
LEMMA KeyRuns ==
  ASSUME NEW T \in Structs, NEW k \in Keys(T), NEW base, IsBuffer(base), NEW o, NEW key, NEW wv
  PROVE  Runs(WriteString(<<k>>) \o Tok(":"), Append(base, At(T, o, "want_key", key, wv)),
                                              Append(base, At(T, o, "want_value", k, wv)))
<1> DEFINE f == At(T, o, "want_key", key, wv)
           g == At(T, o, "want_colon", k, wv)
           h == At(T, o, "want_value", k, wv)
<1>1. f.state = "want_key" /\ f.T = T /\ g.state = "want_colon" /\ g = Keyed(f, k)
      /\ h = Gone(g, "want_value")
  BY AtFacts, AtChanges
<1> HIDE DEF f, g, h
<1>2. Knows(f, [t |-> "string", v |-> <<k>>], g)
  BY <1>1 DEF Knows
<1>3. Turns(f, [t |-> "string", v |-> <<k>>], g) /\ Turns(g, [t |-> ":", v |-> << >>], h)
  BY <1>1, <1>2 DEF Turns, TurnsIn
<1>4. Runs(WriteString(<<k>>), Append(base, f), Append(base, g))
  BY <1>3, TurnRuns DEF WriteString
<1>5. Runs(Tok(":"), Append(base, g), Append(base, h))
  BY <1>3, TurnRuns DEF Tok
<1> QED BY <1>4, <1>5, RunsOn DEF f, h

\* A field, its value given.
LEMMA FieldWrites ==
  ASSUME NEW T \in Structs, NEW k \in Keys(T), NEW mj, NEW buf, Takes(buf, T, mj, k)
  PROVE  Writes(Field(k, buf).buf, T, mj, k)
<1> SUFFICES ASSUME NEW base, NEW K, NEW key, NEW wv, IsBuffer(base), k \notin K
             PROVE  \E wv2 : Runs(Field(k, buf).buf,
                      Append(base, At(T, Part(T, mj, K), "want_key", key, wv)),
                      Append(base, At(T, Part(T, mj, K \cup {k}), "after_value", k, wv2)))
  BY DEF Writes
<1>1. PICK wv2 : Runs(buf, Append(base, At(T, Part(T, mj, K), "want_value", k, wv)),
                        Append(base, At(T, Part(T, mj, K \cup {k}), "after_value", k, wv2)))
  BY DEF Takes
<1>2. Runs(WriteString(<<k>>) \o Tok(":"),
           Append(base, At(T, Part(T, mj, K), "want_key", key, wv)),
           Append(base, At(T, Part(T, mj, K), "want_value", k, wv)))
  BY KeyRuns
<1>3. Field(k, buf).buf = (WriteString(<<k>>) \o Tok(":")) \o buf
  BY DEF Field
<1>4. Runs((WriteString(<<k>>) \o Tok(":")) \o buf,
           Append(base, At(T, Part(T, mj, K), "want_key", key, wv)),
           Append(base, At(T, Part(T, mj, K \cup {k}), "after_value", k, wv2)))
  BY <1>1, <1>2, RunsOn
<1> QED BY <1>3, <1>4

\* The value of a string, of a number, and null.
LEMMA ScalarTakes ==
  ASSUME NEW T \in Structs, NEW k \in Keys(T), NEW mj
  PROVE  /\ Fields[T][k].kind = "string" => Takes(WriteString(mj[k]), T, mj, k)
         /\ Fields[T][k].kind = "int" => Takes(FormatBits(mj[k]), T, mj, k)
         /\ Fields[T][k].kind \in {"ptr", "ptrs", "strings", "map"} /\ mj[k] = Nil =>
              Takes(Null, T, mj, k)
<1> SUFFICES ASSUME NEW base, NEW K, NEW wv, IsBuffer(base), k \notin K,
                    NEW x,
                    \/ x = [t |-> "string", v |-> mj[k]] /\ Fields[T][k].kind = "string"
                    \/ x = [t |-> "integer", v |-> <<mj[k]>>] /\ Fields[T][k].kind = "int"
                    \/ /\ x = [t |-> "null", v |-> << >>] /\ mj[k] = Nil
                       /\ Fields[T][k].kind \in {"ptr", "ptrs", "strings", "map"}
             PROVE  Runs(<<x>>, Append(base, At(T, Part(T, mj, K), "want_value", k, wv)),
                      Append(base, At(T, Part(T, mj, K \cup {k}), "after_value", k, wv)))
  BY DEF Takes, WriteString, FormatBits, Null, Tok
<1> DEFINE f == At(T, Part(T, mj, K), "want_value", k, wv)
           g == At(T, Part(T, mj, K \cup {k}), "after_value", k, wv)
           kind == Fields[T][k].kind
<1>1. f.state = "want_value" /\ KindOf(f) = kind
  BY AtFacts, AtKind
<1>2. g = Assigned(f, mj[k])
  <2>1. Filled(Part(T, mj, K), k, mj[k]) = Part(T, mj, K \cup {k})
    BY PartGrows
  <2>2. Assigned(f, mj[k]) = At(T, Filled(Part(T, mj, K), k, mj[k]), "after_value", k, wv)
    BY AtChanges
  <2> QED BY <2>1, <2>2
<1> HIDE DEF f, g, kind
<1>3. \/ x.t = "string" /\ x.v = mj[k] /\ kind = "string"
      \/ x.t = "integer" /\ x.v[1] = mj[k] /\ kind = "int"
      \/ x.t = "null" /\ mj[k] = Nil /\ kind \in {"ptr", "ptrs", "strings", "map"}
  BY DEF kind
<1>4. Turns(f, x, g)
  BY <1>1, <1>2, <1>3 DEF Turns, TurnsIn
<1> QED BY <1>4, TurnRuns DEF f, g

-----------------------------------------------------------------------------
(***************************************************************************)
(* The values: a struct that a call is made for, and slices, element by    *)
(* element.                                                                *)
(***************************************************************************)

\* What a buffer does to a slice that a call is reading into: it appends v.
Adds(buf, T, k, v) ==
  \A base, o, wv : IsBuffer(base) =>
    Runs(buf, Append(base, At(T, o, "elements", k, wv)),
              Append(base, At(T, Filled(o, k, Append(o[k], v)), "elements", k, No)))

\* A call as it begins.
LEMMA FrameIsAt ==
  ASSUME NEW T, NEW o, NEW state
  PROVE  Frame(T, o, state) = At(T, o, state, "no_such_key", Yes)
BY DEF At, Frame, Yes

\* The call that the handler of a field makes, from its bracket to the other.
LEMMA CallRuns ==
  ASSUME NEW base, IsBuffer(base), NEW f, NEW w, NEW mj, NEW g, Waits(f),
         f.state = "want_value" => f.obj[f.key] = Nil,
         Encodes(w, Fields[f.T][f.key].of, mj),
         g = IF f.state = "elements" THEN Extended(f, mj) ELSE Assigned(f, mj)
  PROVE  Runs(w, Append(base, f), Append(base, g))
<1> DEFINE h == Frame(Fields[f.T][f.key].of, Zero(Fields[f.T][f.key].of), "want_key")
           a == Append(base, f)
<1>0. IsBuffer(a)
  BY AppendIsBuffer
<1>1. PICK m : /\ w = (Tok("{") \o m) \o Tok("}")
               /\ \A b : IsBuffer(b) =>
                    \E h2 : /\ Runs(m, Append(b, h), Append(b, h2))
                            /\ h2.state \in {"want_key", "after_value"} /\ h2.obj = mj
  BY DEF Encodes
<1>2. PICK h2 : /\ Runs(m, Append(a, h), Append(a, h2))
                /\ h2.state \in {"want_key", "after_value"} /\ h2.obj = mj
  BY <1>0, <1>1
<1>3. Enters(f, [t |-> "{", v |-> << >>], h)
  BY DEF Enters
<1> HIDE DEF h
<1>4. Runs(Tok("{"), a, Append(a, h))
  BY <1>3, EnterRuns DEF Tok
<1>5. Returns(f, h2, [t |-> "}", v |-> << >>], g)
  BY <1>2 DEF Returns
<1>6. Runs(Tok("}"), Append(a, h2), Append(base, g))
  BY <1>5, ReturnRuns DEF Tok
<1> HIDE DEF a
<1>7. Runs(Tok("{") \o m, a, Append(a, h2))
  BY <1>2, <1>4, RunsOn
<1>8. Runs((Tok("{") \o m) \o Tok("}"), a, Append(base, g))
  BY <1>6, <1>7, RunsOn
<1> QED BY <1>1, <1>8 DEF a

\* A struct as the value of a field.
LEMMA StructTakes ==
  ASSUME NEW T \in Structs, NEW k \in Keys(T), NEW mj, NEW w,
         Fields[T][k].kind = "ptr", Encodes(w, Fields[T][k].of, mj[k])
  PROVE  Takes(w, T, mj, k)
<1> SUFFICES ASSUME NEW base, NEW K, NEW wv, IsBuffer(base), k \notin K
             PROVE  Runs(w, Append(base, At(T, Part(T, mj, K), "want_value", k, wv)),
                      Append(base, At(T, Part(T, mj, K \cup {k}), "after_value", k, wv)))
  BY DEF Takes
<1> DEFINE f == At(T, Part(T, mj, K), "want_value", k, wv)
           g == At(T, Part(T, mj, K \cup {k}), "after_value", k, wv)
<1>1. f.state = "want_value" /\ KindOf(f) = "ptr" /\ f.key = k /\ f.T = T /\ f.obj = Part(T, mj, K)
  BY AtFacts, AtKind
<1>2. g = Assigned(f, mj[k])
  <2>1. Filled(Part(T, mj, K), k, mj[k]) = Part(T, mj, K \cup {k})
    BY PartGrows
  <2>2. Assigned(f, mj[k]) = At(T, Filled(Part(T, mj, K), k, mj[k]), "after_value", k, wv)
    BY AtChanges
  <2> QED BY <2>1, <2>2
<1>3. f.obj[f.key] = Nil
  BY <1>1, PartFacts DEF ZeroOf
<1> HIDE DEF f, g
<1>4. Waits(f)
  BY <1>1 DEF Waits
<1>5. g = IF f.state = "elements" THEN Extended(f, mj[k]) ELSE Assigned(f, mj[k])
  BY <1>1, <1>2
<1>6. Encodes(w, Fields[f.T][f.key].of, mj[k])
  BY <1>1
<1> QED BY <1>3, <1>4, <1>5, <1>6, CallRuns DEF f, g

\* A struct as an element of a slice.
LEMMA StructAdds ==
  ASSUME NEW T \in Structs, NEW k \in Keys(T), NEW w, NEW v,
         Fields[T][k].kind = "ptrs", Encodes(w, Fields[T][k].of, v)
  PROVE  Adds(w, T, k, v)
<1> SUFFICES ASSUME NEW base, NEW o, NEW wv, IsBuffer(base)
             PROVE  Runs(w, Append(base, At(T, o, "elements", k, wv)),
                      Append(base, At(T, Filled(o, k, Append(o[k], v)), "elements", k, No)))
  BY DEF Adds
<1> DEFINE f == At(T, o, "elements", k, wv)
           g == At(T, Filled(o, k, Append(o[k], v)), "elements", k, No)
<1>1. f.state = "elements" /\ KindOf(f) = "ptrs" /\ f.key = k /\ f.T = T
  BY AtFacts, AtKind
<1>2. g = Extended(f, v)
  BY AtChanges
<1> HIDE DEF f, g
<1>3. Waits(f)
  BY <1>1 DEF Waits
<1>4. g = IF f.state = "elements" THEN Extended(f, v) ELSE Assigned(f, v)
  BY <1>1, <1>2
<1>5. Encodes(w, Fields[f.T][f.key].of, v) /\ (f.state = "want_value" => f.obj[f.key] = Nil)
  BY <1>1
<1> QED BY <1>3, <1>4, <1>5, CallRuns DEF f, g

\* A string as an element of a slice.
LEMMA StringAdds ==
  ASSUME NEW T \in Structs, NEW k \in Keys(T), NEW v, Fields[T][k].kind = "strings"
  PROVE  Adds(WriteString(v), T, k, v)
<1> SUFFICES ASSUME NEW base, NEW o, NEW wv, IsBuffer(base)
             PROVE  Runs(WriteString(v), Append(base, At(T, o, "elements", k, wv)),
                      Append(base, At(T, Filled(o, k, Append(o[k], v)), "elements", k, No)))
  BY DEF Adds
<1> DEFINE f == At(T, o, "elements", k, wv)
           g == At(T, Filled(o, k, Append(o[k], v)), "elements", k, No)
<1>1. f.state = "elements" /\ KindOf(f) = "strings"
  BY AtFacts, AtKind
<1>2. g = Extended(f, v)
  BY AtChanges
<1> HIDE DEF f, g
<1>3. Turns(f, [t |-> "string", v |-> v], g)
  BY <1>1, <1>2 DEF Turns, TurnsIn
<1> QED BY <1>3, TurnRuns DEF f, g, WriteString

\* A slice between its brackets, commas between its elements.
LEMMA SliceTakes ==
  ASSUME NEW T \in Structs, NEW k \in Keys(T), NEW mj, NEW bufs,
         Fields[T][k].kind \in {"ptrs", "strings"}, mj[k] # Nil,
         IsBuffer(mj[k]), IsBuffer(bufs), DOMAIN bufs = DOMAIN mj[k],
         \A i \in DOMAIN bufs : IsBuffer(bufs[i]) /\ Adds(bufs[i], T, k, mj[k][i])
  PROVE  Takes(Tok("[") \o Commas(bufs) \o Tok("]"), T, mj, k)
<1> SUFFICES ASSUME NEW base, NEW K, NEW wv, IsBuffer(base), k \notin K
             PROVE  \E wv2 : Runs(Tok("[") \o Commas(bufs) \o Tok("]"),
                      Append(base, At(T, Part(T, mj, K), "want_value", k, wv)),
                      Append(base, At(T, Part(T, mj, K \cup {k}), "after_value", k, wv2)))
  BY DEF Takes
<1> DEFINE s     == mj[k]
           o     == Part(T, mj, K)
           f     == At(T, o, "want_value", k, wv)
           cb    == [i \in DOMAIN bufs |-> (IF i > 1 THEN Tok(",") ELSE << >>) \o bufs[i]]
           W(n)  == IF n = 0 THEN Yes ELSE No
           G(n)  == At(T, Filled(o, k, SubSeq(s, 1, n)), "elements", k, W(n))
           R(n)  == Runs(FlattenSeq(SubSeq(cb, 1, n)), Append(base, G(0)), Append(base, G(n)))
           U     == {n \in Nat : n <= Len(cb) => R(n)}
<1>1. PICK S : s \in Seq(S)
  BY DEF IsBuffer
<1>2. /\ Len(s) \in Nat /\ DOMAIN bufs = 1..Len(s) /\ DOMAIN cb = 1..Len(s)
      /\ SubSeq(s, 1, 0) = << >> /\ SubSeq(s, 1, Len(s)) = s
      /\ \A n \in Nat : n < Len(s) => SubSeq(s, 1, n + 1) = Append(SubSeq(s, 1, n), s[n + 1])
  BY <1>1
<1>3. IsBuffer(cb) /\ Len(cb) = Len(s) /\ \A i \in DOMAIN cb : IsBuffer(cb[i])
  <2>0. DOMAIN cb = DOMAIN bufs /\ cb = [i \in DOMAIN cb |-> cb[i]]
    OBVIOUS
  <2>2. ASSUME NEW i \in DOMAIN cb PROVE IsBuffer(cb[i])
    <3>1. IsBuffer(IF i > 1 THEN Tok(",") ELSE << >>) /\ IsBuffer(bufs[i])
      BY TokensAreBuffers
    <3> QED BY <3>1, ConcatIsBuffer
  <2> HIDE DEF cb
  <2>3. IsBuffer(cb)
    BY <2>0, SameIndicesIsBuffer
  <2>4. Len(cb) = Len(s)
    <3>1. Len(cb) \in Nat /\ DOMAIN cb = 1..Len(cb)
      BY <2>3 DEF IsBuffer
    <3> QED BY <1>2, <2>0, <3>1
  <2> QED BY <2>2, <2>3, <2>4
<1> HIDE DEF cb
<1>4. /\ FlattenSeq(SubSeq(cb, 1, 0)) = << >>
      /\ FlattenSeq(SubSeq(cb, 1, Len(cb))) = FlattenSeq(cb)
      /\ \A m \in Nat : m < Len(cb) =>
           FlattenSeq(SubSeq(cb, 1, m + 1)) = FlattenSeq(SubSeq(cb, 1, m)) \o cb[m + 1]
  BY <1>3, FlattenPrefix
<1>5. Nat \subseteq U
  <2>1. 0 \in U
    <3>1. Runs(<< >>, Append(base, G(0)), Append(base, G(0)))
      BY RunsNone
    <3> QED BY <1>4, <3>1
  <2>2. ASSUME NEW n \in Nat, n \in U PROVE n + 1 \in U
    <3> HIDE DEF G
    <3> SUFFICES ASSUME n < Len(cb) PROVE R(n + 1)
      BY <1>2, <1>3
    <3>1. R(n)
      BY <1>2, <1>3, <2>2
    <3> DEFINE c == At(T, Filled(o, k, SubSeq(s, 1, n)), "elements", k, No)
               p == IF n + 1 > 1 THEN Tok(",") ELSE << >>
    <3>2. Runs(p, Append(base, G(n)), Append(base, G(n)))
      <4>1. CASE n = 0
        BY <4>1, RunsNone
      <4>2. CASE n # 0
        <5>1. G(n) = c /\ p = Tok(",")
          <6>1. n + 1 > 1 /\ W(n) = No
            BY <4>2
          <6>2. G(n) = At(T, Filled(o, k, SubSeq(s, 1, n)), "elements", k, W(n))
            BY DEF G
          <6> QED BY <6>1, <6>2
        <5>2. c.state = "elements" /\ KindOf(c) \in {"ptrs", "strings"} /\ c.wantVal = No
          BY AtFacts, AtKind
        <5> HIDE DEF c, p
        <5>3. Turns(c, [t |-> ",", v |-> << >>], c)
          BY <5>2 DEF Turns, TurnsIn
        <5> QED BY <5>1, <5>3, TurnRuns DEF Tok
      <4> QED BY <4>1, <4>2
    <3>3. Runs(bufs[n + 1], Append(base, G(n)), Append(base, G(n + 1)))
      <4> DEFINE q == Filled(o, k, SubSeq(s, 1, n))
      <4>1. Adds(bufs[n + 1], T, k, s[n + 1])
        <5>1. n + 1 \in 1..Len(s)
          BY <1>2, <1>3
        <5> QED BY <1>2, <5>1
      <4>2. Runs(bufs[n + 1], Append(base, At(T, q, "elements", k, W(n))),
                  Append(base, At(T, Filled(q, k, Append(q[k], s[n + 1])), "elements", k, No)))
        BY <4>1 DEF Adds
      <4>3. q[k] = SubSeq(s, 1, n)
        <5> DEFINE v == SubSeq(s, 1, n)
        <5> HIDE DEF v
        <5>1. Filled(o, k, v)[k] = v
          BY FilledHas
        <5> QED BY <5>1 DEF v
      <4>4. Filled(q, k, SubSeq(s, 1, n + 1)) = Filled(o, k, SubSeq(s, 1, n + 1))
        BY FilledTwice
      <4>5. Append(q[k], s[n + 1]) = SubSeq(s, 1, n + 1)
        BY <1>2, <1>3, <4>3
      <4>6. W(n + 1) = No
        OBVIOUS
      <4> QED BY <4>2, <4>4, <4>5, <4>6 DEF G
    <3>4. cb[n + 1] = p \o bufs[n + 1]
      <4>1. n + 1 \in DOMAIN bufs
        BY <1>2, <1>3
      <4> QED BY <4>1 DEF cb
    <3> HIDE DEF p
    <3>5. Runs(p \o bufs[n + 1], Append(base, G(n)), Append(base, G(n + 1)))
      BY <3>2, <3>3, RunsOn
    <3>6. FlattenSeq(SubSeq(cb, 1, n + 1)) = FlattenSeq(SubSeq(cb, 1, n)) \o (p \o bufs[n + 1])
      BY <1>4, <3>4
    <3> QED BY <3>1, <3>5, <3>6, RunsOn
  <2> HIDE DEF U
  <2> QED BY <2>1, <2>2, InductionOnSet
<1>6. Runs(FlattenSeq(cb), Append(base, G(0)), Append(base, G(Len(s))))
  <2> HIDE DEF G
  <2>1. R(Len(cb))
    BY <1>2, <1>3, <1>5
  <2> QED BY <1>3, <1>4, <2>1
<1>7. Commas(bufs) = FlattenSeq(cb)
  BY DEF Commas, cb
<1> DEFINE e == At(T, Part(T, mj, K \cup {k}), "after_value", k, W(Len(s)))
<1>8. Runs(Tok("["), Append(base, f), Append(base, G(0)))
  <2> DEFINE g == At(T, Filled(o, k, << >>), "elements", k, Yes)
  <2>1. f.state = "want_value" /\ KindOf(f) \in {"ptrs", "strings"} /\ g = Opened(f, "elements")
    BY AtFacts, AtKind, AtChanges
  <2>2. G(0) = g
    BY <1>2
  <2> HIDE DEF f, g, G
  <2>3. Turns(f, [t |-> "[", v |-> << >>], g)
    BY <2>1 DEF Turns, TurnsIn
  <2> QED BY <2>2, <2>3, TurnRuns DEF Tok
<1>9. Runs(Tok("]"), Append(base, G(Len(s))), Append(base, e))
  <2> DEFINE d == G(Len(s))
  <2>1. Filled(o, k, SubSeq(s, 1, Len(s))) = Part(T, mj, K \cup {k})
    <3>1. SubSeq(s, 1, Len(s)) = mj[k]
      BY <1>2
    <3>2. Filled(o, k, mj[k]) = Part(T, mj, K \cup {k})
      BY PartGrows
    <3> QED BY <3>1, <3>2
  <2>2. d.state = "elements" /\ KindOf(d) \in {"ptrs", "strings"}
    BY AtFacts, AtKind
  <2>3. e = Gone(d, "after_value")
    BY <2>1, AtChanges
  <2> HIDE DEF d, e
  <2>4. Turns(d, [t |-> "]", v |-> << >>], e)
    BY <2>2, <2>3 DEF Turns, TurnsIn
  <2> QED BY <2>4, TurnRuns DEF Tok, d
<1> HIDE DEF f, G, e
<1>10. Runs(Tok("[") \o Commas(bufs), Append(base, f), Append(base, G(Len(s))))
  BY <1>6, <1>7, <1>8, RunsOn
<1>11. Runs(Tok("[") \o Commas(bufs) \o Tok("]"), Append(base, f), Append(base, e))
  BY <1>9, <1>10, RunsOn, SMTT(40)
<1> QED BY <1>11 DEF f, e

-----------------------------------------------------------------------------
(***************************************************************************)
(* All fields of a struct, in the order of the encoder and with a comma    *)
(* between each and the next; or, where fields may be left out, behind     *)
(* each but the last.                                                      *)
(***************************************************************************)

\* A struct's fields as the encoder goes through them: what writes field ks[i] is fs[i],
\* and a field of S that none of them writes has its zero value.
Lists(fs, T, mj, S) ==
  /\ IsBuffer(fs) /\ \A i \in DOMAIN fs : IsBuffer(fs[i].buf) /\ ~fs[i].stop
  /\ \E ks : /\ \A i \in DOMAIN fs : ks[i] \in S /\ Writes(fs[i].buf, T, mj, ks[i])
             /\ \A i, j \in DOMAIN fs : ks[i] = ks[j] => i = j
             /\ \A k \in S : (\A i \in DOMAIN fs : ks[i] # k) => mj[k] = ZeroOf(Fields[T][k])

Bufs(fs)      == [i \in DOMAIN fs |-> fs[i].buf]
WithComma(fs) == [i \in DOMAIN fs |-> (IF i > 1 THEN Tok(",") ELSE << >>) \o Bufs(fs)[i]]

\* Sequences with the same indices are as long.
LEMMA SameLength ==
  ASSUME NEW s, NEW t, IsBuffer(s), IsBuffer(t), DOMAIN s = DOMAIN t
  PROVE  Len(s) = Len(t)
<1>1. Len(s) \in Nat /\ DOMAIN s = 1..Len(s)
  BY DEF IsBuffer
<1>2. Len(t) \in Nat /\ DOMAIN t = 1..Len(t)
  BY DEF IsBuffer
<1>3. ASSUME NEW m \in Nat, NEW n \in Nat, 1..m = 1..n PROVE m = n
  <2>1. m # 0 => m \in 1..n
    BY <1>3
  <2>2. n # 0 => n \in 1..m
    BY <1>3
  <2> QED BY <2>1, <2>2
<1> QED BY <1>1, <1>2, <1>3

\* The buffers of the fields, with the commas that Commas puts before them.
LEMMA BufsFacts ==
  ASSUME NEW fs, IsBuffer(fs), \A i \in DOMAIN fs : IsBuffer(fs[i].buf)
  PROVE  /\ Len(fs) \in Nat /\ DOMAIN fs = 1..Len(fs)
         /\ IsBuffer(Bufs(fs)) /\ Len(Bufs(fs)) = Len(fs) /\ DOMAIN Bufs(fs) = DOMAIN fs
         /\ \A i \in DOMAIN fs : Bufs(fs)[i] = fs[i].buf
         /\ IsBuffer(WithComma(fs)) /\ Len(WithComma(fs)) = Len(fs)
         /\ \A i \in DOMAIN WithComma(fs) : IsBuffer(WithComma(fs)[i])
         /\ \A i \in DOMAIN fs : WithComma(fs)[i] = (IF i > 1 THEN Tok(",") ELSE << >>) \o Bufs(fs)[i]
         /\ Commas(Bufs(fs)) = FlattenSeq(WithComma(fs))
<1> DEFINE b == Bufs(fs)
           c == WithComma(fs)
<1>0. Len(fs) \in Nat /\ DOMAIN fs = 1..Len(fs)
  BY DEF IsBuffer
<1>1. DOMAIN b = DOMAIN fs /\ b = [i \in DOMAIN b |-> b[i]] /\ \A i \in DOMAIN fs : b[i] = fs[i].buf
  BY DEF Bufs
<1>2. /\ DOMAIN c = DOMAIN fs /\ c = [i \in DOMAIN c |-> c[i]]
      /\ \A i \in DOMAIN fs : c[i] = (IF i > 1 THEN Tok(",") ELSE << >>) \o Bufs(fs)[i]
  BY DEF WithComma
<1> HIDE DEF b, c
<1>3. IsBuffer(b) /\ IsBuffer(c)
  BY <1>1, <1>2, SameIndicesIsBuffer
<1>4. Len(b) = Len(fs) /\ Len(c) = Len(fs)
  BY <1>1, <1>2, <1>3, SameLength
<1>5. ASSUME NEW i \in DOMAIN c PROVE IsBuffer(c[i])
  <2>1. IsBuffer(IF i > 1 THEN Tok(",") ELSE << >>) /\ IsBuffer(b[i])
    BY <1>1, <1>2, TokensAreBuffers
  <2> QED BY <1>2, <2>1, ConcatIsBuffer DEF b
<1>6. Commas(b) = FlattenSeq(c)
  BY <1>1, <1>2 DEF Commas, WithComma, b, c
<1> QED BY <1>0, <1>1, <1>2, <1>3, <1>4, <1>5, <1>6 DEF b, c

\* The call behind the last of the fields.
AtEnd(fs, T, mj, h) == Len(fs) # 0 => \E key, wv : h = At(T, mj, "after_value", key, wv)

\* The fields one after the other, a comma between each and the next.
LEMMA CommasRun ==
  ASSUME NEW T \in Structs, NEW mj, NEW fs, Lists(fs, T, mj, Keys(T)),
         mj = [k \in Keys(T) |-> mj[k]], NEW base, IsBuffer(base)
  PROVE  \E h : /\ Runs(Commas(Bufs(fs)), Append(base, Frame(T, Zero(T), "want_key")), Append(base, h))
                /\ h.state \in {"want_key", "after_value"} /\ h.obj = mj
                /\ AtEnd(fs, T, mj, h)
<1> DEFINE cb    == WithComma(fs)
           a     == Append(base, Frame(T, Zero(T), "want_key"))
           st(n) == IF n = 0 THEN "want_key" ELSE "after_value"
<1>1. PICK ks : /\ \A i \in DOMAIN fs : ks[i] \in Keys(T) /\ Writes(fs[i].buf, T, mj, ks[i])
                /\ \A i, j \in DOMAIN fs : ks[i] = ks[j] => i = j
                /\ \A k \in Keys(T) : (\A i \in DOMAIN fs : ks[i] # k) => mj[k] = ZeroOf(Fields[T][k])
  BY DEF Lists
<1> DEFINE P(n)  == Part(T, mj, {ks[i] : i \in 1..n})
           R(n)  == \E key, wv : Runs(FlattenSeq(SubSeq(cb, 1, n)), a,
                                      Append(base, At(T, P(n), st(n), key, wv)))
           U     == {n \in Nat : n <= Len(fs) => R(n)}
<1>2. /\ Len(fs) \in Nat /\ DOMAIN fs = 1..Len(fs) /\ Len(cb) = Len(fs)
      /\ \A i \in DOMAIN fs : cb[i] = (IF i > 1 THEN Tok(",") ELSE << >>) \o fs[i].buf
      /\ IsBuffer(cb) /\ \A i \in DOMAIN cb : IsBuffer(cb[i])
      /\ Commas(Bufs(fs)) = FlattenSeq(cb)
  BY BufsFacts, ZenonT(40) DEF Lists
<1> HIDE DEF cb
<1>0. Len(fs) \in Nat /\ DOMAIN fs = 1..Len(fs) /\ Len(cb) = Len(fs)
  BY <1>2
<1>3. /\ FlattenSeq(SubSeq(cb, 1, 0)) = << >>
      /\ FlattenSeq(SubSeq(cb, 1, Len(cb))) = FlattenSeq(cb)
      /\ \A m \in Nat : m < Len(cb) =>
           FlattenSeq(SubSeq(cb, 1, m + 1)) = FlattenSeq(SubSeq(cb, 1, m)) \o cb[m + 1]
  BY <1>2, FlattenPrefix
<1>4. Nat \subseteq U
  <2>1. 0 \in U
    <3>1. a = Append(base, At(T, P(0), st(0), "no_such_key", Yes))
      <4>1. {ks[i] : i \in 1..0} = {}
        OBVIOUS
      <4>2. P(0) = Zero(T)
        BY <4>1 DEF Part, Zero
      <4> QED BY <4>2, FrameIsAt
    <3> HIDE DEF a, P
    <3>2. Runs(<< >>, a, a)
      BY RunsNone
    <3>3. Runs(FlattenSeq(SubSeq(cb, 1, 0)), a, Append(base, At(T, P(0), st(0), "no_such_key", Yes)))
      BY <1>3, <3>1, <3>2
    <3> HIDE DEF st
    <3>4. R(0)
      BY <3>3
    <3> HIDE DEF R
    <3> QED BY <3>4
  <2>2. ASSUME NEW n \in Nat, n \in U PROVE n + 1 \in U
    <3> HIDE DEF a, P, st
    <3> SUFFICES ASSUME n < Len(fs) PROVE R(n + 1)
      BY <1>0
    <3>1. PICK key, wv : Runs(FlattenSeq(SubSeq(cb, 1, n)), a,
                              Append(base, At(T, P(n), st(n), key, wv)))
      BY <1>0, <2>2
    <3> HIDE DEF R, U
    <3> DEFINE k == ks[n + 1]
               p == IF n + 1 > 1 THEN Tok(",") ELSE << >>
               f == At(T, P(n), st(n), key, wv)
               g == At(T, P(n), "want_key", key, wv)
    <3>2. n + 1 \in DOMAIN fs /\ k \in Keys(T) /\ Writes(fs[n + 1].buf, T, mj, k)
          /\ k \notin {ks[i] : i \in 1..n}
      <4>1. n + 1 \in DOMAIN fs /\ \A i \in 1..n : i \in DOMAIN fs /\ i # n + 1
        BY <1>0
      <4>2. k \in Keys(T) /\ Writes(fs[n + 1].buf, T, mj, k)
        BY <1>1, <4>1
      <4>3. \A i \in 1..n : ks[i] # ks[n + 1]
        BY <1>1, <4>1
      <4> QED BY <4>1, <4>2, <4>3
    <3>3. Runs(p, Append(base, f), Append(base, g))
      <4>1. CASE n = 0
        <5>1. p = << >> /\ st(n) = "want_key"
          BY <4>1 DEF st
        <5> QED BY <5>1, RunsNone
      <4>2. CASE n # 0
        <5>0. p = Tok(",") /\ st(n) = "after_value"
          <6>1. n + 1 > 1
            BY <4>2
          <6>2. st(n) = "after_value"
            BY <4>2 DEF st
          <6> HIDE DEF st
          <6>3. p = Tok(",")
            BY <6>1
          <6> QED BY <6>2, <6>3
        <5>1. f = At(T, P(n), "after_value", key, wv) /\ p = Tok(",")
          BY <5>0
        <5>2. f.state = "after_value" /\ g = Gone(f, "want_key")
          <6> DEFINE o == P(n)
          <6> HIDE DEF o
          <6>1. At(T, o, "after_value", key, wv).state = "after_value"
            BY AtFacts
          <6>2. Gone(At(T, o, "after_value", key, wv), "want_key") = At(T, o, "want_key", key, wv)
            BY AtChanges
          <6> QED BY <5>1, <6>1, <6>2 DEF o
        <5> HIDE DEF f, g, p
        <5>3. Turns(f, [t |-> ",", v |-> << >>], g)
          BY <5>2 DEF Turns, TurnsIn
        <5> QED BY <5>1, <5>3, TurnRuns DEF Tok
      <4> QED BY <4>1, <4>2
    <3>4. PICK wv2 : Runs(fs[n + 1].buf, Append(base, g),
                          Append(base, At(T, P(n + 1), "after_value", k, wv2)))
      <4>1. {ks[i] : i \in 1..(n + 1)} = {ks[i] : i \in 1..n} \cup {k}
        OBVIOUS
      <4>2. P(n + 1) = Part(T, mj, {ks[i] : i \in 1..n} \cup {k})
        BY <4>1 DEF P
      <4> DEFINE K == {ks[i] : i \in 1..n}
      <4>3. P(n) = Part(T, mj, K) /\ k \notin K
        BY <3>2 DEF P
      <4> HIDE DEF K, k
      <4>4. \E wv2 : Runs(fs[n + 1].buf, Append(base, At(T, Part(T, mj, K), "want_key", key, wv)),
                          Append(base, At(T, Part(T, mj, K \cup {k}), "after_value", k, wv2)))
        BY <3>2, <4>3 DEF Writes
      <4> QED BY <4>2, <4>3, <4>4 DEF K
    <3>5. cb[n + 1] = p \o fs[n + 1].buf
      BY <1>2, <3>2
    <3>6. st(n + 1) = "after_value"
      BY DEF st
    <3> HIDE DEF p, f, g, k
    <3>7. Runs(cb[n + 1], Append(base, f), Append(base, At(T, P(n + 1), st(n + 1), k, wv2)))
      BY <3>3, <3>4, <3>5, <3>6, RunsOn
    <3>8. FlattenSeq(SubSeq(cb, 1, n + 1)) = FlattenSeq(SubSeq(cb, 1, n)) \o cb[n + 1]
      BY <1>0, <1>3
    <3>9. Runs(FlattenSeq(SubSeq(cb, 1, n + 1)), a, Append(base, At(T, P(n + 1), st(n + 1), k, wv2)))
      BY <3>1, <3>7, <3>8, RunsOn DEF f
    <3> QED BY <3>9 DEF R
  <2> HIDE DEF U
  <2> QED BY <2>1, <2>2, InductionOnSet
<1> HIDE DEF a, P, st
<1>5. R(Len(fs))
  <2> HIDE DEF R
  <2> QED BY <1>0, <1>4
<1>6. PICK key, wv : Runs(FlattenSeq(SubSeq(cb, 1, Len(fs))), a,
                          Append(base, At(T, P(Len(fs)), st(Len(fs)), key, wv)))
  BY <1>5
<1> DEFINE h == At(T, P(Len(fs)), st(Len(fs)), key, wv)
<1>7. h.state \in {"want_key", "after_value"} /\ h.obj = P(Len(fs))
      /\ (Len(fs) # 0 => h = At(T, P(Len(fs)), "after_value", key, wv))
  BY AtFacts DEF st
<1>8. P(Len(fs)) = mj
  <2>1. ASSUME NEW k \in Keys(T), k \notin {ks[i] : i \in 1..Len(fs)}
        PROVE  mj[k] = ZeroOf(Fields[T][k])
    BY <1>1, <1>2, <2>1
  <2>2. P(Len(fs)) = [k \in Keys(T) |-> mj[k]]
    BY <2>1 DEF P, Part
  <2> QED BY <2>2
<1>9. Runs(Commas(Bufs(fs)), a, Append(base, h))
  BY <1>2, <1>3, <1>6
<1> HIDE DEF h
<1> QED BY <1>7, <1>8, <1>9 DEF a, AtEnd

\* Concatenation, as the encoders bracket it.
LEMMA ConcatIsAssociative ==
  ASSUME NEW s, NEW t, NEW u, IsBuffer(s), IsBuffer(t), IsBuffer(u)
  PROVE  (s \o t) \o u = s \o (t \o u)
<1>1. PICK A : s \in Seq(A)
  BY DEF IsBuffer
<1>2. PICK B : t \in Seq(B)
  BY DEF IsBuffer
<1>3. PICK C : u \in Seq(C)
  BY DEF IsBuffer
<1> DEFINE S == (A \cup B) \cup C
<1>4. s \in Seq(S) /\ t \in Seq(S) /\ u \in Seq(S)
  <2>1. A \subseteq S /\ B \subseteq S /\ C \subseteq S
    OBVIOUS
  <2> HIDE DEF S
  <2> QED BY <1>1, <1>2, <1>3, <2>1, SeqMonotonic
<1> HIDE DEF S
<1> QED BY <1>4, ConcatAssociative, SMTT(40)

\* The same for four sequences, the last of them behind the first three.
LEMMA ConcatFour ==
  ASSUME NEW s, NEW t, NEW u, NEW v, IsBuffer(s), IsBuffer(t), IsBuffer(u), IsBuffer(v),
         NEW q, q = (s \o t) \o (u \o v), NEW r, r = s \o (t \o u)
  PROVE  q = r \o v
<1>1. IsBuffer(s \o t)
  BY ConcatIsBuffer
<1>2. (s \o t) \o (u \o v) = ((s \o t) \o u) \o v
  BY SMTT(40), <1>1, ConcatIsAssociative
<1>3. (s \o t) \o u = s \o (t \o u)
  BY ConcatIsAssociative, SMTT(40)
<1> QED BY <1>2, <1>3

\* The empty sequence adds nothing.
LEMMA ConcatNothing == ASSUME NEW s, IsBuffer(s) PROVE s \o << >> = s /\ << >> \o s = s
BY ConcatEmptySeq DEF IsBuffer

\* Rewind takes the last token off.
LEMMA RewindOne == ASSUME NEW s, IsBuffer(s), NEW x PROVE Rewind(s \o <<x>>) = s
<1>1. PICK S : s \in Seq(S)
  BY DEF IsBuffer
<1>2. s \in Seq(S \cup {x}) /\ <<x>> \in Seq(S \cup {x})
  BY <1>1
<1>3. Len(s \o <<x>>) = Len(s) + 1 /\ Len(s) \in Nat
  BY <1>2
<1>4. SubSeq(s \o <<x>>, 1, Len(s)) = s
  BY <1>2
<1> QED BY <1>3, <1>4 DEF Rewind, Front

\* A comma behind every field is one more than a comma between any two.
LEMMA CommasBehind ==
  ASSUME NEW fs, IsBuffer(fs), \A i \in DOMAIN fs : IsBuffer(fs[i].buf) /\ ~fs[i].stop
  PROVE  LET fc == [i \in DOMAIN fs |-> fs[i].buf \o (IF fs[i].stop THEN << >> ELSE Tok(","))] IN
         FlattenSeq(fc) = IF fs = << >> THEN << >> ELSE Commas(Bufs(fs)) \o Tok(",")
<1> DEFINE fc   == [i \in DOMAIN fs |-> fs[i].buf \o (IF fs[i].stop THEN << >> ELSE Tok(","))]
           cb   == WithComma(fs)
           N    == Len(fs)
           Xs(n) == FlattenSeq(SubSeq(cb, 1, n))
           Ys(n) == FlattenSeq(SubSeq(fc, 1, n))
           Q(n) == IsBuffer(Xs(n)) /\ Ys(n) = IF n = 0 THEN << >> ELSE Xs(n) \o Tok(",")
           U    == {n \in Nat : n <= N => Q(n)}
<1>1. /\ IsBuffer(Bufs(fs)) /\ IsBuffer(cb) /\ Len(cb) = N /\ Commas(Bufs(fs)) = FlattenSeq(cb)
      /\ \A i \in DOMAIN cb : IsBuffer(cb[i])
      /\ \A i \in DOMAIN fs : cb[i] = (IF i > 1 THEN Tok(",") ELSE << >>) \o Bufs(fs)[i]
      /\ \A i \in DOMAIN fs : Bufs(fs)[i] = fs[i].buf
  BY BufsFacts
<1>2. N \in Nat /\ DOMAIN fs = 1..N /\ Len(cb) = N
  BY <1>1, BufsFacts
<1>3. /\ IsBuffer(fc) /\ Len(fc) = N
      /\ \A i \in DOMAIN fs : fc[i] = fs[i].buf \o Tok(",")
      /\ \A i \in DOMAIN fc : IsBuffer(fc[i])
  <2>1. DOMAIN fc = DOMAIN fs /\ fc = [i \in DOMAIN fc |-> fc[i]]
    OBVIOUS
  <2>2. \A i \in DOMAIN fs : fc[i] = fs[i].buf \o Tok(",")
    OBVIOUS
  <2> HIDE DEF fc
  <2>3. IsBuffer(fc)
    BY <2>1, SameIndicesIsBuffer
  <2>4. \A i \in DOMAIN fc : IsBuffer(fc[i])
    <3>1. IsBuffer(Tok(","))
      BY TokensAreBuffers
    <3>2. ASSUME NEW i \in DOMAIN fs PROVE IsBuffer(fs[i].buf \o Tok(","))
      BY <3>1, ConcatIsBuffer
    <3> QED BY <2>1, <2>2, <3>2
  <2>5. Len(fc) = N
    BY <2>1, <2>3, SameLength
  <2> QED BY <2>2, <2>3, <2>4, <2>5
<1> HIDE DEF fc, cb, N
<1>4. /\ Xs(0) = << >> /\ Xs(N) = FlattenSeq(cb)
      /\ \A m \in Nat : m < N => Xs(m + 1) = Xs(m) \o cb[m + 1]
  BY <1>1, <1>2, FlattenPrefix
<1>5. /\ Ys(0) = << >> /\ Ys(N) = FlattenSeq(fc)
      /\ \A m \in Nat : m < N => Ys(m + 1) = Ys(m) \o fc[m + 1]
  BY <1>3, FlattenPrefix
<1> HIDE DEF Xs, Ys
<1>6. Nat \subseteq U
  <2>1. 0 \in U
    BY <1>4, <1>5, TokensAreBuffers
  <2>2. ASSUME NEW n \in Nat, n \in U PROVE n + 1 \in U
    <3> HIDE DEF Q
    <3> SUFFICES ASSUME n < N PROVE Q(n + 1)
      BY <1>2
    <3>1. Q(n)
      BY <1>2, <2>2
    <3> HIDE DEF U
    <3> USE DEF Q
    <3> DEFINE p == IF n + 1 > 1 THEN Tok(",") ELSE << >>
               b == fs[n + 1].buf
               x == Xs(n)
    <3>2. n + 1 \in DOMAIN fs
      BY <1>2
    <3>3. IsBuffer(b) /\ fc[n + 1] = b \o Tok(",")
      BY <1>3, <3>2
    <3>4. cb[n + 1] = p \o b
      BY <1>1, <3>2
    <3>5. IsBuffer(p) /\ IsBuffer(Tok(",")) /\ IsBuffer(<< >>)
      BY TokensAreBuffers
    <3>6. IsBuffer(p \o b) /\ IsBuffer(x)
      BY <3>1, <3>3, <3>5, ConcatIsBuffer
    <3>7. Xs(n + 1) = x \o (p \o b) /\ Ys(n + 1) = Ys(n) \o (b \o Tok(","))
      BY <1>4, <1>5, <3>3, <3>4
    <3>8. Ys(n) = x \o p
      <4>1. CASE n = 0
        <5>1. p = << >> /\ x = << >> /\ Ys(n) = << >>
          BY <1>4, <1>5, <4>1
        <5> HIDE DEF p, x
        <5>2. << >> \o << >> = << >>
          BY ConcatNothing, TokensAreBuffers
        <5> QED BY <5>1, <5>2
      <4>2. CASE n # 0
        <5>1. n + 1 > 1
          BY <4>2
        <5>2. p = Tok(",")
          BY <5>1
        <5> HIDE DEF p
        <5>3. Ys(n) = x \o Tok(",")
          BY <3>1, <4>2
        <5> QED BY <5>2, <5>3
      <4> QED BY <4>1, <4>2
    <3> HIDE DEF p, b, x
    <3>9. Ys(n + 1) = Xs(n + 1) \o Tok(",")
      <4> DEFINE c == Tok(",")
                 q == Ys(n + 1)
                 r == Xs(n + 1)
      <4>1. IsBuffer(x) /\ IsBuffer(p) /\ IsBuffer(b) /\ IsBuffer(c)
        BY <3>3, <3>5, <3>6
      <4>2. q = (x \o p) \o (b \o c)
        BY <3>7, <3>8
      <4>3. r = x \o (p \o b)
        BY <3>7
      <4> HIDE DEF c, q, r
      <4>4. q = r \o c
        BY SMTT(40), <4>1, <4>2, <4>3, ConcatFour
      <4> QED BY <4>4 DEF c, q, r
    <3>10. IsBuffer(Xs(n + 1))
      BY <3>6, <3>7, ConcatIsBuffer
    <3>11. Ys(n + 1) = Xs(n + 1) \o Tok(",") 
      BY <3>7, <3>9
    <3>12. n + 1 # 0
      OBVIOUS
    <3> QED BY <3>10, <3>11, <3>12
  <2> HIDE DEF U
  <2> QED BY <2>1, <2>2, InductionOnSet
<1>7. Q(N)
  <2> HIDE DEF Q
  <2> QED BY <1>2, <1>6
<1>8. fs = << >> <=> N = 0
  BY DEF N, IsBuffer
<1>9. FlattenSeq(fc) = IF fs = << >> THEN << >> ELSE Commas(Bufs(fs)) \o Tok(",")
  BY <1>1, <1>4, <1>5, <1>7, <1>8
<1> QED BY <1>9 DEF fc

\* No field of these ends the encoder early.
LEMMA NothingStops ==
  ASSUME NEW fs, IsBuffer(fs), \A i \in DOMAIN fs : ~fs[i].stop
  PROVE  Stops(fs) = {} /\ Reached(fs) = fs
<1>1. Stops(fs) = {}
  BY DEF Stops
<1>2. SubSeq(fs, 1, Len(fs)) = fs
  BY DEF IsBuffer
<1> QED BY <1>1, <1>2 DEF Reached

\* The encoder of a struct without an optional field.
LEMMA PlainEncodes ==
  ASSUME NEW T \in Structs, NEW mj, NEW fs, Lists(fs, T, mj, Keys(T)),
         mj = [k \in Keys(T) |-> mj[k]]
  PROVE  Encodes(Plain(fs), T, mj)
<1>1. IsBuffer(fs) /\ Stops(fs) = {} /\ Reached(fs) = fs
  BY NothingStops DEF Lists
<1>2. Plain(fs) = (Tok("{") \o Commas(Bufs(fs))) \o Tok("}")
  BY <1>1 DEF Plain, Bufs
<1>3. IsBuffer(Commas(Bufs(fs)))
  BY BufsFacts, CommasIsBuffer DEF Lists
<1>4. \A base : IsBuffer(base) =>
        \E h : /\ Runs(Commas(Bufs(fs)), Append(base, Frame(T, Zero(T), "want_key")), Append(base, h))
               /\ h.state \in {"want_key", "after_value"} /\ h.obj = mj
  BY CommasRun
<1> QED BY <1>2, <1>3, <1>4 DEF Encodes

\* And that of one with optional fields, whose last comma Rewind takes off.
LEMMA PaddedEncodes ==
  ASSUME NEW T \in Structs, NEW mj, NEW fs, Lists(fs, T, mj, Keys(T)),
         mj = [k \in Keys(T) |-> mj[k]]
  PROVE  Encodes(Padded(fs), T, mj)
<1> DEFINE fc == [i \in DOMAIN fs |-> fs[i].buf \o (IF fs[i].stop THEN << >> ELSE Tok(","))]
           cs == Commas(Bufs(fs))
           m  == IF fs = << >> THEN << >> ELSE Tok(" ") \o cs
<1>1. IsBuffer(fs) /\ Stops(fs) = {} /\ Reached(fs) = fs
  BY NothingStops DEF Lists
<1>2. FlattenSeq(fc) = IF fs = << >> THEN << >> ELSE cs \o Tok(",")
  BY CommasBehind DEF Lists
<1>3. Padded(fs) = Rewind(Tok("{") \o Tok(" ") \o FlattenSeq(fc)) \o Tok("}")
  BY <1>1 DEF Padded
<1>4. IsBuffer(cs)
  BY BufsFacts, CommasIsBuffer DEF Lists
<1> HIDE DEF fc
<1>5. /\ IsBuffer(Tok("{")) /\ IsBuffer(Tok(" ")) /\ IsBuffer(Tok(",")) /\ IsBuffer(<< >>)
      /\ IsBuffer(Tok("{") \o Tok(" ")) /\ IsBuffer((Tok("{") \o Tok(" ")) \o cs)
  <2> HIDE DEF cs
  <2>1. IsBuffer(Tok("{")) /\ IsBuffer(Tok(" ")) /\ IsBuffer(Tok(",")) /\ IsBuffer(<< >>)
    BY TokensAreBuffers
  <2> QED BY <1>4, <2>1, ConcatIsBuffer
<1>6. Rewind(Tok("{") \o Tok(" ") \o FlattenSeq(fc)) = Tok("{") \o m
  <2> HIDE DEF cs
  <2>1. CASE fs = << >>
    <3>1. (Tok("{") \o Tok(" ")) \o << >> = Tok("{") \o Tok(" ") /\ Tok("{") \o << >> = Tok("{")
      BY <1>5, ConcatNothing
    <3>2. Rewind(Tok("{") \o Tok(" ")) = Tok("{")
      BY <1>5, RewindOne DEF Tok
    <3> QED BY <1>2, <2>1, <3>1, <3>2
  <2>2. CASE fs # << >>
    <3>0. IsBuffer(Tok("{")) /\ IsBuffer(Tok(" ")) /\ IsBuffer(cs) /\ IsBuffer(Tok(","))
      BY <1>4, <1>5
    <3>1. (Tok("{") \o Tok(" ")) \o (cs \o Tok(",")) = (Tok("{") \o (Tok(" ") \o cs)) \o Tok(",")
      <4> DEFINE s == Tok("{")
                 t == Tok(" ")
                 v == Tok(",")
                 q == (s \o t) \o (cs \o v)
                 r == s \o (t \o cs)
      <4>1. IsBuffer(s) /\ IsBuffer(t) /\ IsBuffer(cs) /\ IsBuffer(v)
        BY <3>0
      <4> HIDE DEF s, t, v
      <4>2. q = (s \o t) \o (cs \o v) /\ r = s \o (t \o cs)
        OBVIOUS
      <4> HIDE DEF q, r
      <4>3. q = r \o v
        BY SMTT(40), <4>1, <4>2, ConcatFour
      <4> QED BY <4>3 DEF q, r, s, t, v
    <3>2. Rewind((Tok("{") \o (Tok(" ") \o cs)) \o Tok(",")) = Tok("{") \o (Tok(" ") \o cs)
      <4> DEFINE q == Tok("{") \o (Tok(" ") \o cs)
      <4>1. IsBuffer(q)
        BY <3>0, ConcatIsBuffer
      <4> HIDE DEF q
      <4>2. Tok(",") = <<[t |-> ",", v |-> << >>]>>
        BY DEF Tok
      <4>3. \A x : Rewind(q \o <<x>>) = q
        BY <4>1, RewindOne
      <4> QED BY <4>2, <4>3 DEF q
    <3> QED BY <1>2, <2>2, <3>1, <3>2
  <2> QED BY <2>1, <2>2
<1>7. IsBuffer(m)
  <2> HIDE DEF cs
  <2> QED BY <1>4, <1>5, ConcatIsBuffer
<1>8. ASSUME NEW base, IsBuffer(base)
      PROVE  \E h : /\ Runs(m, Append(base, Frame(T, Zero(T), "want_key")), Append(base, h))
                    /\ h.state \in {"want_key", "after_value"} /\ h.obj = mj
  <2> DEFINE a == Append(base, Frame(T, Zero(T), "want_key"))
  <2>1. PICK h : /\ Runs(cs, a, Append(base, h))
                 /\ h.state \in {"want_key", "after_value"} /\ h.obj = mj
    BY CommasRun, <1>8
  <2> HIDE DEF a, cs
  <2>2. CASE fs = << >>
    <3>1. Commas(Bufs(fs)) = << >>
      <4>1. DOMAIN fs = {}
        BY <2>2
      <4>2. Bufs(fs) = << >>
        BY <4>1 DEF Bufs
      <4> QED BY <4>2 DEF Commas, FlattenSeq
    <3> QED BY <2>1, <2>2, <3>1 DEF a, cs
  <2>3. CASE fs # << >>
    <3>1. Runs(Tok(" ") \o cs, a, Append(base, h))
      BY <2>1, BlankRuns, RunsOn
    <3> QED BY <2>1, <2>3, <3>1 DEF a
  <2> QED BY <2>2, <2>3
<1>9. Padded(fs) = (Tok("{") \o m) \o Tok("}")
  BY <1>3, <1>6
<1> HIDE DEF m
<1> QED BY <1>7, <1>8, <1>9 DEF Encodes

-----------------------------------------------------------------------------
(***************************************************************************)
(* The fields as the encoders build them, each with the value that is      *)
(* read.                                                                   *)
(***************************************************************************)

\* fd is a field that the encoder writes to its end: that of key k.
Written(fd, T, mj, k) == IsBuffer(fd.buf) /\ ~fd.stop /\ Writes(fd.buf, T, mj, k)

\* An optional field that is left out keeps its zero value.
LEMMA ListsNone ==
  ASSUME NEW T, NEW mj, NEW k, mj[k] = ZeroOf(Fields[T][k])
  PROVE  Lists(<< >>, T, mj, {k})
<1>1. IsBuffer(<< >>) /\ DOMAIN << >> = {}
  BY TokensAreBuffers
<1> DEFINE ks == [i \in {} |-> k]
<1>2. /\ \A i \in DOMAIN << >> : ks[i] \in {k} /\ Writes(<< >>[i].buf, T, mj, ks[i])
      /\ \A i, j \in DOMAIN << >> : ks[i] = ks[j] => i = j
      /\ \A q \in {k} : (\A i \in DOMAIN << >> : ks[i] # q) => mj[q] = ZeroOf(Fields[T][q])
  BY <1>1
<1> HIDE DEF ks
<1> QED BY <1>1, <1>2 DEF Lists

\* A field that is written.
LEMMA ListsOne ==
  ASSUME NEW T, NEW mj, NEW k, NEW fd, Written(fd, T, mj, k)
  PROVE  Lists(<<fd>>, T, mj, {k})
<1>1. IsBuffer(<<fd>>) /\ DOMAIN <<fd>> = {1} /\ <<fd>>[1] = fd
  BY TokensAreBuffers
<1> DEFINE ks == [i \in {1} |-> k]
<1>2. ks[1] = k
  OBVIOUS
<1> HIDE DEF ks
<1>3. /\ \A i \in DOMAIN <<fd>> : ks[i] \in {k} /\ Writes(<<fd>>[i].buf, T, mj, ks[i])
      /\ \A i, j \in DOMAIN <<fd>> : ks[i] = ks[j] => i = j
      /\ \A q \in {k} : (\A i \in DOMAIN <<fd>> : ks[i] # q) => mj[q] = ZeroOf(Fields[T][q])
  BY <1>1, <1>2 DEF Written
<1>4. \A i \in DOMAIN <<fd>> : IsBuffer(<<fd>>[i].buf) /\ ~(<<fd>>[i].stop)
  BY <1>1 DEF Written
<1> QED BY <1>1, <1>3, <1>4 DEF Lists

\* A field that may be left out.
LEMMA ListsUnless ==
  ASSUME NEW T, NEW mj, NEW k, NEW fd, NEW empty \in BOOLEAN,
         empty => mj[k] = ZeroOf(Fields[T][k]), ~empty => Written(fd, T, mj, k)
  PROVE  Lists(Unless(empty, fd), T, mj, {k})
BY ListsNone, ListsOne DEF Unless

\* The fields of two lists.
LEMMA ListsConcat ==
  ASSUME NEW T, NEW mj, NEW s, NEW t, NEW A, NEW B,
         Lists(s, T, mj, A), Lists(t, T, mj, B), A \cap B = {}
  PROVE  Lists(s \o t, T, mj, A \cup B)
<1>1. PICK ks : /\ \A i \in DOMAIN s : ks[i] \in A /\ Writes(s[i].buf, T, mj, ks[i])
                /\ \A i, j \in DOMAIN s : ks[i] = ks[j] => i = j
                /\ \A k \in A : (\A i \in DOMAIN s : ks[i] # k) => mj[k] = ZeroOf(Fields[T][k])
  BY DEF Lists
<1>2. PICK ls : /\ \A i \in DOMAIN t : ls[i] \in B /\ Writes(t[i].buf, T, mj, ls[i])
                /\ \A i, j \in DOMAIN t : ls[i] = ls[j] => i = j
                /\ \A k \in B : (\A i \in DOMAIN t : ls[i] # k) => mj[k] = ZeroOf(Fields[T][k])
  BY DEF Lists
<1> DEFINE m == Len(s)
           n == Len(t)
           u == s \o t
           hs == [i \in 1..(m + n) |-> IF i \in DOMAIN s THEN ks[i] ELSE ls[i - m]]
<1>3. /\ m \in Nat /\ n \in Nat /\ DOMAIN s = 1..m /\ DOMAIN t = 1..n /\ DOMAIN u = 1..(m + n)
      /\ \A i \in 1..m : u[i] = s[i]
      /\ \A i \in (m + 1)..(m + n) : u[i] = t[i - m]
  <2>1. PICK S : s \in Seq(S)
    BY DEF Lists, IsBuffer
  <2>2. PICK R : t \in Seq(R)
    BY DEF Lists, IsBuffer
  <2> QED BY <2>1, <2>2
<1>4. IsBuffer(u)
  BY ConcatIsBuffer DEF Lists
<1> HIDE DEF m, n, u
<1>5. ASSUME NEW i \in DOMAIN u
      PROVE  \/ i \in DOMAIN s /\ u[i] = s[i] /\ hs[i] = ks[i]
             \/ /\ i \notin DOMAIN s /\ i - m \in DOMAIN t /\ u[i] = t[i - m]
                /\ hs[i] = ls[i - m] /\ i = m + (i - m)
  <2>1. CASE i <= m
    BY <1>3, <2>1
  <2>2. CASE i > m
    BY <1>3, <2>2
  <2> QED BY <1>3, <2>1, <2>2
<1>6. /\ \A i \in DOMAIN s : i \in DOMAIN u /\ hs[i] = ks[i]
      /\ \A j \in DOMAIN t : m + j \in DOMAIN u /\ hs[m + j] = ls[j]
  <2>1. ASSUME NEW i \in DOMAIN s PROVE i \in DOMAIN u /\ hs[i] = ks[i]
    BY <1>3
  <2>2. ASSUME NEW j \in DOMAIN t PROVE m + j \in DOMAIN u /\ hs[m + j] = ls[j]
    <3>1. m + j \in DOMAIN u /\ (m + j) \notin DOMAIN s /\ (m + j) - m = j
      BY <1>3
    <3> QED BY <1>3, <3>1
  <2> QED BY <2>1, <2>2
<1> HIDE DEF hs
<1>7. ASSUME NEW i \in DOMAIN u
      PROVE  /\ IsBuffer(u[i].buf) /\ ~u[i].stop
             /\ hs[i] \in A \cup B /\ Writes(u[i].buf, T, mj, hs[i])
  <2>1. CASE i \in DOMAIN s /\ u[i] = s[i] /\ hs[i] = ks[i]
    BY <1>1, <2>1 DEF Lists
  <2>2. CASE i - m \in DOMAIN t /\ u[i] = t[i - m] /\ hs[i] = ls[i - m]
    BY <1>2, <2>2 DEF Lists
  <2> QED BY <1>5, <2>1, <2>2
<1>8. ASSUME NEW i \in DOMAIN u, NEW j \in DOMAIN u, hs[i] = hs[j]
      PROVE  i = j
  <2>1. CASE i \in DOMAIN s /\ j \in DOMAIN s
    BY <1>1, <1>5, <1>8, <2>1
  <2>2. CASE i \notin DOMAIN s /\ j \notin DOMAIN s
    <3>1. i - m = j - m
      BY <1>2, <1>5, <1>8, <2>2
    <3>2. i = m + (i - m) /\ j = m + (j - m)
      BY <1>5, <2>2
    <3> QED BY <3>1, <3>2
  <2>3. CASE ~(i \in DOMAIN s <=> j \in DOMAIN s)
    BY <1>1, <1>2, <1>5, <1>8, <2>3
  <2> QED BY <2>1, <2>2, <2>3
<1>9. ASSUME NEW k \in A \cup B, \A i \in DOMAIN u : hs[i] # k
      PROVE  mj[k] = ZeroOf(Fields[T][k])
  <2>1. CASE k \in A
    BY <1>1, <1>6, <1>9, <2>1
  <2>2. CASE k \in B
    BY <1>2, <1>6, <1>9, <2>2
  <2> QED BY <2>1, <2>2
<1>10. Lists(u, T, mj, A \cup B)
  BY <1>4, <1>7, <1>8, <1>9 DEF Lists
<1> QED BY <1>10 DEF u

\* From the value of a field to the field.
LEMMA FieldWritten ==
  ASSUME NEW T \in Structs, NEW k \in Keys(T), NEW mj, NEW buf,
         IsBuffer(buf), Takes(buf, T, mj, k)
  PROVE  Written(Field(k, buf), T, mj, k)
<1>1. IsField(Field(k, buf))
  BY FieldsAreFields
<1> QED BY <1>1, FieldWrites DEF Written, IsField, Field

\* A string or a number.
LEMMA ScalarWritten ==
  ASSUME NEW T \in Structs, NEW k \in Keys(T), NEW mj
  PROVE  /\ Fields[T][k].kind = "string" => Written(Str(k, mj[k]), T, mj, k)
         /\ Fields[T][k].kind = "int" => Written(Num(k, mj[k]), T, mj, k)
         /\ Fields[T][k].kind \in {"ptr", "ptrs", "strings", "map"} /\ mj[k] = Nil =>
              Written(Field(k, Null), T, mj, k)
<1>1. IsBuffer(WriteString(mj[k])) /\ IsBuffer(FormatBits(mj[k])) /\ IsBuffer(Null)
  BY TokensAreBuffers
<1> QED BY <1>1, ScalarTakes, FieldWritten DEF Str, Num

\* What the encoder of a struct writes is a sequence of tokens.
LEMMA EncodedIsBuffer == ASSUME NEW w, NEW T, NEW mj, Encodes(w, T, mj) PROVE IsBuffer(w)
<1>1. PICK m : w = (Tok("{") \o m) \o Tok("}") /\ IsBuffer(m)
  BY DEF Encodes
<1>2. IsBuffer(Tok("{") \o m) /\ IsBuffer(Tok("}"))
  BY <1>1, TokensAreBuffers, ConcatIsBuffer
<1> QED BY <1>1, <1>2, ConcatIsBuffer

\* A struct behind a pointer.
LEMMA StructWritten ==
  ASSUME NEW T \in Structs, NEW k \in Keys(T), NEW mj, NEW w,
         Fields[T][k].kind = "ptr", Encodes(w, Fields[T][k].of, mj[k])
  PROVE  Written(Field(k, w), T, mj, k)
BY StructTakes, EncodedIsBuffer, FieldWritten

\* A slice of n elements between its brackets.
LEMMA SliceWritten ==
  ASSUME NEW T \in Structs, NEW k \in Keys(T), NEW mj, NEW bufs,
         Fields[T][k].kind \in {"ptrs", "strings"}, mj[k] # Nil,
         IsBuffer(mj[k]), DOMAIN bufs = DOMAIN mj[k], bufs = [i \in DOMAIN bufs |-> bufs[i]],
         \A i \in DOMAIN bufs : IsBuffer(bufs[i]) /\ Adds(bufs[i], T, k, mj[k][i])
  PROVE  Written(Field(k, Tok("[") \o Commas(bufs) \o Tok("]")), T, mj, k)
<1>1. IsBuffer(bufs)
  BY SameIndicesIsBuffer
<1>2. IsBuffer(Commas(bufs)) /\ IsBuffer(Tok("[")) /\ IsBuffer(Tok("]"))
  BY <1>1, CommasIsBuffer, TokensAreBuffers
<1> DEFINE v == Tok("[") \o Commas(bufs)
<1>3. IsBuffer(v)
  BY <1>2, ConcatIsBuffer
<1>4. Takes(v \o Tok("]"), T, mj, k)
  BY <1>1, SliceTakes
<1> HIDE DEF v
<1>5. IsBuffer(v \o Tok("]"))
  BY <1>2, <1>3, ConcatIsBuffer
<1>6. Written(Field(k, v \o Tok("]")), T, mj, k)
  BY <1>4, <1>5, FieldWritten
<1> QED BY <1>6 DEF v

\* A slice of strings, nil or not.
LEMMA StringSliceWritten ==
  ASSUME NEW T \in Structs, NEW k \in Keys(T), NEW mj,
         Fields[T][k].kind = "strings", mj[k] = Nil \/ IsBuffer(mj[k])
  PROVE  Written(StringSlice(k, mj[k]), T, mj, k)
<1>1. CASE mj[k] = Nil
  BY <1>1, ScalarWritten DEF StringSlice
<1>2. CASE mj[k] # Nil
  <2> DEFINE bufs == [i \in DOMAIN mj[k] |-> WriteString(mj[k][i])]
  <2>1. DOMAIN bufs = DOMAIN mj[k] /\ bufs = [i \in DOMAIN bufs |-> bufs[i]]
    OBVIOUS
  <2>2. \A i \in DOMAIN bufs : IsBuffer(bufs[i]) /\ Adds(bufs[i], T, k, mj[k][i])
    BY TokensAreBuffers, StringAdds
  <2>3. StringSlice(k, mj[k]) = Field(k, Tok("[") \o Commas(bufs) \o Tok("]"))
    BY <1>2 DEF StringSlice
  <2> HIDE DEF bufs
  <2>4. Written(Field(k, Tok("[") \o Commas(bufs) \o Tok("]")), T, mj, k)
    BY <1>2, <2>1, <2>2, SliceWritten
  <2> QED BY <2>3, <2>4
<1> QED BY <1>1, <1>2

\* A slice of structs, nil or not.
LEMMA StructSliceWritten ==
  ASSUME NEW T \in Structs, NEW k \in Keys(T), NEW mj, NEW bufs, Fields[T][k].kind = "ptrs",
         mj[k] = Nil \/ /\ IsBuffer(mj[k]) /\ DOMAIN bufs = DOMAIN mj[k]
                        /\ bufs = [i \in DOMAIN bufs |-> bufs[i]]
                        /\ \A i \in DOMAIN bufs : /\ mj[k][i] # Nil
                                                  /\ Encodes(bufs[i], Fields[T][k].of, mj[k][i])
  PROVE  Written(StructSlice(k, mj[k], bufs), T, mj, k)
<1>1. CASE mj[k] = Nil
  BY <1>1, ScalarWritten DEF StructSlice
<1>2. CASE mj[k] # Nil
  <2> DEFINE s == mj[k]
             e == [i \in 1..Len(s) |-> IF s[i] = Nil THEN Null ELSE bufs[i]]
             nils == {i \in DOMAIN s : s[i] = Nil}
             b == (Tok("[") \o Commas(bufs)) \o Tok("]")
  <2>1. nils = {} /\ DOMAIN s = 1..Len(s)
    BY <1>2 DEF IsBuffer
  <2>2. e = bufs
    BY <1>2, <2>1
  <2>3. StructSlice(k, s, bufs) = [Field(k, b) EXCEPT !.stop = nils # {}]
    BY <1>2, <2>1, <2>2 DEF StructSlice
  <2> HIDE DEF nils, b
  <2>4. StructSlice(k, s, bufs).buf = Field(k, b).buf /\ ~StructSlice(k, s, bufs).stop
    BY <2>1, <2>3 DEF Field
  <2>5. \A i \in DOMAIN bufs : IsBuffer(bufs[i]) /\ Adds(bufs[i], T, k, mj[k][i])
    BY <1>2, EncodedIsBuffer, StructAdds
  <2>6. Written(Field(k, b), T, mj, k)
    BY <1>2, <2>5, SliceWritten DEF b
  <2> QED BY <2>4, <2>6 DEF Written
<1> QED BY <1>1, <1>2

\* The tags that the handlers write: none.
NoTags(v) == v = << >> /\ << >> # Nil

\* The tags that the handler writes: an empty map.
LEMMA NoTagsText ==
  ASSUME NEW k, << >> # Nil
  PROVE  StringMap(k, << >>) = Field(k, Tok("{") \o Tok("}"))
<1> DEFINE q  == SetToSeq(DOMAIN << >>)
           ss == [i \in DOMAIN q |->
                    WriteString(q[i]) \o Tok(":") \o WriteString(<< >>[q[i]]) \o Tok(",")]
           w  == Tok("{") \o Tok("}")
<1>1. DOMAIN q = {}
  <2>1. Cardinality({}) = 0
    BY FS_EmptySet
  <2>2. << >> \in [1..0 -> {}] /\ \A f \in [1..0 -> {}] : DOMAIN f = {}
    OBVIOUS
  <2>3. q \in [1..0 -> {}]
    BY <2>1, <2>2 DEF SetToSeq, IsInjective
  <2> QED BY <2>2, <2>3
<1> HIDE DEF q
<1>2. FlattenSeq(ss) = << >>
  <2>1. ss = << >>
    BY <1>1
  <2> HIDE DEF ss
  <2> QED BY <2>1 DEF FlattenSeq
<1>3. StringMap(k, << >>) = Field(k, Rewind((Tok("{") \o Tok(" ")) \o FlattenSeq(ss)) \o Tok("}"))
  BY DEF StringMap, ss, q
<1> HIDE DEF ss
<1>4. IsBuffer(Tok("{")) /\ IsBuffer(Tok("{") \o Tok(" "))
  BY TokensAreBuffers, ConcatIsBuffer
<1>5. Rewind((Tok("{") \o Tok(" ")) \o << >>) = Tok("{")
  <2>1. (Tok("{") \o Tok(" ")) \o << >> = Tok("{") \o Tok(" ")
    BY <1>4, ConcatNothing
  <2>2. Rewind(Tok("{") \o Tok(" ")) = Tok("{")
    BY <1>4, RewindOne DEF Tok
  <2> QED BY <2>1, <2>2
<1> QED BY <1>2, <1>3, <1>5

\* The tags: an empty map, between its brackets.
LEMMA NoTagsWritten ==
  ASSUME NEW T \in Structs, NEW k \in Keys(T), NEW mj,
         Fields[T][k].kind = "map", NoTags(mj[k])
  PROVE  Written(StringMap(k, mj[k]), T, mj, k)
<1> DEFINE w == Tok("{") \o Tok("}")
<1>1. IsBuffer(w)
  BY TokensAreBuffers, ConcatIsBuffer
<1>2. StringMap(k, << >>) = Field(k, w)
  BY NoTagsText DEF NoTags
<1>3. Takes(w, T, mj, k)
  <2> SUFFICES ASSUME NEW base, NEW K, NEW wv, IsBuffer(base), k \notin K
               PROVE  Runs(w, Append(base, At(T, Part(T, mj, K), "want_value", k, wv)),
                        Append(base, At(T, Part(T, mj, K \cup {k}), "after_value", k, Yes)))
    BY DEF Takes
  <2> DEFINE o == Part(T, mj, K)
             f == At(T, o, "want_value", k, wv)
             v == mj[k]
             g == At(T, Filled(o, k, v), "pairs", k, Yes)
             h == At(T, Part(T, mj, K \cup {k}), "after_value", k, Yes)
  <2>1. f.state = "want_value" /\ KindOf(f) = "map" /\ g.state = "pairs"
    BY AtFacts, AtKind
  <2>2. g = Opened(f, "pairs")
    <3>1. v = << >>
      BY DEF NoTags
    <3>2. Opened(f, "pairs") = At(T, Filled(o, k, << >>), "pairs", k, Yes)
      BY AtChanges
    <3> QED BY <3>1, <3>2
  <2>3. Filled(o, k, v) = Part(T, mj, K \cup {k})
    BY PartGrows
  <2>4. h = Gone(g, "after_value")
    <3> HIDE DEF v
    <3> QED BY <2>3, AtChanges
  <2> HIDE DEF f, g, h
  <2>5. Turns(f, [t |-> "{", v |-> << >>], g)
    BY <2>1, <2>2 DEF Turns, TurnsIn
  <2>6. Turns(g, [t |-> "}", v |-> << >>], h)
    BY <2>1, <2>4 DEF Turns, TurnsIn
  <2>7. Runs(Tok("{"), Append(base, f), Append(base, g))
    BY <2>5, TurnRuns DEF Tok
  <2>8. Runs(Tok("}"), Append(base, g), Append(base, h))
    BY <2>6, TurnRuns DEF Tok
  <2>9. Runs(w, Append(base, f), Append(base, h))
    BY <2>7, <2>8, RunsOn
  <2> QED BY <2>9 DEF f, h
<1> HIDE DEF w
<1>4. mj[k] = << >>
  BY DEF NoTags
<1> QED BY <1>1, <1>2, <1>3, <1>4, FieldWritten

\* Lists of up to seven fields, one field at a time.
LEMMA ListsMore ==
  ASSUME NEW T, NEW mj, NEW fs, NEW S, Lists(fs, T, mj, S),
         NEW fd, NEW k, k \notin S, Written(fd, T, mj, k),
         NEW gs, gs = Append(fs, fd), NEW R, R = S \cup {k}
  PROVE  Lists(gs, T, mj, R)
<1>1. Lists(<<fd>>, T, mj, {k})
  BY ListsOne
<1>2. Lists(fs \o <<fd>>, T, mj, S \cup {k})
  BY <1>1, ListsConcat
<1>3. fs \o <<fd>> = Append(fs, fd)
  BY DEF Lists, IsBuffer
<1> QED BY <1>2, <1>3

\* A tuple is the shorter one with an element more.
LEMMA Tuples ==
  ASSUME NEW a, NEW b, NEW c, NEW d, NEW e, NEW f, NEW g
  PROVE  /\ <<a, b>> = Append(<<a>>, b)
         /\ <<a, b, c>> = Append(<<a, b>>, c)
         /\ <<a, b, c, d>> = Append(<<a, b, c>>, d)
         /\ <<a, b, c, d, e>> = Append(<<a, b, c, d>>, e)
         /\ <<a, b, c, d, e, f>> = Append(<<a, b, c, d, e>>, f)
         /\ <<a, b, c, d, e, f, g>> = Append(<<a, b, c, d, e, f>>, g)
<1>1. <<a, b>> = Append(<<a>>, b)
  OBVIOUS
<1>2. <<a, b, c>> = Append(<<a, b>>, c)
  OBVIOUS
<1>3. <<a, b, c, d>> = Append(<<a, b, c>>, d)
  OBVIOUS
<1>4. <<a, b, c, d, e>> = Append(<<a, b, c, d>>, e)
  OBVIOUS
<1>5. <<a, b, c, d, e, f>> = Append(<<a, b, c, d, e>>, f)
  OBVIOUS
<1>6. <<a, b, c, d, e, f, g>> = Append(<<a, b, c, d, e, f>>, g)
  OBVIOUS
<1> QED BY <1>1, <1>2, <1>3, <1>4, <1>5, <1>6

LEMMA ListsTwo ==
  ASSUME NEW T, NEW mj, NEW a, NEW b,
         NEW p, NEW q,
         Written(a, T, mj, p), Written(b, T, mj, q),
         q \notin {p}
  PROVE  Lists(<<a, b>>, T, mj, {p, q})
<1>1. Lists(<<a>>, T, mj, {p})
  BY ListsOne
<1>2. <<a, b>> = Append(<<a>>, b) /\ {p, q} = {p} \cup {q}
  BY Tuples
<1> QED BY <1>1, <1>2, ListsMore

LEMMA ListsThree ==
  ASSUME NEW T, NEW mj, NEW a, NEW b, NEW c,
         NEW p, NEW q, NEW r,
         Written(a, T, mj, p), Written(b, T, mj, q), Written(c, T, mj, r),
         q \notin {p}, r \notin {p, q}
  PROVE  Lists(<<a, b, c>>, T, mj, {p, q, r})
<1>1. Lists(<<a, b>>, T, mj, {p, q})
  BY ListsTwo
<1>2. <<a, b, c>> = Append(<<a, b>>, c) /\ {p, q, r} = {p, q} \cup {r}
  BY Tuples
<1> QED BY <1>1, <1>2, ListsMore

LEMMA ListsFour ==
  ASSUME NEW T, NEW mj, NEW a, NEW b, NEW c, NEW d,
         NEW p, NEW q, NEW r, NEW s,
         Written(a, T, mj, p), Written(b, T, mj, q), Written(c, T, mj, r),
         Written(d, T, mj, s),
         q \notin {p}, r \notin {p, q}, s \notin {p, q, r}
  PROVE  Lists(<<a, b, c, d>>, T, mj, {p, q, r, s})
<1>1. Lists(<<a, b, c>>, T, mj, {p, q, r})
  BY ListsThree
<1>2. <<a, b, c, d>> = Append(<<a, b, c>>, d) /\ {p, q, r, s} = {p, q, r} \cup {s}
  BY Tuples
<1> QED BY <1>1, <1>2, ListsMore

LEMMA ListsFive ==
  ASSUME NEW T, NEW mj, NEW a, NEW b, NEW c, NEW d, NEW e,
         NEW p, NEW q, NEW r, NEW s, NEW t,
         Written(a, T, mj, p), Written(b, T, mj, q), Written(c, T, mj, r),
         Written(d, T, mj, s), Written(e, T, mj, t),
         q \notin {p}, r \notin {p, q}, s \notin {p, q, r},
         t \notin {p, q, r, s}
  PROVE  Lists(<<a, b, c, d, e>>, T, mj, {p, q, r, s, t})
<1>1. Lists(<<a, b, c, d>>, T, mj, {p, q, r, s})
  BY ListsFour
<1>2. <<a, b, c, d, e>> = Append(<<a, b, c, d>>, e) /\ {p, q, r, s, t} = {p, q, r, s} \cup {t}
  BY Tuples
<1> QED BY <1>1, <1>2, ListsMore

LEMMA ListsSix ==
  ASSUME NEW T, NEW mj, NEW a, NEW b, NEW c, NEW d, NEW e, NEW f,
         NEW p, NEW q, NEW r, NEW s, NEW t, NEW u,
         Written(a, T, mj, p), Written(b, T, mj, q), Written(c, T, mj, r),
         Written(d, T, mj, s), Written(e, T, mj, t), Written(f, T, mj, u),
         q \notin {p}, r \notin {p, q}, s \notin {p, q, r},
         t \notin {p, q, r, s}, u \notin {p, q, r, s, t}
  PROVE  Lists(<<a, b, c, d, e, f>>, T, mj, {p, q, r, s, t, u})
<1>1. Lists(<<a, b, c, d, e>>, T, mj, {p, q, r, s, t})
  BY ListsFive
<1>2. /\ <<a, b, c, d, e, f>> = Append(<<a, b, c, d, e>>, f)
      /\ {p, q, r, s, t, u} = {p, q, r, s, t} \cup {u}
  BY Tuples
<1> QED BY <1>1, <1>2, ListsMore

LEMMA ListsSeven ==
  ASSUME NEW T, NEW mj, NEW a, NEW b, NEW c, NEW d, NEW e, NEW f, NEW g,
         NEW p, NEW q, NEW r, NEW s, NEW t, NEW u, NEW v,
         Written(a, T, mj, p), Written(b, T, mj, q), Written(c, T, mj, r),
         Written(d, T, mj, s), Written(e, T, mj, t), Written(f, T, mj, u),
         Written(g, T, mj, v),
         q \notin {p}, r \notin {p, q}, s \notin {p, q, r},
         t \notin {p, q, r, s}, u \notin {p, q, r, s, t}, v \notin {p, q, r, s, t, u}
  PROVE  Lists(<<a, b, c, d, e, f, g>>, T, mj, {p, q, r, s, t, u, v})
<1>1. Lists(<<a, b, c, d, e, f>>, T, mj, {p, q, r, s, t, u})
  BY ListsSix
<1>2. /\ <<a, b, c, d, e, f, g>> = Append(<<a, b, c, d, e, f>>, g)
      /\ {p, q, r, s, t, u, v} = {p, q, r, s, t, u} \cup {v}
  BY Tuples
<1> QED BY <1>1, <1>2, ListsMore

-----------------------------------------------------------------------------
(***************************************************************************)
(* Every encoder, with the table of its decoder: from the structs that     *)
(* have no other within them to those of the answers.                      *)
(***************************************************************************)

\* The tables, one struct at a time.
LEMMA EnvoyServiceTable ==
  LET T == "EnvoyService" IN
  /\ T \in Structs
  /\ Keys(T) = {"ip_address", "last_check_in", "port", "revision", "service",
                "service_repo_name", "tags"}
  /\ \A k \in {"ip_address", "last_check_in", "revision", "service", "service_repo_name"} :
       Fields[T][k].kind = "string"
  /\ Fields[T]["port"].kind = "int" /\ Fields[T]["tags"].kind = "map"
BY StructsAre DEF Keys, Fields, EnvoyServiceFields, String, Number, Map

\* The encoder of each struct, from those of the structs within it.
LEMMA EnvoyServiceEncodes ==
  ASSUME NEW mj, mj = [k \in Keys("EnvoyService") |-> mj[k]], mj.tags = << >>
  PROVE  Encodes(EnvoyServiceJSON(mj), "EnvoyService", mj)
<1> DEFINE T == "EnvoyService"
           a == Str("ip_address", mj.ip_address)
           b == Str("last_check_in", mj.last_check_in)
           c == Num("port", mj.port)
           d == Str("revision", mj.revision)
           e == Str("service", mj.service)
           f == Str("service_repo_name", mj.service_repo_name)
           g == StringMap("tags", mj.tags)
<1>1. /\ Written(a, T, mj, "ip_address") /\ Written(b, T, mj, "last_check_in")
      /\ Written(c, T, mj, "port") /\ Written(d, T, mj, "revision")
      /\ Written(e, T, mj, "service") /\ Written(f, T, mj, "service_repo_name")
  BY EnvoyServiceTable, ScalarWritten
<1>2. Written(g, T, mj, "tags")
  <2>1. CASE << >> = Nil
    <3>1. g = Field("tags", Null)
      BY <2>1 DEF StringMap
    <3> QED BY <2>1, <3>1, EnvoyServiceTable, ScalarWritten
  <2>2. CASE << >> # Nil
    <3>1. NoTags(mj["tags"])
      BY <2>2 DEF NoTags
    <3> QED BY <3>1, EnvoyServiceTable, NoTagsWritten
  <2> QED BY <2>1, <2>2
<1> HIDE DEF a, b, c, d, e, f, g
<1>3. Lists(<<a, b, c, d, e, f, g>>, T, mj, Keys(T))
  BY <1>1, <1>2, ListsSeven, EnvoyServiceTable
<1> QED BY <1>3, PlainEncodes, EnvoyServiceTable DEF EnvoyServiceJSON, a, b, c, d, e, f, g

\* An object of struct T with a value in every field.
Whole(T, o) == o = [k \in Keys(T) |-> o[k]]

LEMMA EnvoyClusterTable ==
  LET T == "EnvoyCluster" IN
  /\ T \in Structs
  /\ Keys(T) = {"name", "type", "connect_timeout_ms", "lb_type", "service_name"}
  /\ \A k \in {"name", "type", "lb_type", "service_name"} : Fields[T][k].kind = "string"
  /\ Fields[T]["connect_timeout_ms"].kind = "int"
BY StructsAre DEF Keys, Fields, EnvoyClusterFields, String, Number

LEMMA EnvoyClusterEncodes ==
  ASSUME NEW mj, Whole("EnvoyCluster", mj)
  PROVE  Encodes(EnvoyClusterJSON(mj), "EnvoyCluster", mj)
<1> DEFINE T == "EnvoyCluster"
           a == Str("name", mj.name)
           b == Str("type", mj.type)
           c == Num("connect_timeout_ms", mj.connect_timeout_ms)
           d == Str("lb_type", mj.lb_type)
           e == Str("service_name", mj.service_name)
<1>1. /\ Written(a, T, mj, "name") /\ Written(b, T, mj, "type")
      /\ Written(c, T, mj, "connect_timeout_ms") /\ Written(d, T, mj, "lb_type")
      /\ Written(e, T, mj, "service_name")
  BY EnvoyClusterTable, ScalarWritten
<1> HIDE DEF a, b, c, d, e
<1>2. Lists(<<a, b, c, d, e>>, T, mj, Keys(T))
  BY <1>1, ListsFive, EnvoyClusterTable
<1> QED BY <1>2, PlainEncodes, EnvoyClusterTable DEF EnvoyClusterJSON, Whole, a, b, c, d, e

\* The text of an optional field: left out when it is empty, and read as empty then.
IsOptionalText(s) == s = << >> \/ s # Nil

\* An optional string.
LEMMA OptionalTextLists ==
  ASSUME NEW T \in Structs, NEW k \in Keys(T), NEW mj,
         Fields[T][k].kind = "string", IsOptionalText(mj[k])
  PROVE  Lists(Unless(Empty(mj[k]), Str(k, mj[k])), T, mj, {k})
<1>1. Empty(mj[k]) \in BOOLEAN /\ (Empty(mj[k]) => mj[k] = ZeroOf(Fields[T][k]))
  BY DEF Empty, IsOptionalText, ZeroOf
<1>2. Written(Str(k, mj[k]), T, mj, k)
  BY ScalarWritten
<1> QED BY <1>1, <1>2, ListsUnless

LEMMA DecoratorTable ==
  LET T == "EnvoyRouteDecorator" IN
  T \in Structs /\ Keys(T) = {"operation"} /\ Fields[T]["operation"].kind = "string"
BY StructsAre DEF Keys, Fields, EnvoyRouteDecoratorFields, String

LEMMA EnvoyRouteDecoratorEncodes ==
  ASSUME NEW mj, Whole("EnvoyRouteDecorator", mj), IsOptionalText(mj.operation)
  PROVE  Encodes(EnvoyRouteDecoratorJSON(mj), "EnvoyRouteDecorator", mj)
<1> DEFINE T == "EnvoyRouteDecorator"
           u == Unless(Empty(mj.operation), Str("operation", mj.operation))
<1>1. Lists(u, T, mj, Keys(T))
  <2>1. Lists(Unless(Empty(mj["operation"]), Str("operation", mj["operation"])), T, mj, {"operation"})
    BY DecoratorTable, OptionalTextLists
  <2> QED BY <2>1, DecoratorTable
<1> HIDE DEF u
<1> QED BY <1>1, PaddedEncodes, DecoratorTable DEF EnvoyRouteDecoratorJSON, Whole, u

LEMMA TracingTable ==
  LET T == "EnvoyTracingConfig" IN
  T \in Structs /\ Keys(T) = {"operation_name"} /\ Fields[T]["operation_name"].kind = "string"
BY StructsAre DEF Keys, Fields, EnvoyTracingConfigFields, String

LEMMA EnvoyTracingConfigEncodes ==
  ASSUME NEW mj, Whole("EnvoyTracingConfig", mj)
  PROVE  Encodes(EnvoyTracingConfigJSON(mj), "EnvoyTracingConfig", mj)
<1> DEFINE T == "EnvoyTracingConfig"
           a == Str("operation_name", mj.operation_name)
<1>1. Written(a, T, mj, "operation_name")
  BY TracingTable, ScalarWritten
<1> HIDE DEF a
<1>2. Lists(<<a>>, T, mj, Keys(T))
  BY <1>1, ListsOne, TracingTable
<1> QED BY <1>2, PlainEncodes, TracingTable DEF EnvoyTracingConfigJSON, Whole, a

\* A pointer: nil, or the object that w was written for.
IsPointer(p, w, T) == p = Nil \/ Encodes(w, T, p)

\* An optional pointer.
LEMMA OptionalPointerLists ==
  ASSUME NEW T \in Structs, NEW k \in Keys(T), NEW mj, NEW w,
         Fields[T][k].kind = "ptr", IsPointer(mj[k], w, Fields[T][k].of)
  PROVE  Lists(Unless(mj[k] = Nil, Field(k, w)), T, mj, {k})
<1>1. mj[k] = Nil => mj[k] = ZeroOf(Fields[T][k])
  BY DEF ZeroOf
<1>2. mj[k] # Nil => Written(Field(k, w), T, mj, k)
  BY StructWritten DEF IsPointer
<1> QED BY <1>1, <1>2, ListsUnless

\* Two lists, with the fields of both named.
LEMMA ListsTogether ==
  ASSUME NEW T, NEW mj, NEW s, NEW t, NEW A, NEW B, NEW C,
         Lists(s, T, mj, A), Lists(t, T, mj, B), A \cap B = {}, C = A \cup B
  PROVE  Lists(s \o t, T, mj, C)
BY ListsConcat

LEMMA RouteTable ==
  LET T == "EnvoyRoute" IN
  /\ T \in Structs /\ Keys(T) = {"timeout_ms", "prefix", "host_rewrite", "cluster", "decorator"}
  /\ \A k \in {"prefix", "host_rewrite", "cluster"} : Fields[T][k].kind = "string"
  /\ Fields[T]["timeout_ms"].kind = "int"
  /\ Fields[T]["decorator"] = Ptr("EnvoyRouteDecorator")
BY StructsAre DEF Keys, Fields, EnvoyRouteFields, String, Number, Ptr

LEMMA EnvoyRouteEncodes ==
  ASSUME NEW mj, Whole("EnvoyRoute", mj),
         IsPointer(mj.decorator, EnvoyRouteDecoratorJSON(mj.decorator), "EnvoyRouteDecorator")
  PROVE  Encodes(EnvoyRouteJSON(mj), "EnvoyRoute", mj)
<1> DEFINE T == "EnvoyRoute"
           a == Num("timeout_ms", mj.timeout_ms)
           b == Str("prefix", mj.prefix)
           c == Str("host_rewrite", mj.host_rewrite)
           d == Str("cluster", mj.cluster)
           w == EnvoyRouteDecoratorJSON(mj.decorator)
           u == Unless(mj.decorator = Nil, Field("decorator", w))
<1>1. /\ Written(a, T, mj, "timeout_ms") /\ Written(b, T, mj, "prefix")
      /\ Written(c, T, mj, "host_rewrite") /\ Written(d, T, mj, "cluster")
  BY RouteTable, ScalarWritten
<1>2. Lists(u, T, mj, {"decorator"})
  <2> HIDE DEF w
  <2>1. IsPointer(mj["decorator"], w, Fields[T]["decorator"].of)
    BY RouteTable DEF Ptr, w
  <2>2. Lists(Unless(mj["decorator"] = Nil, Field("decorator", w)), T, mj, {"decorator"})
    BY <2>1, RouteTable, OptionalPointerLists DEF Ptr
  <2> QED BY <2>2
<1> HIDE DEF a, b, c, d, u, w
<1>3. Lists(<<a, b, c, d>>, T, mj, {"timeout_ms", "prefix", "host_rewrite", "cluster"})
  BY <1>1, ListsFour
<1>4. Lists(<<a, b, c, d>> \o u, T, mj, Keys(T))
  BY <1>2, <1>3, ListsTogether, RouteTable
<1> QED BY <1>4, PaddedEncodes, RouteTable DEF EnvoyRouteJSON, Whole, a, b, c, d, u, w

\* An optional slice: nil, or not empty.
IsOptional(s) == s = Nil \/ (IsBuffer(s) /\ s # << >>)

\* An optional slice of strings.
LEMMA OptionalSliceLists ==
  ASSUME NEW T \in Structs, NEW k \in Keys(T), NEW mj,
         Fields[T][k].kind = "strings", IsOptional(mj[k])
  PROVE  Lists(Unless(Empty(mj[k]), StringSlice(k, mj[k])), T, mj, {k})
<1>1. Empty(mj[k]) \in BOOLEAN /\ (Empty(mj[k]) => mj[k] = ZeroOf(Fields[T][k]))
  BY DEF Empty, IsOptional, ZeroOf
<1>2. Written(StringSlice(k, mj[k]), T, mj, k)
  BY StringSliceWritten DEF IsOptional
<1> QED BY <1>1, <1>2, ListsUnless

LEMMA TCPRouteTable ==
  LET T == "EnvoyTCPRoute" IN
  /\ T \in Structs
  /\ Keys(T) = {"cluster", "destination_ip_list", "destination_ports", "source_ip_list",
                "source_ports"}
  /\ \A k \in {"cluster", "destination_ports"} : Fields[T][k].kind = "string"
  /\ \A k \in {"destination_ip_list", "source_ip_list", "source_ports"} :
       Fields[T][k].kind = "strings"
BY StructsAre DEF Keys, Fields, EnvoyTCPRouteFields, String, Strings

LEMMA EnvoyTCPRouteEncodes ==
  ASSUME NEW mj, Whole("EnvoyTCPRoute", mj), IsOptionalText(mj.destination_ports),
         IsOptional(mj.destination_ip_list), IsOptional(mj.source_ip_list),
         IsOptional(mj.source_ports)
  PROVE  Encodes(EnvoyTCPRouteJSON(mj), "EnvoyTCPRoute", mj)
<1> DEFINE T == "EnvoyTCPRoute"
           S(k) == Unless(Empty(mj[k]), StringSlice(k, mj[k]))
           a == <<Str("cluster", mj.cluster)>>
           b == Unless(Empty(mj.destination_ip_list),
                       StringSlice("destination_ip_list", mj.destination_ip_list))
           c == Unless(Empty(mj.destination_ports),
                       Str("destination_ports", mj.destination_ports))
           d == Unless(Empty(mj.source_ip_list),
                       StringSlice("source_ip_list", mj.source_ip_list))
           e == Unless(Empty(mj.source_ports),
                       StringSlice("source_ports", mj.source_ports))
<1>1. Lists(a, T, mj, {"cluster"})
  <2>1. Written(Str("cluster", mj["cluster"]), T, mj, "cluster")
    BY TCPRouteTable, ScalarWritten
  <2> QED BY <2>1, ListsOne
<1>2. Lists(b, T, mj, {"destination_ip_list"})
  <2>1. Lists(S("destination_ip_list"), T, mj, {"destination_ip_list"})
    BY TCPRouteTable, OptionalSliceLists
  <2> QED BY <2>1
<1>3. Lists(c, T, mj, {"destination_ports"})
  <2>1. Lists(Unless(Empty(mj["destination_ports"]), Str("destination_ports", mj["destination_ports"])),
              T, mj, {"destination_ports"})
    BY TCPRouteTable, OptionalTextLists
  <2> QED BY <2>1
<1>4. Lists(d, T, mj, {"source_ip_list"})
  <2>1. Lists(S("source_ip_list"), T, mj, {"source_ip_list"})
    BY TCPRouteTable, OptionalSliceLists
  <2> QED BY <2>1
<1>5. Lists(e, T, mj, {"source_ports"})
  <2>1. Lists(S("source_ports"), T, mj, {"source_ports"})
    BY TCPRouteTable, OptionalSliceLists
  <2> QED BY <2>1
<1> HIDE DEF a, b, c, d, e
<1>6. Lists(a \o b, T, mj, {"cluster", "destination_ip_list"})
  BY <1>1, <1>2, ListsTogether
<1>7. Lists((a \o b) \o c, T, mj, {"cluster", "destination_ip_list", "destination_ports"})
  BY <1>3, <1>6, ListsTogether
<1>8. Lists(((a \o b) \o c) \o d, T, mj,
            {"cluster", "destination_ip_list", "destination_ports", "source_ip_list"})
  BY <1>4, <1>7, ListsTogether
<1>9. Lists((((a \o b) \o c) \o d) \o e, T, mj, Keys(T))
  BY <1>5, <1>8, ListsTogether, TCPRouteTable
<1> QED BY <1>9, PaddedEncodes, TCPRouteTable DEF EnvoyTCPRouteJSON, Whole, a, b, c, d, e

\* A slice of objects of T, and what their encoder writes for each.
IsSliceOf(s, bufs, T) ==
  s = Nil \/ /\ IsBuffer(s) /\ DOMAIN bufs = DOMAIN s /\ bufs = [i \in DOMAIN bufs |-> bufs[i]]
             /\ \A i \in DOMAIN bufs : s[i] # Nil /\ Encodes(bufs[i], T, s[i])

\* A slice of structs with what was written for each.
LEMMA ObjectsWritten ==
  ASSUME NEW T \in Structs, NEW k \in Keys(T), NEW mj, NEW bufs,
         Fields[T][k].kind = "ptrs", IsSliceOf(mj[k], bufs, Fields[T][k].of)
  PROVE  Written(StructSlice(k, mj[k], bufs), T, mj, k)
BY StructSliceWritten DEF IsSliceOf

\* The same, left out when it is empty.
LEMMA OptionalObjectsLists ==
  ASSUME NEW T \in Structs, NEW k \in Keys(T), NEW mj, NEW bufs,
         Fields[T][k].kind = "ptrs", IsSliceOf(mj[k], bufs, Fields[T][k].of), mj[k] = Nil \/ mj[k] # << >>
  PROVE  Lists(Unless(Empty(mj[k]), StructSlice(k, mj[k], bufs)), T, mj, {k})
<1>1. Empty(mj[k]) \in BOOLEAN /\ (Empty(mj[k]) => mj[k] = ZeroOf(Fields[T][k]))
  BY DEF Empty, ZeroOf
<1>2. Written(StructSlice(k, mj[k], bufs), T, mj, k)
  BY ObjectsWritten
<1> QED BY <1>1, <1>2, ListsUnless

LEMMA VirtualHostTable ==
  LET T == "EnvoyHTTPVirtualHost" IN
  /\ T \in Structs /\ Keys(T) = {"name", "domains", "routes"}
  /\ Fields[T]["name"].kind = "string" /\ Fields[T]["domains"].kind = "strings"
  /\ Fields[T]["routes"] = Ptrs("EnvoyRoute")
BY StructsAre DEF Keys, Fields, EnvoyHTTPVirtualHostFields, String, Strings, Ptrs

LEMMA EnvoyHTTPVirtualHostEncodes ==
  ASSUME NEW mj, Whole("EnvoyHTTPVirtualHost", mj), mj.domains = Nil \/ IsBuffer(mj.domains),
         IsSliceOf(mj.routes, [i \in DOMAIN mj.routes |-> EnvoyRouteJSON(mj.routes[i])], "EnvoyRoute")
  PROVE  Encodes(EnvoyHTTPVirtualHostJSON(mj), "EnvoyHTTPVirtualHost", mj)
<1> DEFINE T == "EnvoyHTTPVirtualHost"
           bufs == [i \in DOMAIN mj.routes |-> EnvoyRouteJSON(mj.routes[i])]
           a == Str("name", mj.name)
           b == StringSlice("domains", mj.domains)
           c == StructSlice("routes", mj.routes, bufs)
<1>1. Written(a, T, mj, "name") /\ Written(b, T, mj, "domains")
  BY VirtualHostTable, ScalarWritten, StringSliceWritten
<1>2. Written(c, T, mj, "routes")
  <2> HIDE DEF bufs
  <2>1. Fields[T]["routes"].kind = "ptrs" /\ Fields[T]["routes"].of = "EnvoyRoute"
    BY VirtualHostTable DEF Ptrs
  <2>2. IsSliceOf(mj["routes"], bufs, "EnvoyRoute")
    BY DEF bufs
  <2>3. Written(StructSlice("routes", mj["routes"], bufs), T, mj, "routes")
    BY <2>1, <2>2, VirtualHostTable, ObjectsWritten
  <2> QED BY <2>3
<1> HIDE DEF a, b, c
<1>3. Lists(<<a, b, c>>, T, mj, Keys(T))
  BY <1>1, <1>2, ListsThree, VirtualHostTable
<1> QED BY <1>3, PlainEncodes, VirtualHostTable DEF EnvoyHTTPVirtualHostJSON, Whole, a, b, c

LEMMA RouteConfigTable ==
  LET T == "EnvoyRouteConfig" IN
  /\ T \in Structs /\ Keys(T) = {"virtual_hosts", "routes"}
  /\ Fields[T]["virtual_hosts"] = Ptrs("EnvoyHTTPVirtualHost")
  /\ Fields[T]["routes"] = Ptrs("EnvoyTCPRoute")
BY StructsAre DEF Keys, Fields, EnvoyRouteConfigFields, Ptrs

LEMMA EnvoyRouteConfigEncodes ==
  ASSUME NEW mj, Whole("EnvoyRouteConfig", mj),
         mj.virtual_hosts = Nil \/ mj.virtual_hosts # << >>, mj.routes = Nil \/ mj.routes # << >>,
         IsSliceOf(mj.virtual_hosts, [i \in DOMAIN mj.virtual_hosts |->
                                        EnvoyHTTPVirtualHostJSON(mj.virtual_hosts[i])],
                   "EnvoyHTTPVirtualHost"),
         IsSliceOf(mj.routes, [i \in DOMAIN mj.routes |-> EnvoyTCPRouteJSON(mj.routes[i])],
                   "EnvoyTCPRoute")
  PROVE  Encodes(EnvoyRouteConfigJSON(mj), "EnvoyRouteConfig", mj)
<1> DEFINE T == "EnvoyRouteConfig"
           hb == [i \in DOMAIN mj.virtual_hosts |-> EnvoyHTTPVirtualHostJSON(mj.virtual_hosts[i])]
           rb == [i \in DOMAIN mj.routes |-> EnvoyTCPRouteJSON(mj.routes[i])]
           a == Unless(Empty(mj.virtual_hosts), StructSlice("virtual_hosts", mj.virtual_hosts, hb))
           b == Unless(Empty(mj.routes), StructSlice("routes", mj.routes, rb))
<1>1. Lists(a, T, mj, {"virtual_hosts"})
  <2> HIDE DEF hb
  <2>1. Fields[T]["virtual_hosts"].kind = "ptrs" /\ Fields[T]["virtual_hosts"].of = "EnvoyHTTPVirtualHost"
    BY RouteConfigTable DEF Ptrs
  <2>2. IsSliceOf(mj["virtual_hosts"], hb, "EnvoyHTTPVirtualHost")
    BY DEF hb
  <2>3. Lists(Unless(Empty(mj["virtual_hosts"]), StructSlice("virtual_hosts", mj["virtual_hosts"], hb)),
              T, mj, {"virtual_hosts"})
    BY <2>1, <2>2, RouteConfigTable, OptionalObjectsLists
  <2> QED BY <2>3
<1>2. Lists(b, T, mj, {"routes"})
  <2> HIDE DEF rb
  <2>1. Fields[T]["routes"].kind = "ptrs" /\ Fields[T]["routes"].of = "EnvoyTCPRoute"
    BY RouteConfigTable DEF Ptrs
  <2>2. IsSliceOf(mj["routes"], rb, "EnvoyTCPRoute")
    BY DEF rb
  <2>3. Lists(Unless(Empty(mj["routes"]), StructSlice("routes", mj["routes"], rb)), T, mj, {"routes"})
    BY <2>1, <2>2, RouteConfigTable, OptionalObjectsLists
  <2> QED BY <2>3
<1> HIDE DEF a, b
<1>3. Lists(a \o b, T, mj, Keys(T))
  BY <1>1, <1>2, ListsTogether, RouteConfigTable
<1> QED BY <1>3, PaddedEncodes, RouteConfigTable DEF EnvoyRouteConfigJSON, Whole, a, b

LEMMA FilterConfigTable ==
  LET T == "EnvoyFilterConfig" IN
  /\ T \in Structs
  /\ Keys(T) = {"codec_type", "stat_prefix", "filters", "route_config", "tracing"}
  /\ \A k \in {"codec_type", "stat_prefix"} : Fields[T][k].kind = "string"
  /\ Fields[T]["filters"] = Ptrs("EnvoyFilter")
  /\ Fields[T]["route_config"] = Ptr("EnvoyRouteConfig")
  /\ Fields[T]["tracing"] = Ptr("EnvoyTracingConfig")
BY StructsAre DEF Keys, Fields, EnvoyFilterConfigFields, String, Ptr, Ptrs

LEMMA EnvoyFilterConfigEncodes ==
  ASSUME NEW mj, NEW inner, Whole("EnvoyFilterConfig", mj),
         IsOptionalText(mj.codec_type), IsOptionalText(mj.stat_prefix),
         IsPointer(mj.route_config, EnvoyRouteConfigJSON(mj.route_config), "EnvoyRouteConfig"),
         IsPointer(mj.tracing, EnvoyTracingConfigJSON(mj.tracing), "EnvoyTracingConfig"),
         mj.filters = Nil \/ mj.filters # << >>, IsSliceOf(mj.filters, inner, "EnvoyFilter")
  PROVE  Encodes(EnvoyFilterConfigJSON(mj, inner), "EnvoyFilterConfig", mj)
<1> DEFINE T  == "EnvoyFilterConfig"
           rw == EnvoyRouteConfigJSON(mj.route_config)
           tw == EnvoyTracingConfigJSON(mj.tracing)
           a  == Unless(Empty(mj.codec_type), Str("codec_type", mj.codec_type))
           b  == Unless(Empty(mj.stat_prefix), Str("stat_prefix", mj.stat_prefix))
           c  == Unless(mj.route_config = Nil, Field("route_config", rw))
           d  == Unless(Empty(mj.filters), StructSlice("filters", mj.filters, inner))
           e  == Unless(mj.tracing = Nil, Field("tracing", tw))
<1>1. Lists(a, T, mj, {"codec_type"})
  <2>1. Lists(Unless(Empty(mj["codec_type"]), Str("codec_type", mj["codec_type"])),
              T, mj, {"codec_type"})
    BY FilterConfigTable, OptionalTextLists
  <2> QED BY <2>1
<1>2. Lists(b, T, mj, {"stat_prefix"})
  <2>1. Lists(Unless(Empty(mj["stat_prefix"]), Str("stat_prefix", mj["stat_prefix"])),
              T, mj, {"stat_prefix"})
    BY FilterConfigTable, OptionalTextLists
  <2> QED BY <2>1
<1>3. Lists(c, T, mj, {"route_config"})
  <2> HIDE DEF rw
  <2>1. Fields[T]["route_config"].kind = "ptr" /\ Fields[T]["route_config"].of = "EnvoyRouteConfig"
    BY FilterConfigTable DEF Ptr
  <2>2. IsPointer(mj["route_config"], rw, "EnvoyRouteConfig")
    BY DEF rw
  <2>3. Lists(Unless(mj["route_config"] = Nil, Field("route_config", rw)), T, mj, {"route_config"})
    BY <2>1, <2>2, FilterConfigTable, OptionalPointerLists
  <2> QED BY <2>3
<1>4. Lists(d, T, mj, {"filters"})
  <2>1. Fields[T]["filters"].kind = "ptrs" /\ Fields[T]["filters"].of = "EnvoyFilter"
    BY FilterConfigTable DEF Ptrs
  <2>2. Lists(Unless(Empty(mj["filters"]), StructSlice("filters", mj["filters"], inner)),
              T, mj, {"filters"})
    BY <2>1, FilterConfigTable, OptionalObjectsLists
  <2> QED BY <2>2
<1>5. Lists(e, T, mj, {"tracing"})
  <2> HIDE DEF tw
  <2>1. Fields[T]["tracing"].kind = "ptr" /\ Fields[T]["tracing"].of = "EnvoyTracingConfig"
    BY FilterConfigTable DEF Ptr
  <2>2. IsPointer(mj["tracing"], tw, "EnvoyTracingConfig")
    BY DEF tw
  <2>3. Lists(Unless(mj["tracing"] = Nil, Field("tracing", tw)), T, mj, {"tracing"})
    BY <2>1, <2>2, FilterConfigTable, OptionalPointerLists
  <2> QED BY <2>3
<1> HIDE DEF a, b, c, d, e
<1>6. Lists(a \o b, T, mj, {"codec_type", "stat_prefix"})
  BY <1>1, <1>2, ListsTogether
<1>7. Lists((a \o b) \o c, T, mj, {"codec_type", "stat_prefix", "route_config"})
  BY <1>3, <1>6, ListsTogether
<1>8. Lists(((a \o b) \o c) \o d, T, mj, {"codec_type", "stat_prefix", "route_config", "filters"})
  BY <1>4, <1>7, ListsTogether
<1>9. Lists((((a \o b) \o c) \o d) \o e, T, mj, Keys(T))
  BY <1>5, <1>8, ListsTogether, FilterConfigTable
<1> QED BY <1>9, PaddedEncodes, FilterConfigTable DEF EnvoyFilterConfigJSON, Whole, a, b, c, d, e

LEMMA FilterTable ==
  LET T == "EnvoyFilter" IN
  /\ T \in Structs /\ Keys(T) = {"name", "config"}
  /\ Fields[T]["name"].kind = "string" /\ Fields[T]["config"] = Ptr("EnvoyFilterConfig")
BY StructsAre DEF Keys, Fields, EnvoyFilterFields, String, Ptr

LEMMA FilterEncodes ==
  ASSUME NEW mj, NEW inner, Whole("EnvoyFilter", mj),
         IsPointer(mj.config, EnvoyFilterConfigJSON(mj.config, inner), "EnvoyFilterConfig")
  PROVE  Encodes(FilterJSON(mj, inner), "EnvoyFilter", mj)
<1> DEFINE T == "EnvoyFilter"
           w == EnvoyFilterConfigJSON(mj.config, inner)
           a == Str("name", mj.name)
           b == Pointer("config", mj.config, w)
<1>1. Written(a, T, mj, "name")
  BY FilterTable, ScalarWritten
<1>2. Written(b, T, mj, "config")
  <2> HIDE DEF w
  <2>1. Fields[T]["config"].kind = "ptr" /\ Fields[T]["config"].of = "EnvoyFilterConfig"
    BY FilterTable DEF Ptr
  <2>2. IsPointer(mj["config"], w, "EnvoyFilterConfig")
    BY DEF w
  <2>3. CASE mj["config"] = Nil
    <3>1. b = Field("config", Null)
      BY <2>3 DEF Pointer
    <3> QED BY <2>1, <2>3, <3>1, FilterTable, ScalarWritten
  <2>4. CASE mj["config"] # Nil
    <3>1. b = Field("config", w)
      BY <2>4 DEF Pointer
    <3>2. Encodes(w, "EnvoyFilterConfig", mj["config"])
      BY <2>2, <2>4 DEF IsPointer
    <3> QED BY <2>1, <3>1, <3>2, FilterTable, StructWritten
  <2> QED BY <2>3, <2>4
<1> HIDE DEF a, b
<1>3. Lists(<<a, b>>, T, mj, Keys(T))
  BY <1>1, <1>2, ListsTwo, FilterTable
<1> QED BY <1>3, PlainEncodes, FilterTable DEF FilterJSON, Whole, a, b

\* A slice of one struct.
LEMMA OneIs ==
  ASSUME NEW x, NEW bufs, NEW T, x # Nil, DOMAIN bufs = DOMAIN <<x>>,
         bufs = [i \in DOMAIN bufs |-> bufs[i]], Encodes(bufs[1], T, x)
  PROVE  IsSliceOf(<<x>>, bufs, T)
<1>1. IsBuffer(<<x>>) /\ DOMAIN <<x>> = {1} /\ <<x>>[1] = x
  BY TokensAreBuffers
<1> QED BY <1>1 DEF IsSliceOf

\* The filter of a tcp listener.
LEMMA TcpFilterEncodes ==
  ASSUME NEW e, Nil \notin Objects(e), Nil \notin Texts(e)
  PROVE  Encodes(EnvoyFilterJSON(TcpFilter(e)), "EnvoyFilter", TcpFilter(e))
<1> DEFINE mj == TcpFilter(e)
           o  == mj.config
           rc == o.route_config
           r  == rc.routes[1]
           rb == [i \in DOMAIN rc.routes |-> EnvoyTCPRouteJSON(rc.routes[i])]
           inner == [i \in DOMAIN o.filters |-> FilterJSON(o.filters[i], << >>)]
<1>1. r # Nil /\ o.stat_prefix # Nil
  BY DEF Objects, Texts
<1>2. /\ o.codec_type = << >> /\ o.filters = Nil /\ o.tracing = Nil
      /\ rc.virtual_hosts = Nil /\ rc.routes = <<r>>
      /\ r.destination_ip_list = Nil /\ r.destination_ports = << >>
      /\ r.source_ip_list = Nil /\ r.source_ports = Nil
  BY DEF TcpFilter, FilterConfig
<1>3. /\ Whole("EnvoyFilter", mj) /\ Whole("EnvoyFilterConfig", o)
      /\ Whole("EnvoyRouteConfig", rc) /\ Whole("EnvoyTCPRoute", r)
  <2>1. Whole("EnvoyFilter", mj)
    BY FilterTable DEF TcpFilter, Whole
  <2>2. Whole("EnvoyFilterConfig", o)
    BY FilterConfigTable DEF TcpFilter, FilterConfig, Whole
  <2>3. Whole("EnvoyRouteConfig", rc)
    BY RouteConfigTable DEF TcpFilter, FilterConfig, Whole
  <2>4. Whole("EnvoyTCPRoute", r)
    BY TCPRouteTable DEF TcpFilter, FilterConfig, Whole
  <2> QED BY <2>1, <2>2, <2>3, <2>4
<1> HIDE DEF mj, o, rc, r
<1>4. Encodes(EnvoyTCPRouteJSON(r), "EnvoyTCPRoute", r)
  BY <1>2, <1>3, EnvoyTCPRouteEncodes DEF IsOptional, IsOptionalText
<1>5. IsSliceOf(rc.routes, rb, "EnvoyTCPRoute")
  <2>1. DOMAIN rb = DOMAIN <<r>> /\ rb = [i \in DOMAIN rb |-> rb[i]] /\ rb[1] = EnvoyTCPRouteJSON(r)
    BY <1>2
  <2> HIDE DEF rb
  <2>2. IsSliceOf(<<r>>, rb, "EnvoyTCPRoute")
    BY <1>1, <1>4, <2>1, OneIs
  <2> QED BY <1>2, <2>2
<1>6. Encodes(EnvoyRouteConfigJSON(rc), "EnvoyRouteConfig", rc)
  <2>1. rc.routes # << >>
    BY <1>2
  <2>2. IsSliceOf(rc.virtual_hosts, [i \in DOMAIN rc.virtual_hosts |->
                                       EnvoyHTTPVirtualHostJSON(rc.virtual_hosts[i])],
                  "EnvoyHTTPVirtualHost")
    BY <1>2 DEF IsSliceOf
  <2> QED BY <1>2, <1>3, <1>5, <2>1, <2>2, EnvoyRouteConfigEncodes
<1> HIDE DEF inner
<1>7. Encodes(EnvoyFilterConfigJSON(o, inner), "EnvoyFilterConfig", o)
  <2>1. /\ IsOptionalText(o.codec_type) /\ IsOptionalText(o.stat_prefix)
        /\ IsPointer(o.tracing, EnvoyTracingConfigJSON(o.tracing), "EnvoyTracingConfig")
        /\ IsSliceOf(o.filters, inner, "EnvoyFilter")
    BY <1>1, <1>2 DEF IsOptionalText, IsPointer, IsSliceOf
  <2>2. IsPointer(o.route_config, EnvoyRouteConfigJSON(o.route_config), "EnvoyRouteConfig")
    BY <1>6 DEF IsPointer, rc
  <2> QED BY <1>2, <1>3, <2>1, <2>2, EnvoyFilterConfigEncodes
<1>8. Encodes(FilterJSON(mj, inner), "EnvoyFilter", mj)
  <2>1. IsPointer(mj.config, EnvoyFilterConfigJSON(mj.config, inner), "EnvoyFilterConfig")
    BY <1>7 DEF IsPointer, o
  <2> QED BY <1>3, <2>1, FilterEncodes
<1> QED BY <1>8 DEF EnvoyFilterJSON, mj, inner, o

\* The router within an http filter.
LEMMA RouterEncodes ==
  ASSUME NEW e, NEW router, router = HttpFilter(e).config.filters[1]
  PROVE  Encodes(FilterJSON(router, << >>), "EnvoyFilter", router)
<1> DEFINE o == router.config
<1>1. /\ o.codec_type = << >> /\ o.stat_prefix = << >> /\ o.filters = Nil /\ o.tracing = Nil
      /\ o.route_config = Nil
  BY DEF HttpFilter, FilterConfig
<1>2. Whole("EnvoyFilter", router) /\ Whole("EnvoyFilterConfig", o)
  BY FilterTable, FilterConfigTable DEF HttpFilter, FilterConfig, Whole
<1> HIDE DEF o
<1>3. Encodes(EnvoyFilterConfigJSON(o, << >>), "EnvoyFilterConfig", o)
  BY <1>1, <1>2, EnvoyFilterConfigEncodes DEF IsOptionalText, IsPointer, IsSliceOf
<1>4. IsPointer(router.config, EnvoyFilterConfigJSON(router.config, << >>), "EnvoyFilterConfig")
  BY <1>3 DEF IsPointer, o
<1> QED BY <1>2, <1>4, FilterEncodes

\* The routes of an http filter.
LEMMA HttpRoutesEncode ==
  ASSUME NEW e, Nil \notin Objects(e), Nil \notin Texts(e),
         NEW rc, rc = HttpFilter(e).config.route_config
  PROVE  Encodes(EnvoyRouteConfigJSON(rc), "EnvoyRouteConfig", rc)
<1> DEFINE h  == rc.virtual_hosts[1]
           r  == h.routes[1]
           dc == r.decorator
           rb == [i \in DOMAIN h.routes |-> EnvoyRouteJSON(h.routes[i])]
           hb == [i \in DOMAIN rc.virtual_hosts |-> EnvoyHTTPVirtualHostJSON(rc.virtual_hosts[i])]
<1>1. h # Nil /\ r # Nil /\ e.ServiceName # Nil
  BY DEF Objects, Texts
<1>2. /\ rc.routes = Nil /\ rc.virtual_hosts = <<h>> /\ h.routes = <<r>>
      /\ h.domains = <<(<<"*">>)>> /\ dc.operation = e.ServiceName
  BY SMTT(40) DEF HttpFilter, FilterConfig
<1>3. /\ Whole("EnvoyRouteConfig", rc) /\ Whole("EnvoyHTTPVirtualHost", h)
      /\ Whole("EnvoyRoute", r) /\ Whole("EnvoyRouteDecorator", dc)
  <2>1. Whole("EnvoyRouteConfig", rc)
    BY RouteConfigTable DEF HttpFilter, FilterConfig, Whole
  <2>2. Whole("EnvoyHTTPVirtualHost", h)
    BY VirtualHostTable DEF HttpFilter, FilterConfig, Whole
  <2>3. Whole("EnvoyRoute", r)
    BY RouteTable, SMTT(40) DEF HttpFilter, FilterConfig, Whole
  <2>4. Whole("EnvoyRouteDecorator", dc)
    BY DecoratorTable DEF HttpFilter, FilterConfig, Whole
  <2> QED BY <2>1, <2>2, <2>3, <2>4
<1> HIDE DEF h, r, dc
<1>4. Encodes(EnvoyRouteDecoratorJSON(dc), "EnvoyRouteDecorator", dc)
  BY <1>1, <1>2, <1>3, EnvoyRouteDecoratorEncodes DEF IsOptionalText
<1>5. Encodes(EnvoyRouteJSON(r), "EnvoyRoute", r)
  <2>1. IsPointer(r.decorator, EnvoyRouteDecoratorJSON(r.decorator), "EnvoyRouteDecorator")
    BY <1>4 DEF IsPointer, dc
  <2> QED BY <1>3, <2>1, EnvoyRouteEncodes
<1>6. IsSliceOf(h.routes, rb, "EnvoyRoute")
  <2>1. DOMAIN rb = DOMAIN <<r>> /\ rb = [i \in DOMAIN rb |-> rb[i]] /\ rb[1] = EnvoyRouteJSON(r)
    BY <1>2
  <2> HIDE DEF rb
  <2>2. IsSliceOf(<<r>>, rb, "EnvoyRoute")
    BY <1>1, <1>5, <2>1, OneIs
  <2> QED BY <1>2, <2>2
<1>7. Encodes(EnvoyHTTPVirtualHostJSON(h), "EnvoyHTTPVirtualHost", h)
  <2>1. IsBuffer(h.domains)
    BY <1>2, TokensAreBuffers
  <2> QED BY <1>3, <1>6, <2>1, EnvoyHTTPVirtualHostEncodes
<1> HIDE DEF rb
<1>8. IsSliceOf(rc.virtual_hosts, hb, "EnvoyHTTPVirtualHost")
  <2>1. DOMAIN hb = DOMAIN <<h>> /\ hb = [i \in DOMAIN hb |-> hb[i]]
        /\ hb[1] = EnvoyHTTPVirtualHostJSON(h)
    BY <1>2
  <2> HIDE DEF hb
  <2>2. IsSliceOf(<<h>>, hb, "EnvoyHTTPVirtualHost")
    BY <1>1, <1>7, <2>1, OneIs
  <2> QED BY <1>2, <2>2
<1>9. rc.virtual_hosts # << >>
  BY <1>2
<1>10. IsSliceOf(rc.routes, [i \in DOMAIN rc.routes |-> EnvoyTCPRouteJSON(rc.routes[i])],
                 "EnvoyTCPRoute")
  BY <1>2 DEF IsSliceOf
<1> QED BY <1>2, <1>3, <1>8, <1>9, <1>10, EnvoyRouteConfigEncodes

\* The filter of an http listener.
LEMMA HttpFilterEncodes ==
  ASSUME NEW e, Nil \notin Objects(e), Nil \notin Texts(e)
  PROVE  Encodes(EnvoyFilterJSON(HttpFilter(e)), "EnvoyFilter", HttpFilter(e))
<1> DEFINE mj == HttpFilter(e)
           o  == mj.config
           rc == o.route_config
           f  == o.filters[1]
           inner == [i \in DOMAIN o.filters |-> FilterJSON(o.filters[i], << >>)]
<1>1. f # Nil /\ o.codec_type # Nil /\ o.stat_prefix # Nil
  BY DEF Objects, Texts
<1>2. o.filters = <<f>>
  BY DEF HttpFilter, FilterConfig
<1>3. /\ Whole("EnvoyFilter", mj) /\ Whole("EnvoyFilterConfig", o)
      /\ Whole("EnvoyTracingConfig", o.tracing)
  <2>1. Whole("EnvoyFilter", mj)
    BY FilterTable DEF HttpFilter, Whole
  <2>2. Whole("EnvoyFilterConfig", o)
    BY FilterConfigTable DEF HttpFilter, FilterConfig, Whole
  <2>3. Whole("EnvoyTracingConfig", o.tracing)
    BY TracingTable DEF HttpFilter, FilterConfig, Whole
  <2> QED BY <2>1, <2>2, <2>3
<1>4. Encodes(FilterJSON(f, << >>), "EnvoyFilter", f)
  BY RouterEncodes
<1>5. Encodes(EnvoyRouteConfigJSON(rc), "EnvoyRouteConfig", rc)
  BY HttpRoutesEncode
<1> HIDE DEF mj, o, f, rc
<1>6. IsSliceOf(o.filters, inner, "EnvoyFilter")
  <2>1. DOMAIN inner = DOMAIN <<f>> /\ inner = [i \in DOMAIN inner |-> inner[i]]
        /\ inner[1] = FilterJSON(f, << >>)
    BY <1>2
  <2> HIDE DEF inner
  <2>2. IsSliceOf(<<f>>, inner, "EnvoyFilter")
    BY <1>1, <1>4, <2>1, OneIs
  <2> QED BY <1>2, <2>2
<1> HIDE DEF inner
<1>7. Encodes(EnvoyFilterConfigJSON(o, inner), "EnvoyFilterConfig", o)
  <2>1. /\ IsOptionalText(o.codec_type) /\ IsOptionalText(o.stat_prefix)
        /\ IsPointer(o.tracing, EnvoyTracingConfigJSON(o.tracing), "EnvoyTracingConfig")
    BY <1>1, <1>3, EnvoyTracingConfigEncodes DEF IsOptionalText, IsPointer
  <2>2. IsPointer(o.route_config, EnvoyRouteConfigJSON(o.route_config), "EnvoyRouteConfig")
    BY <1>5 DEF IsPointer, rc
  <2>3. o.filters # << >>
    BY <1>2
  <2> QED BY <1>3, <1>6, <2>1, <2>2, <2>3, EnvoyFilterConfigEncodes
<1>8. Encodes(FilterJSON(mj, inner), "EnvoyFilter", mj)
  <2>1. IsPointer(mj.config, EnvoyFilterConfigJSON(mj.config, inner), "EnvoyFilterConfig")
    BY <1>7 DEF IsPointer, o
  <2> QED BY <1>3, <2>1, FilterEncodes
<1> QED BY <1>8 DEF EnvoyFilterJSON, mj, inner, o

LEMMA ListenerTable ==
  LET T == "EnvoyListener" IN
  /\ T \in Structs /\ Keys(T) = {"name", "address", "filters"}
  /\ Fields[T]["name"].kind = "string" /\ Fields[T]["address"].kind = "string"
  /\ Fields[T]["filters"] = Ptrs("EnvoyFilter")
BY StructsAre DEF Keys, Fields, EnvoyListenerFields, String, Ptrs

\* A listener with either filter.
LEMMA EnvoyListenerEncodes ==
  ASSUME NEW e, Nil \notin Objects(e), Nil \notin Texts(e)
  PROVE  Encodes(EnvoyListenerJSON(EnvoyListenerFromEntry(e)), "EnvoyListener",
                 EnvoyListenerFromEntry(e))
<1> DEFINE T    == "EnvoyListener"
           mj   == EnvoyListenerFromEntry(e)
           x    == mj.filters[1]
           bufs == [i \in DOMAIN mj.filters |-> EnvoyFilterJSON(mj.filters[i])]
           a    == Str("name", mj.name)
           b    == Str("address", mj.address)
           c    == StructSlice("filters", mj.filters, bufs)
<1>1. mj.filters = <<x>> /\ x \in {HttpFilter(e), TcpFilter(e)} /\ Whole(T, mj)
  BY ListenerTable DEF EnvoyListenerFromEntry, Whole
<1>2. x # Nil /\ Encodes(EnvoyFilterJSON(x), "EnvoyFilter", x)
  <2> HIDE DEF x
  <2>1. x # Nil
    BY <1>1 DEF Objects
  <2> QED BY <1>1, <2>1, HttpFilterEncodes, TcpFilterEncodes
<1> HIDE DEF mj, x
<1>3. Written(a, T, mj, "name") /\ Written(b, T, mj, "address")
  BY ListenerTable, ScalarWritten
<1>4. Written(c, T, mj, "filters")
  <2>1. DOMAIN bufs = DOMAIN <<x>> /\ bufs = [i \in DOMAIN bufs |-> bufs[i]]
        /\ bufs[1] = EnvoyFilterJSON(x)
    BY <1>1
  <2> HIDE DEF bufs
  <2>2. IsSliceOf(<<x>>, bufs, "EnvoyFilter")
    BY <1>2, <2>1, OneIs
  <2>3. Fields[T]["filters"].kind = "ptrs" /\ Fields[T]["filters"].of = "EnvoyFilter"
    BY ListenerTable DEF Ptrs
  <2>4. Written(StructSlice("filters", mj["filters"], bufs), T, mj, "filters")
    BY <1>1, <2>2, <2>3, ListenerTable, ObjectsWritten
  <2> QED BY <2>4
<1> HIDE DEF a, b, c
<1>5. Lists(<<a, b, c>>, T, mj, Keys(T))
  BY <1>3, <1>4, ListsThree, ListenerTable
<1> QED BY <1>1, <1>5, PlainEncodes, ListenerTable DEF EnvoyListenerJSON, Whole, mj, a, b, c

\* The three answers.
LEMMA ResultTables ==
  /\ "SDSResult" \in Structs /\ "CDSResult" \in Structs /\ "LDSResult" \in Structs
  /\ Keys("SDSResult") = {"env", "hosts", "service"}
  /\ Fields["SDSResult"]["env"].kind = "string" /\ Fields["SDSResult"]["service"].kind = "string"
  /\ Fields["SDSResult"]["hosts"].kind = "ptrs" /\ Fields["SDSResult"]["hosts"].of = "EnvoyService"
  /\ Keys("CDSResult") = {"clusters"}
  /\ Fields["CDSResult"]["clusters"].kind = "ptrs" /\ Fields["CDSResult"]["clusters"].of = "EnvoyCluster"
  /\ Keys("LDSResult") = {"listeners"}
  /\ Fields["LDSResult"]["listeners"].kind = "ptrs"
  /\ Fields["LDSResult"]["listeners"].of = "EnvoyListener"
BY StructsAre DEF Keys, Fields, SDSResultFields, CDSResultFields, LDSResultFields, String, Ptrs

LEMMA SDSResultEncodes ==
  ASSUME NEW m, IsMap(m), NEW n \in DOMAIN m, NEW mj,
         mj = [env |-> << >>, service |-> n, hosts |-> <<EnvoyServiceFromEntry(m[n])>>]
  PROVE  Encodes(SDSResultJSON(mj), "SDSResult", mj)
<1> DEFINE T    == "SDSResult"
           x    == EnvoyServiceFromEntry(m[n])
           bufs == [i \in DOMAIN mj.hosts |-> EnvoyServiceJSON(mj.hosts[i])]
           a    == Str("env", mj.env)
           b    == StructSlice("hosts", mj.hosts, bufs)
           c    == Str("service", mj.service)
<1>1. mj.hosts = <<x>> /\ Whole(T, mj)
  BY ResultTables DEF Whole
<1>2. m[n] # Nil /\ x # Nil
  BY RegisteredAssumption, NilAssumption DEF IsMap, Objects
<1>3. Encodes(EnvoyServiceJSON(x), "EnvoyService", x)
  <2>1. x = [k \in Keys("EnvoyService") |-> x[k]] /\ x.tags = << >>
    BY <1>2, EnvoyServiceTable DEF EnvoyServiceFromEntry
  <2> HIDE DEF x
  <2> QED BY <2>1, EnvoyServiceEncodes
<1> HIDE DEF x
<1>4. Written(a, T, mj, "env") /\ Written(c, T, mj, "service")
  BY ResultTables, ScalarWritten
<1>5. Written(b, T, mj, "hosts")
  <2>1. DOMAIN bufs = DOMAIN <<x>> /\ bufs = [i \in DOMAIN bufs |-> bufs[i]]
        /\ bufs[1] = EnvoyServiceJSON(x)
    BY <1>1
  <2> HIDE DEF bufs
  <2>2. IsSliceOf(<<x>>, bufs, "EnvoyService")
    BY <1>2, <1>3, <2>1, OneIs
  <2>3. Written(StructSlice("hosts", mj["hosts"], bufs), T, mj, "hosts")
    BY <1>1, <2>2, ResultTables, ObjectsWritten
  <2> QED BY <2>3
<1> HIDE DEF a, b, c
<1>6. Lists(<<a, b, c>>, T, mj, Keys(T))
  BY <1>4, <1>5, ListsThree, ResultTables
<1> QED BY <1>1, <1>6, PlainEncodes, ResultTables DEF SDSResultJSON, Whole, a, b, c

LEMMA CDSResultEncodes ==
  ASSUME NEW m, IsMap(m), NEW order \in SetToSeqs(DOMAIN m), NEW mj,
         mj = [clusters |-> [i \in DOMAIN order |-> EnvoyClusterFromEntry(m[order[i]])]]
  PROVE  Encodes(CDSResultJSON(mj), "CDSResult", mj)
<1> DEFINE T    == "CDSResult"
           s    == mj.clusters
           bufs == [i \in DOMAIN s |-> EnvoyClusterJSON(s[i])]
           a    == StructSlice("clusters", s, bufs)
<1>1. /\ Whole(T, mj) /\ DOMAIN s = DOMAIN order /\ s = [i \in DOMAIN s |-> s[i]]
      /\ \A i \in DOMAIN s : s[i] = EnvoyClusterFromEntry(m[order[i]])
  BY ResultTables DEF Whole
<1> HIDE DEF s
<1>2. IsBuffer(s) /\ \A i \in DOMAIN s : m[order[i]] \in Registered
  <2>1. IsBuffer(s)
    BY <1>1, OrderFacts, SameIndicesIsBuffer
  <2>2. \A i \in DOMAIN order : order[i] \in DOMAIN m
    BY OrderFacts, ZenonT(40)
  <2> QED BY <1>1, <2>1, <2>2 DEF IsMap
<1>3. ASSUME NEW i \in DOMAIN s PROVE s[i] # Nil /\ Encodes(EnvoyClusterJSON(s[i]), "EnvoyCluster", s[i])
  <2> DEFINE x == EnvoyClusterFromEntry(m[order[i]])
  <2>1. x # Nil
    BY <1>2, NilAssumption DEF Objects
  <2>2. Whole("EnvoyCluster", x)
    BY EnvoyClusterTable DEF EnvoyClusterFromEntry, Whole
  <2> HIDE DEF x
  <2>3. s[i] = x
    BY <1>1 DEF x
  <2> QED BY <2>1, <2>2, <2>3, EnvoyClusterEncodes
<1>4. Written(a, T, mj, "clusters")
  <2>1. DOMAIN bufs = DOMAIN s /\ bufs = [i \in DOMAIN bufs |-> bufs[i]]
        /\ \A i \in DOMAIN s : bufs[i] = EnvoyClusterJSON(s[i])
    OBVIOUS
  <2> HIDE DEF bufs
  <2>2. IsSliceOf(s, bufs, "EnvoyCluster")
    BY <1>2, <1>3, <2>1 DEF IsSliceOf
  <2>3. Written(StructSlice("clusters", mj["clusters"], bufs), T, mj, "clusters")
    BY <2>2, ResultTables, ObjectsWritten DEF s
  <2> QED BY <2>3 DEF s
<1> HIDE DEF a
<1>5. Lists(<<a>>, T, mj, Keys(T))
  BY <1>4, ListsOne, ResultTables
<1> QED BY <1>1, <1>5, PlainEncodes, ResultTables DEF CDSResultJSON, Whole, a, s

LEMMA LDSResultEncodes ==
  ASSUME NEW m, IsMap(m), NEW order \in SetToSeqs(DOMAIN m), NEW mj,
         mj = [listeners |-> [i \in DOMAIN order |-> EnvoyListenerFromEntry(m[order[i]])]]
  PROVE  Encodes(LDSResultJSON(mj), "LDSResult", mj)
<1> DEFINE T    == "LDSResult"
           s    == mj.listeners
           bufs == [i \in DOMAIN s |-> EnvoyListenerJSON(s[i])]
           a    == StructSlice("listeners", s, bufs)
<1>1. /\ Whole(T, mj) /\ DOMAIN s = DOMAIN order /\ s = [i \in DOMAIN s |-> s[i]]
      /\ \A i \in DOMAIN s : s[i] = EnvoyListenerFromEntry(m[order[i]])
  BY ResultTables DEF Whole
<1> HIDE DEF s
<1>2. IsBuffer(s) /\ \A i \in DOMAIN s : m[order[i]] \in Registered
  <2>1. IsBuffer(s)
    BY <1>1, OrderFacts, SameIndicesIsBuffer
  <2>2. \A i \in DOMAIN order : order[i] \in DOMAIN m
    BY OrderFacts, ZenonT(40)
  <2> QED BY <1>1, <2>1, <2>2 DEF IsMap
<1>3. ASSUME NEW i \in DOMAIN s PROVE s[i] # Nil /\ Encodes(EnvoyListenerJSON(s[i]), "EnvoyListener", s[i])
  <2> DEFINE e == m[order[i]]
  <2>1. Nil \notin Objects(e) /\ Nil \notin Texts(e)
    BY <1>2, NilAssumption, SMTT(40)
  <2>2. EnvoyListenerFromEntry(e) # Nil
    BY <2>1 DEF Objects
  <2>3. s[i] = EnvoyListenerFromEntry(e)
    BY <1>1
  <2> HIDE DEF e
  <2> QED BY <2>1, <2>2, <2>3, EnvoyListenerEncodes
<1>4. Written(a, T, mj, "listeners")
  <2>1. DOMAIN bufs = DOMAIN s /\ bufs = [i \in DOMAIN bufs |-> bufs[i]]
        /\ \A i \in DOMAIN s : bufs[i] = EnvoyListenerJSON(s[i])
    OBVIOUS
  <2> HIDE DEF bufs
  <2>2. IsSliceOf(s, bufs, "EnvoyListener")
    BY <1>2, <1>3, <2>1 DEF IsSliceOf
  <2>3. Written(StructSlice("listeners", mj["listeners"], bufs), T, mj, "listeners")
    BY <2>2, ResultTables, ObjectsWritten DEF s
  <2> QED BY <2>3 DEF s
<1> HIDE DEF a
<1>5. Lists(<<a>>, T, mj, Keys(T))
  BY <1>4, ListsOne, ResultTables
<1> QED BY <1>1, <1>5, PlainEncodes, ResultTables DEF LDSResultJSON, Whole, a, s

\* The body of every answer: the decoder that reads it ends with the object that
\* the handler built.
LEMMA AnswerEncodes ==
  ASSUME NEW m \in Maps, NEW a \in Answers(m), a.status = 200
  PROVE  Encodes(a.body, a.T, a.value)
<1>1. IsMap(m) /\ a.value # Nil
  BY MapFacts, NilAssumption
<1>2. IsSDS(m, a) \/ IsCDS(m, a) \/ IsLDS(m, a)
  BY <1>1, AnswerFacts
<1>3. a.body = MarshalJSON(a.T, a.value)
  BY <1>1, AnswerFacts
<1>4. CASE IsSDS(m, a)
  BY <1>1, <1>3, <1>4, SDSResultEncodes DEF IsSDS, MarshalJSON
<1>5. CASE IsCDS(m, a)
  BY <1>1, <1>3, <1>5, CDSResultEncodes DEF IsCDS, MarshalJSON
<1>6. CASE IsLDS(m, a)
  BY <1>1, <1>3, <1>6, LDSResultEncodes DEF IsLDS, MarshalJSON
<1> QED BY <1>2, <1>4, <1>5, <1>6

\* Such a body is a sequence of tokens.
LEMMA BodyIsBuffer ==
  ASSUME NEW m \in Maps, NEW a \in Answers(m), a.status = 200
  PROVE  IsBuffer(a.body)
BY AnswerEncodes, EncodedIsBuffer

\* And so is what a client gets of it.
LEMMA DocIsBuffer ==
  ASSUME NEW body, IsBuffer(body), NEW b \in Bodies(Lexed(body))
  PROVE  IsBuffer(b.doc)
<1> DEFINE ss == [i \in DOMAIN body |-> IF body[i].t = " " THEN << >> ELSE <<body[i]>>]
           d  == Lexed(body)
<1>1. DOMAIN ss = DOMAIN body /\ ss = [i \in DOMAIN ss |-> ss[i]]
  OBVIOUS
<1>2. \A i \in DOMAIN ss : IsBuffer(ss[i])
  BY TokensAreBuffers
<1> HIDE DEF ss
<1>3. IsBuffer(FlattenSeq(ss))
  BY <1>1, <1>2, SameIndicesIsBuffer, FlattenIsBuffer
<1>4. IsBuffer(d)
  BY <1>3 DEF Lexed, ss
<1> HIDE DEF d
<1>5. IsBuffer(Cased(d))
  <2>1. DOMAIN Cased(d) = DOMAIN d /\ Cased(d) = [i \in DOMAIN Cased(d) |-> Cased(d)[i]]
    BY DEF Cased
  <2> QED BY <1>4, <2>1, SameIndicesIsBuffer
<1>6. ASSUME NEW i \in DOMAIN d, NEW tokens, IsBuffer(tokens) PROVE IsBuffer(Insert(d, i, tokens))
  <2>1. PICK S : d \in Seq(S)
    BY <1>4 DEF IsBuffer
  <2>2. SubSeq(d, 1, i) \in Seq(S) /\ SubSeq(d, i + 1, Len(d)) \in Seq(S)
    BY <2>1
  <2>3. IsBuffer(SubSeq(d, 1, i)) /\ IsBuffer(SubSeq(d, i + 1, Len(d)))
    BY <2>2 DEF IsBuffer
  <2>4. IsBuffer(SubSeq(d, 1, i) \o tokens)
    BY <1>6, <2>3, ConcatIsBuffer
  <2>5. IsBuffer((SubSeq(d, 1, i) \o tokens) \o SubSeq(d, i + 1, Len(d)))
    BY <2>3, <2>4, ConcatIsBuffer
  <2> QED BY <2>5 DEF Insert
<1>7. IsBuffer(Member) /\ IsBuffer(Pairs)
  BY TokensAreBuffers, ConcatIsBuffer DEF Member, Pairs
<1>8. /\ \A i \in DOMAIN d : IsBuffer(Insert(d, i, Member))
      /\ \A i \in DOMAIN d : IsBuffer(Insert(d, i, Pairs))
  BY <1>6, <1>7
<1> QED BY <1>4, <1>5, <1>8 DEF Bodies, d

-----------------------------------------------------------------------------

\* The structs that a pointer leads to have no pointer themselves, or one to a
\* struct that has none.
LEMMA PointersEnd ==
  /\ Fields["EnvoyFilterConfig"].route_config.of = "EnvoyRouteConfig"
  /\ Fields["EnvoyFilterConfig"].tracing.of = "EnvoyTracingConfig"
  /\ \A k \in Keys("EnvoyFilterConfig") :
       Fields["EnvoyFilterConfig"][k].kind = "ptr" => k \in {"route_config", "tracing"}
  /\ \A T \in Pointed \ {"EnvoyFilterConfig"} : \A k \in Keys(T) : Fields[T][k].kind # "ptr"
<1> USE DEF Keys, String, Number, Strings, Map, Ptr, Ptrs, Fields
<1>1. \A k \in Keys("EnvoyRouteConfig") : Fields["EnvoyRouteConfig"][k].kind # "ptr"
  BY DEF EnvoyRouteConfigFields
<1>2. \A k \in Keys("EnvoyTracingConfig") : Fields["EnvoyTracingConfig"][k].kind # "ptr"
  BY DEF EnvoyTracingConfigFields
<1>3. \A k \in Keys("EnvoyRouteDecorator") : Fields["EnvoyRouteDecorator"][k].kind # "ptr"
  BY DEF EnvoyRouteDecoratorFields
<1>4. /\ Fields["EnvoyFilterConfig"].route_config.of = "EnvoyRouteConfig"
      /\ Fields["EnvoyFilterConfig"].tracing.of = "EnvoyTracingConfig"
      /\ \A k \in Keys("EnvoyFilterConfig") :
           Fields["EnvoyFilterConfig"][k].kind = "ptr" => k \in {"route_config", "tracing"}
  BY DEF EnvoyFilterConfigFields
<1> HIDE DEF Keys, Fields
<1> QED BY <1>1, <1>2, <1>3, <1>4 DEF Pointed

(***************************************************************************)
(* What is read only grows, and what was made of it stays what it is.      *)
(***************************************************************************)
Grows(r, s) == r.texts \subseteq s.texts /\ r.ints \subseteq s.ints

LEMMA ValueStays ==
  ASSUME NEW r, NEW s, Grows(r, s), NEW T \in Structs, NEW k \in Keys(T), NEW v
  PROVE  /\ IsValue(r, Fields[T][k], v) => IsValue(s, Fields[T][k], v)
         /\ Fits(r, Fields[T][k], v) => Fits(s, Fields[T][k], v)
<1> DEFINE field == Fields[T][k]
<1>1. field.kind \in Kinds
  BY EntriesAre DEF IsEntry
<1> HIDE DEF field
<1>2. ASSUME IsValue(r, field, v) PROVE IsValue(s, field, v)
  <2>1. CASE field.kind = "strings"
    <3>1. v \in Seq(r.texts)
      BY <1>2, <2>1 DEF IsValue
    <3>2. v \in Seq(s.texts)
      BY <3>1 DEF Grows
    <3> QED BY <2>1, <3>2 DEF IsValue
  <2>2. CASE field.kind = "map"
    <3>1. DOMAIN v \subseteq r.texts /\ v \in [DOMAIN v -> r.texts]
      BY <1>2, <2>2 DEF IsValue
    <3>2. DOMAIN v \subseteq s.texts /\ v \in [DOMAIN v -> s.texts]
      BY <3>1 DEF Grows
    <3> QED BY <2>2, <3>2 DEF IsValue
  <2>3. CASE field.kind = "ptrs"
    BY <1>2, <2>3 DEF IsValue
  <2>4. CASE field.kind \in {"string", "int", "ptr"}
    BY <1>2, <2>4 DEF IsValue, Grows
  <2> QED BY <1>1, <2>1, <2>2, <2>3, <2>4 DEF Kinds
<1> QED BY <1>2 DEF Fits, field

LEMMA ObjectStays ==
  ASSUME NEW r, NEW s, Grows(r, s), NEW T \in Structs, NEW o
  PROVE  /\ IsLeaf(r, T, o) => IsLeaf(s, T, o)
         /\ IsNode(r, T, o) => IsNode(s, T, o)
         /\ IsObject(r, T, o) => IsObject(s, T, o)
<1>1. \A U \in Structs : \A p : IsLeaf(r, U, p) => IsLeaf(s, U, p)
  BY ValueStays DEF IsLeaf
<1>2. \A U \in Structs : \A k \in Keys(U) :
        Fields[U][k].kind = "ptr" => Fields[U][k].of \in Structs
  BY EntriesAre DEF IsEntry
<1>3. \A U \in Structs : \A p : IsNode(r, U, p) => IsNode(s, U, p)
  BY <1>1, <1>2, ValueStays DEF IsNode
<1>4. \A U \in Structs : \A p : IsObject(r, U, p) => IsObject(s, U, p)
  BY <1>3, <1>2, ValueStays DEF IsObject
<1> QED BY <1>1, <1>3, <1>4

LEMMA FrameStays ==
  ASSUME NEW r, NEW s, Grows(r, s), NEW f, IsFrame(r, f)
  PROVE  IsFrame(s, f)
<1>1. f.T \in Structs /\ IsObject(s, f.T, f.obj) /\ f.k \in s.texts
  BY ObjectStays DEF IsFrame, Grows
<1>2. ASSUME f.state \in LoopStates PROVE IsValue(s, Fields[f.T][f.key], f.obj[f.key])
  <2>1. KindOf(f) # "skipped" /\ IsValue(r, Fields[f.T][f.key], f.obj[f.key])
    BY <1>2 DEF IsFrame, KindsIn
  <2>2. f.key \in Keys(f.T)
    BY <2>1 DEF IsFrame, KindOf
  <2> QED BY <1>1, <2>1, <2>2, ValueStays
<1> QED BY <1>1, <1>2 DEF IsFrame

(***************************************************************************)
(* Objects: what new makes of a struct, what a handler may put in a field, *)
(* and how an object that a call has filled goes behind a pointer.         *)
(***************************************************************************)
IsReading(r) == << >> \in r.texts /\ 0 \in r.ints

LEMMA ZeroIsObject ==
  ASSUME NEW r, IsReading(r), NEW T \in Structs
  PROVE  IsObject(r, T, Zero(T))
<1>1. DOMAIN Zero(T) = Keys(T)
  BY DEF Zero
<1>2. ASSUME NEW k \in Keys(T) PROVE Fits(r, Fields[T][k], Zero(T)[k])
  <2> DEFINE field == Fields[T][k]
  <2>1. Zero(T)[k] = ZeroOf(field)
    BY DEF Zero
  <2> HIDE DEF field
  <2>3. Fits(r, field, ZeroOf(field))
    <3>1. CASE field.kind = "string"
      BY <3>1 DEF ZeroOf, Fits, IsValue, IsReading
    <3>2. CASE field.kind = "int"
      BY <3>2 DEF ZeroOf, Fits, IsValue, IsReading
    <3>3. CASE field.kind \notin {"string", "int"}
      BY <3>3 DEF ZeroOf, Fits
    <3> QED BY <3>1, <3>2, <3>3
  <2> QED BY <2>1, <2>3 DEF field
<1> QED BY <1>1, <1>2 DEF IsObject

LEMMA NodeIsObject ==
  ASSUME NEW r, NEW T, NEW o, IsNode(r, T, o)
  PROVE  IsObject(r, T, o)
<1>1. \A U, p : IsLeaf(r, U, p) => IsNode(r, U, p)
  BY DEF IsLeaf, IsNode
<1> QED BY <1>1 DEF IsNode, IsObject

LEMMA ObjectIsNode ==
  ASSUME NEW r, NEW T \in Pointed, NEW o, IsObject(r, T, o)
  PROVE  IsNode(r, T, o)
<1>1. \A U \in Pointed \ {"EnvoyFilterConfig"} : \A p : IsNode(r, U, p) => IsLeaf(r, U, p)
  BY PointersEnd DEF IsNode, IsLeaf
<1>2. CASE T # "EnvoyFilterConfig"
  BY <1>2, PointersEnd DEF IsObject, IsNode
<1>3. CASE T = "EnvoyFilterConfig"
  <2>1. \A k \in Keys(T) : Fields[T][k].kind = "ptr" =>
          Fields[T][k].of \in Pointed \ {"EnvoyFilterConfig"}
    BY <1>3, PointersEnd DEF Pointed
  <2> QED BY <1>1, <2>1 DEF IsObject, IsNode
<1> QED BY <1>2, <1>3

LEMMA FrameIsFrame ==
  ASSUME NEW r, IsReading(r), NEW T \in Structs, NEW o, IsObject(r, T, o),
         NEW state \in {"map_start", "want_key"}
  PROVE  IsFrame(r, Frame(T, o, state)) /\ Frame(T, o, state).T = T
BY DEF IsFrame, Frame, IsReading, States, LoopStates

\* A call that goes to another state outside of the loops.
LEMMA GotoIsFrame ==
  ASSUME NEW r, NEW f, IsFrame(r, f), NEW state \in States \ (LoopStates \cup {"skip"})
  PROVE  IsFrame(r, [f EXCEPT !.state = state]) /\ [f EXCEPT !.state = state].T = f.T
<1> DEFINE g == [f EXCEPT !.state = state]
<1>1. /\ DOMAIN g = DOMAIN f /\ g.state = state /\ g.T = f.T /\ g.obj = f.obj /\ g.key = f.key
      /\ g.wantVal = f.wantVal /\ g.k = f.k /\ g.depth = f.depth
  BY DEF IsFrame
<1> HIDE DEF g
<1>2. IsFrame(r, g) /\ g.T = f.T
  BY <1>1 DEF IsFrame
<1> QED BY <1>2 DEF g

\* A value that may stand in the field.
MayHold(r, field, v) == Fits(r, field, v) \/ (field.kind = "ptr" /\ IsNode(r, field.of, v))

LEMMA AssignIsObject ==
  ASSUME NEW r, NEW T \in Structs, NEW o, IsObject(r, T, o),
         NEW k \in Keys(T), NEW v, MayHold(r, Fields[T][k], v)
  PROVE  IsObject(r, T, [o EXCEPT ![k] = v]) /\ [o EXCEPT ![k] = v][k] = v
BY DEF IsObject, MayHold

\* A call whose handler puts a value in its field, and goes on.
LEMMA AssignIsFrame ==
  ASSUME NEW r, NEW f, IsFrame(r, f), KindOf(f) # "skipped",
         NEW v, MayHold(r, Fields[f.T][f.key], v),
         NEW g, DOMAIN g = DOMAIN f, g.T = f.T, g.key = f.key, g.k \in r.texts, g.depth = f.depth,
         g.wantVal \in BOOLEAN, g.obj = [f.obj EXCEPT ![f.key] = v], g.state \in States \ {"skip"},
         g.state \in LoopStates => KindOf(f) \in KindsIn(g.state)
                                   /\ IsValue(r, Fields[f.T][f.key], v)
  PROVE  IsFrame(r, g)
<1>1. f.T \in Structs /\ f.key \in Keys(f.T)
  BY DEF IsFrame, KindOf
<1>2. IsObject(r, f.T, g.obj) /\ g.obj[f.key] = v
  <2>1. IsObject(r, f.T, f.obj)
    BY DEF IsFrame
  <2> DEFINE T == f.T
             o == f.obj
             k == f.key
  <2>2. T \in Structs /\ k \in Keys(T) /\ IsObject(r, T, o) /\ MayHold(r, Fields[T][k], v)
    BY <1>1, <2>1
  <2>3. g.obj = [o EXCEPT ![k] = v]
    OBVIOUS
  <2> HIDE DEF T, o, k
  <2>4. IsObject(r, T, [o EXCEPT ![k] = v]) /\ [o EXCEPT ![k] = v][k] = v
    BY <2>2, AssignIsObject, SMTT(40)
  <2> QED BY <2>3, <2>4 DEF T, k
<1>3. KindOf(g) = KindOf(f)
  BY DEF KindOf
<1> QED BY <1>1, <1>2, <1>3 DEF IsFrame

(***************************************************************************)
(* The calls under way, nested as the structs are.                         *)
(***************************************************************************)
IsNest(r, st) ==
  /\ st # << >> /\ st \in Seq({st[i] : i \in DOMAIN st})
  /\ \A i \in DOMAIN st : IsFrame(r, st[i])
  /\ \A i \in 1..(Len(st) - 1) : Calls(st[i], st[i + 1])

LEMMA OwnRange == ASSUME NEW S, NEW s \in Seq(S) PROVE s \in Seq({s[i] : i \in DOMAIN s})
<1>1. Len(s) \in Nat /\ DOMAIN s = 1..Len(s) /\ s = [i \in 1..Len(s) |-> s[i]]
  OBVIOUS
<1> DEFINE R == {s[i] : i \in DOMAIN s}
<1>2. \A i \in 1..Len(s) : s[i] \in R
  BY <1>1
<1> HIDE DEF R
<1>3. [i \in 1..Len(s) |-> s[i]] \in Seq(R)
  BY <1>1, <1>2
<1> QED BY <1>1, <1>3 DEF R

LEMMA NestFacts ==
  ASSUME NEW r, NEW st, IsNest(r, st)
  PROVE  /\ Len(st) \in Nat \ {0} /\ DOMAIN st = 1..Len(st)
         /\ \A i \in 1..Len(st) : IsFrame(r, st[i])
BY DEF IsNest

LEMMA NestStays ==
  ASSUME NEW r, NEW s, Grows(r, s), NEW st, IsNest(r, st)
  PROVE  IsNest(s, st)
BY FrameStays, SMTT(40) DEF IsNest

\* The innermost call changes.
LEMMA BecomesIsNest ==
  ASSUME NEW r, NEW st, IsNest(r, st),
         NEW f, IsFrame(r, f), f.T = st[Len(st)].T
  PROVE  IsNest(r, [st EXCEPT ![Len(st)] = f])
<1> DEFINE n == Len(st)
           st2 == [st EXCEPT ![n] = f]
           S == {st[i] : i \in DOMAIN st} \cup {f}
<1>1. n \in Nat \ {0} /\ DOMAIN st = 1..n
  BY NestFacts
<1>2. st2 \in Seq(S) /\ Len(st2) = n /\ DOMAIN st2 = 1..n
  <2>1. st \in Seq(S)
    BY DEF IsNest
  <2> HIDE DEF S
  <2> QED BY <1>1, <2>1 DEF S
<1>3. st2[n] = f /\ \A i \in 1..n : i # n => st2[i] = st[i]
  <2> HIDE DEF n
  <2> QED BY <1>1
<1>4. f.T = st[n].T /\ \A i \in 1..(n - 1) : Calls(st[i], st[i + 1])
  BY DEF IsNest
<1> HIDE DEF S, st2, n
<1>5. st2 \in Seq({st2[i] : i \in DOMAIN st2}) /\ st2 # << >>
  BY <1>1, <1>2, OwnRange
<1>6. \A i \in DOMAIN st2 : IsFrame(r, st2[i])
  BY <1>1, <1>2, <1>3 DEF IsNest
<1>7. \A i \in 1..(n - 1) : Calls(st2[i], st2[i + 1])
  <2> SUFFICES ASSUME NEW i \in 1..(n - 1) PROVE Calls(st2[i], st2[i + 1])
    OBVIOUS
  <2>1. st2[i] = st[i] /\ Calls(st[i], st[i + 1])
    BY <1>1, <1>3, <1>4
  <2>2. st2[i + 1].T = st[i + 1].T
    BY <1>1, <1>3, <1>4
  <2> QED BY <2>1, <2>2 DEF Calls
<1> QED BY <1>2, <1>5, <1>6, <1>7, Zenon DEF IsNest, st2, n

\* It makes a call.
LEMMA CallIsNest ==
  ASSUME NEW r, NEW st, IsNest(r, st),
         NEW f, IsFrame(r, f), Calls(st[Len(st)], f)
  PROVE  IsNest(r, Append(st, f))
<1> DEFINE n == Len(st)
           st2 == Append(st, f)
           S == {st[i] : i \in DOMAIN st} \cup {f}
<1>1. n \in Nat \ {0} /\ DOMAIN st = 1..n
  BY NestFacts
<1>2. /\ st2 \in Seq(S) /\ Len(st2) = n + 1 /\ DOMAIN st2 = 1..(n + 1)
      /\ st2[n + 1] = f /\ \A i \in 1..n : st2[i] = st[i]
  <2>1. st \in Seq(S) /\ f \in S
    BY DEF IsNest
  <2> HIDE DEF S
  <2> QED BY <1>1, <2>1
<1> HIDE DEF S, st2
<1>3. st2 \in Seq({st2[i] : i \in DOMAIN st2}) /\ st2 # << >>
  BY <1>1, <1>2, OwnRange
<1>4. \A i \in DOMAIN st2 : IsFrame(r, st2[i])
  BY <1>1, <1>2 DEF IsNest
<1>5. \A i \in 1..n : Calls(st2[i], st2[i + 1])
  BY SMTT(40), <1>1, <1>2 DEF IsNest
<1> QED BY SMTT(40), <1>1, <1>2, <1>3, <1>4, <1>5 DEF IsNest, st2

\* It returns, and the one that made it goes on.
LEMMA ReturnIsNest ==
  ASSUME NEW r, NEW st, IsNest(r, st), Len(st) # 1
  PROVE  /\ Len(st) - 1 \in 1..Len(st)
         /\ IsNest(r, SubSeq(st, 1, Len(st) - 1))
         /\ Len(SubSeq(st, 1, Len(st) - 1)) = Len(st) - 1
         /\ SubSeq(st, 1, Len(st) - 1)[Len(st) - 1] = st[Len(st) - 1]
         /\ Calls(st[Len(st) - 1], st[Len(st)])
<1> DEFINE n == Len(st) - 1
           st2 == SubSeq(st, 1, n)
           S == {st[i] : i \in DOMAIN st}
<1>1. n \in Nat \ {0} /\ DOMAIN st = 1..(n + 1) /\ Len(st) = n + 1
  BY NestFacts
<1>2. /\ st2 \in Seq(S) /\ Len(st2) = n /\ DOMAIN st2 = 1..n
      /\ \A i \in 1..n : st2[i] = st[i]
  <2>1. st \in Seq(S)
    BY DEF IsNest
  <2> HIDE DEF S
  <2> QED BY <1>1, <2>1
<1> HIDE DEF S, st2, n
<1>3. st2 \in Seq({st2[i] : i \in DOMAIN st2}) /\ st2 # << >>
  BY <1>1, <1>2, OwnRange
<1>4. \A i \in DOMAIN st2 : IsFrame(r, st2[i])
  BY <1>1, <1>2 DEF IsNest
<1>5. \A i \in 1..(n - 1) : Calls(st2[i], st2[i + 1])
  BY <1>1, <1>2 DEF IsNest
<1>6. IsNest(r, st2)
  BY <1>1, <1>2, <1>3, <1>4, <1>5 DEF IsNest
<1>7. Calls(st[n], st[n + 1])
  BY <1>1 DEF IsNest
<1> QED BY <1>1, <1>2, <1>6, <1>7 DEF n, st2

(***************************************************************************)
(* One token is read.                                                      *)
(***************************************************************************)
IsText == doc \in Seq({doc[i] : i \in DOMAIN doc}) /\ pos \in 1..(Len(doc) + 1)

LEMMA ReadFacts ==
  ASSUME IsText, NEW state, NEW tokens, Reads(state, tokens)
  PROVE  /\ outcome = "parsing" /\ top.state = state /\ tok.t \in tokens
         /\ IsText' /\ Grows(ReadSoFar, ReadSoFar') /\ IsReading(ReadSoFar')
         /\ tok.t = "string" => tok.v \in ReadSoFar'.texts
         /\ tok.t = "integer" => tok.v[1] \in ReadSoFar'.ints
<1>1. /\ outcome = "parsing" /\ top.state = state /\ tok.t \in tokens /\ doc' = doc
      /\ pos' = (IF pos <= Len(doc) THEN pos + 1 ELSE pos)
  BY DEF Reads
<1>2. Len(doc) \in Nat /\ pos \in 1..(Len(doc) + 1) /\ pos' \in 1..(Len(doc) + 1)
  BY <1>1 DEF IsText
<1>3. \A class : ReadTokens(class) \subseteq ReadTokens(class)'
  BY <1>1, <1>2 DEF ReadTokens
<1>4. Grows(ReadSoFar, ReadSoFar') /\ IsReading(ReadSoFar')
  BY <1>3 DEF Grows, ReadSoFar, IsReading
<1>5. ASSUME NEW class \in {"string", "integer"}, tok.t = class
      PROVE  tok \in ReadTokens(class)'
  <2>1. pos <= Len(doc) /\ tok = doc[pos]
    BY <1>5, <1>2 DEF tok
  <2>2. pos \in 1..(pos' - 1) /\ doc'[pos] = tok
    BY <1>1, <1>2, <2>1
  <2> QED BY <1>5, <2>2 DEF ReadTokens
<1>6. tok.t = "string" => tok.v \in ReadSoFar'.texts
  BY <1>5 DEF ReadSoFar
<1>7. tok.t = "integer" => tok.v[1] \in ReadSoFar'.ints
  BY <1>5 DEF ReadSoFar
<1> QED BY <1>1, <1>2, <1>4, <1>6, <1>7 DEF IsText

-----------------------------------------------------------------------------
(***************************************************************************)
(* Every step of the decoder keeps the types.                              *)
(***************************************************************************)
LEMMA TypeOKIs ==
  TypeOK <=> IsText /\ outcome \in {"parsing", "done", "error"} /\ IsNest(ReadSoFar, stack)
BY DEF TypeOK, IsText, IsNest

LEMMA ReadingKeepsTypes ==
  ASSUME TypeOK, NEW state, NEW tokens, Reads(state, tokens)
  PROVE  /\ IsNest(ReadSoFar', stack) /\ IsFrame(ReadSoFar', top) /\ IsReading(ReadSoFar')
         /\ outcome = "parsing" /\ top.state = state /\ tok.t \in tokens
         /\ tok.t = "string" => tok.v \in ReadSoFar'.texts
         /\ tok.t = "integer" => tok.v[1] \in ReadSoFar'.ints
         /\ outcome' \in {"parsing", "done", "error"} /\ IsNest(ReadSoFar', stack') => TypeOK'
<1>1. IsText /\ IsNest(ReadSoFar, stack)
  BY TypeOKIs
<1>2. /\ outcome = "parsing" /\ top.state = state /\ tok.t \in tokens
      /\ IsText' /\ Grows(ReadSoFar, ReadSoFar') /\ IsReading(ReadSoFar')
      /\ tok.t = "string" => tok.v \in ReadSoFar'.texts
      /\ tok.t = "integer" => tok.v[1] \in ReadSoFar'.ints
  BY <1>1, ReadFacts
<1>3. IsNest(ReadSoFar', stack)
  BY <1>1, <1>2, NestStays
<1>4. IsFrame(ReadSoFar', top)
  BY <1>3, NestFacts DEF top
<1>5. outcome' \in {"parsing", "done", "error"} /\ IsNest(ReadSoFar', stack') => TypeOK'
  BY <1>2 DEF TypeOK, IsText, IsNest
<1> QED BY <1>2, <1>3, <1>4, <1>5

LEMMA BecomesKeepsTypes ==
  ASSUME TypeOK, NEW state, NEW tokens, Reads(state, tokens),
         NEW f, Becomes(f), IsFrame(ReadSoFar', f), f.T = top.T
  PROVE  TypeOK'
<1>1. /\ IsNest(ReadSoFar', stack) /\ outcome = "parsing"
      /\ outcome' \in {"parsing", "done", "error"} /\ IsNest(ReadSoFar', stack') => TypeOK'
  BY ReadingKeepsTypes
<1>2. stack' = [stack EXCEPT ![Len(stack)] = f] /\ outcome' = outcome
  BY DEF Becomes
<1>3. IsNest(ReadSoFar', stack')
  BY <1>1, <1>2, BecomesIsNest DEF top
<1> QED BY <1>1, <1>2, <1>3

LEMMA GotoKeepsTypes ==
  ASSUME TypeOK, NEW state, NEW tokens, Reads(state, tokens),
         NEW next \in States \ (LoopStates \cup {"skip"}), Goto(next)
  PROVE  TypeOK'
<1>1. IsFrame(ReadSoFar', top)
  BY ReadingKeepsTypes
<1>2. IsFrame(ReadSoFar', [top EXCEPT !.state = next]) /\ [top EXCEPT !.state = next].T = top.T
  BY <1>1, GotoIsFrame
<1> QED BY <1>2, BecomesKeepsTypes DEF Goto

LEMMA AssignKeepsTypes ==
  ASSUME TypeOK, NEW state, NEW tokens, Reads(state, tokens), KindOf(top) # "skipped",
         NEW v, MayHold(ReadSoFar', Fields[top.T][top.key], v), Assign(v)
  PROVE  TypeOK'
<1> DEFINE f == [top EXCEPT !.obj[top.key] = v, !.state = "after_value"]
<1>1. IsFrame(ReadSoFar', top)
  BY ReadingKeepsTypes
<1>2. /\ DOMAIN f = DOMAIN top /\ f.T = top.T /\ f.key = top.key /\ f.k = top.k
      /\ f.depth = top.depth /\ f.wantVal = top.wantVal /\ f.state = "after_value"
      /\ f.obj = [top.obj EXCEPT ![top.key] = v]
  BY <1>1 DEF IsFrame
<1>3. Becomes(f)
  BY DEF Assign
<1> HIDE DEF f
<1>4. IsFrame(ReadSoFar', f)
  <2>1. f.k \in ReadSoFar'.texts /\ f.wantVal \in BOOLEAN
    BY <1>1, <1>2 DEF IsFrame
  <2> QED BY <1>1, <1>2, <2>1, AssignIsFrame DEF States, LoopStates
<1> QED BY <1>2, <1>3, <1>4, BecomesKeepsTypes

LEMMA CallKeepsTypes ==
  ASSUME TypeOK, NEW state, NEW tokens, Reads(state, tokens),
         NEW T \in Structs, NEW o, IsObject(ReadSoFar', T, o),
         Calls(top, Frame(T, o, "want_key")), Call(T, o)
  PROVE  TypeOK'
<1>1. /\ IsNest(ReadSoFar', stack) /\ outcome = "parsing" /\ IsReading(ReadSoFar')
      /\ outcome' \in {"parsing", "done", "error"} /\ IsNest(ReadSoFar', stack') => TypeOK'
  BY ReadingKeepsTypes
<1>2. IsFrame(ReadSoFar', Frame(T, o, "want_key"))
  BY <1>1, FrameIsFrame
<1>3. stack' = Append(stack, Frame(T, o, "want_key")) /\ outcome' = outcome
  BY DEF Call
<1>4. IsNest(ReadSoFar', stack')
  BY <1>1, <1>2, <1>3, CallIsNest DEF top
<1> QED BY <1>1, <1>3, <1>4

\* The field that a handler is at.
LEMMA FieldOfTop ==
  ASSUME NEW r, NEW f, IsFrame(r, f), KindOf(f) # "skipped"
  PROVE  /\ f.T \in Structs /\ f.key \in Keys(f.T) /\ KindOf(f) = Fields[f.T][f.key].kind
         /\ IsEntry(Fields[f.T][f.key]) /\ MayHold(r, Fields[f.T][f.key], f.obj[f.key])
<1>1. f.T \in Structs /\ f.key \in Keys(f.T) /\ KindOf(f) = Fields[f.T][f.key].kind
  BY DEF IsFrame, KindOf
<1>2. IsObject(r, f.T, f.obj)
  BY DEF IsFrame
<1> QED BY <1>1, <1>2, EntriesAre DEF IsObject, MayHold

LEMMA MainparseKeepsTypes ==
  ASSUME TypeOK, MapStart \/ AfterValue \/ WantColon \/ WantKey
  PROVE  TypeOK'
<1>1. CASE MapStart
  BY <1>1, GotoKeepsTypes DEF MapStart, States, LoopStates
<1>2. CASE AfterValue
  BY <1>2, GotoKeepsTypes DEF AfterValue, States, LoopStates
<1>3. CASE WantColon
  BY <1>3, GotoKeepsTypes DEF WantColon, States, LoopStates
<1>4. CASE WantKey
  <2> DEFINE key == KeyOf(top.T, tok.v)
             f == [top EXCEPT !.key = key, !.state = "want_colon"]
  <2>1. Reads("want_key", {"string"}) /\ Becomes(f)
    BY <1>4 DEF WantKey
  <2>2. IsFrame(ReadSoFar', top)
    BY <2>1, ReadingKeepsTypes
  <2>3. key \in Keys(top.T) \cup {"no_such_key"}
    BY DEF KeyOf
  <2> HIDE DEF key
  <2>4. /\ DOMAIN f = DOMAIN top /\ f.T = top.T /\ f.key = key /\ f.k = top.k /\ f.obj = top.obj
        /\ f.depth = top.depth /\ f.wantVal = top.wantVal /\ f.state = "want_colon"
    BY <2>2 DEF IsFrame
  <2> HIDE DEF f
  <2>5. IsFrame(ReadSoFar', f)
    BY <2>2, <2>3, <2>4 DEF IsFrame, States, LoopStates
  <2> QED BY <2>1, <2>4, <2>5, BecomesKeepsTypes
<1> QED BY <1>1, <1>2, <1>3, <1>4

LEMMA DoneKeepsTypes == ASSUME TypeOK, Done PROVE TypeOK'
<1>1. /\ IsNest(ReadSoFar', stack) /\ IsFrame(ReadSoFar', top) /\ outcome = "parsing"
      /\ outcome' \in {"parsing", "done", "error"} /\ IsNest(ReadSoFar', stack') => TypeOK'
  BY ReadingKeepsTypes DEF Done
<1>2. CASE Len(stack) = 1
  BY <1>1, <1>2 DEF Done
<1>3. CASE Len(stack) # 1
  <2> DEFINE n == Len(stack) - 1
             st == SubSeq(stack, 1, n)
             f == stack[n]
             g == IF f.state = "elements"
                  THEN [f EXCEPT !.obj[f.key] = Append(@, top.obj), !.wantVal = FALSE]
                  ELSE [f EXCEPT !.obj[f.key] = top.obj, !.state = "after_value"]
             s == ReadSoFar'
  <2>1. /\ n \in 1..Len(stack) /\ IsNest(s, st) /\ Len(st) = n /\ st[n] = f
        /\ Calls(f, top)
    BY <1>1, <1>3, ReturnIsNest DEF top
  <2>2. stack' = [st EXCEPT ![n] = g] /\ outcome' = outcome
    BY <1>3 DEF Done
  <2>3. IsFrame(s, f)
    BY <1>1, <2>1, NestFacts, SMTT(40)
  <2>4. /\ IsObject(s, top.T, top.obj) /\ top.T = Fields[f.T][f.key].of
        /\ <<f.state, KindOf(f)>> \in {<<"elements", "ptrs">>, <<"want_value", "ptr">>}
    BY <1>1, <2>1 DEF IsFrame, Calls
  <2> HIDE DEF n, st, f, s
  <2>5. /\ f.T \in Structs /\ f.key \in Keys(f.T) /\ KindOf(f) = Fields[f.T][f.key].kind
        /\ KindOf(f) # "skipped" /\ IsEntry(Fields[f.T][f.key])
    BY <2>3, <2>4, FieldOfTop
  <2>6. IsFrame(s, g) /\ g.T = f.T
    <3>1. CASE f.state = "elements"
      <4> DEFINE old == f.obj[f.key]
                 v == Append(old, top.obj)
                 h == [f EXCEPT !.obj[f.key] = v, !.wantVal = FALSE]
      <4>1. KindOf(f) = "ptrs" /\ IsValue(s, Fields[f.T][f.key], old)
        BY <2>3, <2>4, <3>1, SMTT(40) DEF IsFrame, LoopStates
      <4>2. old \in Seq({old[i] : i \in DOMAIN old}) /\ \A i \in DOMAIN old : DOMAIN old[i] = Keys(top.T)
        BY <2>4, <2>5, <4>1, SMTT(40) DEF IsValue
      <4>3. DOMAIN top.obj = Keys(top.T)
        BY <2>4 DEF IsObject
      <4> HIDE DEF old
      <4>4. v \in Seq({v[i] : i \in DOMAIN v}) /\ \A i \in DOMAIN v : DOMAIN v[i] = Keys(top.T)
        <5> DEFINE S == {old[i] : i \in DOMAIN old} \cup {top.obj}
        <5>1. old \in Seq(S) /\ top.obj \in S
          BY <4>2
        <5>2. \A o \in S : DOMAIN o = Keys(top.T)
          BY <4>2, <4>3
        <5> HIDE DEF S
        <5>3. v \in Seq(S)
          BY <5>1
        <5> HIDE DEF v
        <5>4. \A i \in DOMAIN v : v[i] \in S
          BY <5>3
        <5> QED BY <5>2, <5>3, <5>4, OwnRange
      <4> HIDE DEF v
      <4>5. IsValue(s, Fields[f.T][f.key], v)
        BY <2>4, <2>5, <4>1, <4>4 DEF IsValue
      <4>6. MayHold(s, Fields[f.T][f.key], v)
        BY <4>5 DEF MayHold, Fits
      <4>7. /\ DOMAIN h = DOMAIN f /\ h.T = f.T /\ h.key = f.key /\ h.k = f.k
            /\ h.depth = f.depth /\ h.wantVal = FALSE /\ h.state = f.state
            /\ h.obj = [f.obj EXCEPT ![f.key] = v]
        BY <2>3 DEF IsFrame
      <4>8. g = h
        BY <3>1 DEF v, old
      <4> HIDE DEF g, h
      <4>9. /\ h.k \in s.texts /\ h.wantVal \in BOOLEAN /\ h.state \in States \ {"skip"}
            /\ KindOf(f) \in KindsIn(h.state)
        BY <2>3, <3>1, <4>1, <4>7 DEF IsFrame, States, KindsIn
      <4>10. IsFrame(s, h)
        BY <2>3, <2>5, <4>5, <4>6, <4>7, <4>9, AssignIsFrame
      <4> QED BY <4>7, <4>8, <4>10
    <3>2. CASE f.state # "elements"
      <4> DEFINE h == [f EXCEPT !.obj[f.key] = top.obj, !.state = "after_value"]
      <4>1. KindOf(f) = "ptr" /\ top.T \in Pointed
        BY <2>4, <2>5, <3>2 DEF IsEntry
      <4>2. MayHold(s, Fields[f.T][f.key], top.obj)
        BY <2>4, <2>5, <4>1, ObjectIsNode DEF MayHold
      <4>3. /\ DOMAIN h = DOMAIN f /\ h.T = f.T /\ h.key = f.key /\ h.k = f.k
            /\ h.depth = f.depth /\ h.wantVal = f.wantVal /\ h.state = "after_value"
            /\ h.obj = [f.obj EXCEPT ![f.key] = top.obj]
        BY <2>3 DEF IsFrame
      <4>4. g = h
        BY <3>2
      <4> HIDE DEF g, h
      <4>5. h.k \in s.texts /\ h.wantVal \in BOOLEAN
        BY <2>3, <4>3 DEF IsFrame
      <4>6. IsFrame(s, h)
        BY <2>3, <2>5, <4>2, <4>3, <4>5, AssignIsFrame DEF States, LoopStates
      <4> QED BY <4>3, <4>4, <4>6
    <3> QED BY <3>1, <3>2
  <2> HIDE DEF g
  <2>7. IsNest(s, [st EXCEPT ![Len(st)] = g])
    BY <2>1, <2>6, BecomesIsNest
  <2>8. IsNest(s, stack')
    BY <2>1, <2>2, <2>7
  <2> QED BY <1>1, <2>2, <2>8 DEF s
<1> QED BY <1>2, <1>3

LEMMA ScalarsKeepTypes == ASSUME TypeOK, handle_string \/ handle_int PROVE TypeOK'
<1> DEFINE s == ReadSoFar'
           field == Fields[top.T][top.key]
<1>1. CASE handle_string
  <2> DEFINE v == IF tok.t = "null" THEN top.obj[top.key] ELSE tok.v
  <2>1. Reads("want_value", {"string", "null"}) /\ KindOf(top) = "string" /\ Assign(v)
    BY <1>1 DEF handle_string
  <2>2. IsFrame(s, top) /\ (tok.t = "null" \/ tok.v \in s.texts)
    BY <2>1, ReadingKeepsTypes
  <2>3. field.kind = "string" /\ MayHold(s, field, top.obj[top.key])
    BY <2>1, <2>2, FieldOfTop
  <2> HIDE DEF field, s
  <2>4. MayHold(s, field, v)
    BY <2>2, <2>3 DEF MayHold, Fits, IsValue
  <2> HIDE DEF v
  <2> QED BY <2>1, <2>4, AssignKeepsTypes DEF s, field
<1>2. CASE handle_int
  <2> DEFINE v == IF tok.t = "null" THEN top.obj[top.key] ELSE tok.v[1]
  <2>1. Reads("want_value", {"integer", "null"}) /\ KindOf(top) = "int" /\ Assign(v)
    BY <1>2 DEF handle_int
  <2>2. IsFrame(s, top) /\ (tok.t = "null" \/ tok.v[1] \in s.ints)
    BY <2>1, ReadingKeepsTypes
  <2>3. field.kind = "int" /\ MayHold(s, field, top.obj[top.key])
    BY <2>1, <2>2, FieldOfTop
  <2> HIDE DEF field, s
  <2>4. MayHold(s, field, v)
    BY <2>2, <2>3 DEF MayHold, Fits, IsValue
  <2> HIDE DEF v
  <2> QED BY <2>1, <2>4, AssignKeepsTypes DEF s, field
<1> QED BY <1>1, <1>2

\* A null, where the field is a pointer, a slice or a map.
LEMMA NilKeepsTypes ==
  ASSUME TypeOK, NEW state, NEW tokens, Reads(state, tokens),
         KindOf(top) \in {"ptr", "ptrs", "strings", "map"}, Assign(Nil)
  PROVE  TypeOK'
<1>1. IsFrame(ReadSoFar', top)
  BY ReadingKeepsTypes
<1>2. KindOf(top) = Fields[top.T][top.key].kind
  BY <1>1, FieldOfTop
<1>3. MayHold(ReadSoFar', Fields[top.T][top.key], Nil)
  BY <1>2 DEF MayHold, Fits
<1> QED BY <1>3, AssignKeepsTypes

LEMMA PointerKeepsTypes == ASSUME TypeOK, handle_ptr PROVE TypeOK'
<1> DEFINE s == ReadSoFar'
           T == Fields[top.T][top.key].of
           o == IF top.obj[top.key] = Nil THEN Zero(T) ELSE top.obj[top.key]
<1>1. /\ Reads("want_value", ValueTokens) /\ KindOf(top) = "ptr"
      /\ IF tok.t = "null" THEN Assign(Nil) ELSE Call(T, o)
  BY DEF handle_ptr
<1>2. CASE tok.t = "null"
  BY <1>1, <1>2, NilKeepsTypes
<1>3. CASE tok.t # "null"
  <2>1. IsFrame(s, top) /\ IsReading(s) /\ top.state = "want_value"
    BY <1>1, ReadingKeepsTypes
  <2>2. /\ T \in Structs /\ Fields[top.T][top.key].kind = "ptr"
        /\ MayHold(s, Fields[top.T][top.key], top.obj[top.key])
    BY <1>1, <2>1, FieldOfTop DEF IsEntry
  <2>3. top.obj[top.key] = Nil \/ IsNode(s, T, top.obj[top.key])
    BY <2>2 DEF MayHold, Fits, IsValue
  <2> HIDE DEF T
  <2>4. IsObject(s, T, o)
    BY <2>1, <2>2, <2>3, ZeroIsObject, NodeIsObject
  <2> HIDE DEF o
  <2>5. Calls(top, Frame(T, o, "want_key"))
    BY <1>1, <2>1 DEF Calls, Frame, T
  <2>6. Call(T, o)
    BY <1>1, <1>3 DEF T, o
  <2> QED BY <1>1, <2>2, <2>4, <2>5, <2>6, CallKeepsTypes
<1> QED BY <1>2, <1>3

\* A handler that puts v in its field and stays in, or enters, its loop.
LEMMA LoopKeepsTypes ==
  ASSUME TypeOK, NEW state, NEW tokens, Reads(state, tokens), KindOf(top) # "skipped",
         NEW v, IsValue(ReadSoFar', Fields[top.T][top.key], v),
         NEW next \in LoopStates, KindOf(top) \in KindsIn(next), NEW w \in BOOLEAN,
         Becomes([top EXCEPT !.obj[top.key] = v, !.state = next, !.wantVal = w])
  PROVE  TypeOK'
<1> DEFINE f == [top EXCEPT !.obj[top.key] = v, !.state = next, !.wantVal = w]
<1>1. IsFrame(ReadSoFar', top)
  BY ReadingKeepsTypes
<1>2. /\ DOMAIN f = DOMAIN top /\ f.T = top.T /\ f.key = top.key /\ f.k = top.k
      /\ f.depth = top.depth /\ f.wantVal = w /\ f.state = next
      /\ f.obj = [top.obj EXCEPT ![top.key] = v]
  BY <1>1 DEF IsFrame
<1>3. Becomes(f)
  OBVIOUS
<1> HIDE DEF f
<1>4. f.k \in ReadSoFar'.texts /\ f.state \in States \ {"skip"}
  BY <1>1, <1>2 DEF IsFrame, LoopStates, States
<1>5. MayHold(ReadSoFar', Fields[top.T][top.key], v)
  BY DEF MayHold, Fits
<1>6. IsFrame(ReadSoFar', f)
  BY <1>1, <1>2, <1>4, <1>5, AssignIsFrame
<1> QED BY <1>2, <1>3, <1>6, BecomesKeepsTypes

LEMMA EmptyIsValue ==
  ASSUME NEW r, NEW field, field.kind \in {"ptrs", "strings", "map"}
  PROVE  IsValue(r, field, << >>)
<1>1. << >> \in Seq(r.texts) /\ << >> \in Seq({<< >>[i] : i \in DOMAIN << >>})
  OBVIOUS
<1>2. DOMAIN << >> = {} /\ << >> \in [{} -> r.texts]
  OBVIOUS
<1> QED BY <1>1, <1>2 DEF IsValue

LEMMA SlicesKeepTypes == ASSUME TypeOK, handle_slice \/ handle_map PROVE TypeOK'
<1>1. CASE handle_slice
  <2>1. /\ Reads("want_value", {"[", "null"}) /\ KindOf(top) \in {"ptrs", "strings"}
        /\ IF tok.t = "null" THEN Assign(Nil)
           ELSE Becomes([top EXCEPT !.obj[top.key] = << >>, !.state = "elements", !.wantVal = TRUE])
    BY <1>1 DEF handle_slice
  <2>2. CASE tok.t = "null"
    BY <2>1, <2>2, NilKeepsTypes, SMTT(40)
  <2>3. CASE tok.t # "null"
    <3> DEFINE field == Fields[top.T][top.key]
    <3>1. field.kind = KindOf(top)
      BY <2>1, ReadingKeepsTypes, FieldOfTop
    <3>2. field.kind \in {"ptrs", "strings", "map"}
      BY <2>1, <3>1
    <3> HIDE DEF field
    <3>3. IsValue(ReadSoFar', field, << >>)
      BY <3>2, EmptyIsValue
    <3> QED BY <2>1, <2>3, <3>3, LoopKeepsTypes DEF LoopStates, KindsIn, field
  <2> QED BY <2>2, <2>3
<1>2. CASE handle_map
  <2>1. /\ Reads("want_value", {"{", "null"}) /\ KindOf(top) = "map"
        /\ IF tok.t = "null" THEN Assign(Nil)
           ELSE Becomes([top EXCEPT !.obj[top.key] = << >>, !.state = "pairs", !.wantVal = TRUE])
    BY <1>2 DEF handle_map
  <2>2. CASE tok.t = "null"
    BY <2>1, <2>2, NilKeepsTypes
  <2>3. CASE tok.t # "null"
    <3> DEFINE field == Fields[top.T][top.key]
    <3>1. field.kind = KindOf(top)
      BY <2>1, ReadingKeepsTypes, FieldOfTop
    <3>2. field.kind \in {"ptrs", "strings", "map"}
      BY <2>1, <3>1
    <3> HIDE DEF field
    <3>3. IsValue(ReadSoFar', field, << >>)
      BY <3>2, EmptyIsValue
    <3> QED BY <2>1, <2>3, <3>3, LoopKeepsTypes DEF LoopStates, KindsIn, field
  <2> QED BY <2>2, <2>3
<1> QED BY <1>1, <1>2

LEMMA ElementsKeepTypes ==
  ASSUME TypeOK, ElementsEnd \/ Comma \/ StringElement \/ StructElement
  PROVE  TypeOK'
<1>1. CASE ElementsEnd
  BY <1>1, GotoKeepsTypes DEF ElementsEnd, States, LoopStates
<1>2. CASE Comma
  BY <1>2, ReadingKeepsTypes DEF Comma
<1>3. CASE StringElement
  <2> DEFINE s == ReadSoFar'
             old == top.obj[top.key]
             x == IF tok.t = "null" THEN << >> ELSE tok.v
             v == Append(old, x)
  <2>1. /\ Reads("elements", {"string", "null"}) /\ KindOf(top) = "strings"
        /\ Becomes([top EXCEPT !.obj[top.key] = v, !.wantVal = FALSE])
    BY <1>3 DEF StringElement
  <2>2. /\ IsFrame(s, top) /\ IsReading(s) /\ top.state = "elements"
        /\ tok.t \in {"string", "null"} /\ (tok.t = "string" => tok.v \in s.texts)
    BY <2>1, ReadingKeepsTypes
  <2>3. KindOf(top) = Fields[top.T][top.key].kind /\ IsValue(s, Fields[top.T][top.key], old)
    BY <2>1, <2>2, FieldOfTop, SMTT(40) DEF IsFrame, LoopStates
  <2>4. old \in Seq(s.texts) /\ x \in s.texts
    BY <2>1, <2>2, <2>3 DEF IsValue, IsReading
  <2> HIDE DEF old, x, s
  <2>5. v \in Seq(s.texts)
    BY <2>4, SMTT(40)
  <2> HIDE DEF v
  <2>6. IsValue(s, Fields[top.T][top.key], v)
    BY <2>1, <2>3, <2>5 DEF IsValue
  <2>7. Becomes([top EXCEPT !.obj[top.key] = v, !.state = "elements", !.wantVal = FALSE])
    <3>1. [top EXCEPT !.obj[top.key] = v, !.wantVal = FALSE]
            = [top EXCEPT !.obj[top.key] = v, !.state = "elements", !.wantVal = FALSE]
      BY <2>2 DEF IsFrame
    <3> QED BY <2>1, <3>1
  <2> QED BY <2>1, <2>6, <2>7, LoopKeepsTypes DEF LoopStates, KindsIn, s
<1>4. CASE StructElement
  <2> DEFINE s == ReadSoFar'
             T == Fields[top.T][top.key].of
  <2>1. /\ Reads("elements", Tokens \ {"]", ","}) /\ KindOf(top) = "ptrs"
        /\ IF tok.t = "null" THEN Goto("after_value") ELSE Call(T, Zero(T))
    BY <1>4 DEF StructElement
  <2>2. CASE tok.t = "null"
    BY <2>1, <2>2, GotoKeepsTypes DEF States, LoopStates
  <2>3. CASE tok.t # "null"
    <3>1. IsFrame(s, top) /\ IsReading(s) /\ top.state = "elements"
      BY <2>1, ReadingKeepsTypes
    <3>2. T \in Structs
      BY <2>1, <3>1, FieldOfTop DEF IsEntry
    <3>3. IsObject(s, T, Zero(T))
      BY <3>1, <3>2, ZeroIsObject
    <3>4. Calls(top, Frame(T, Zero(T), "want_key"))
      BY <2>1, <3>1 DEF Calls, Frame
    <3> HIDE DEF T
    <3> QED BY <2>1, <2>3, <3>2, <3>3, <3>4, CallKeepsTypes
  <2> QED BY <2>2, <2>3
<1> QED BY <1>1, <1>2, <1>3, <1>4

LEMMA PairsKeepTypes ==
  ASSUME TypeOK, PairsEnd \/ PairKey \/ PairColon \/ PairValue
  PROVE  TypeOK'
<1> DEFINE s == ReadSoFar'
           field == Fields[top.T][top.key]
           m == top.obj[top.key]
<1>1. CASE PairsEnd
  BY <1>1, GotoKeepsTypes DEF PairsEnd, States, LoopStates
\* In the loop, the key read and the map so far.
<1>2. ASSUME NEW state \in {"pairs", "pair_colon", "pair_value"}, NEW tokens, Reads(state, tokens)
      PROVE  /\ IsFrame(s, top) /\ IsReading(s) /\ top.state = state /\ KindOf(top) = "map"
             /\ (tok.t = "string" => tok.v \in s.texts) /\ tok.t \in tokens
             /\ IsValue(s, field, m) /\ field.kind = "map"
  <2>1. /\ IsFrame(s, top) /\ IsReading(s) /\ top.state = state
        /\ (tok.t = "string" => tok.v \in s.texts) /\ tok.t \in tokens
    BY <1>2, ReadingKeepsTypes
  <2>2. KindOf(top) = "map" /\ IsValue(s, field, m)
    BY <2>1 DEF IsFrame, LoopStates, KindsIn
  <2>3. KindOf(top) = field.kind
    BY <2>1, <2>2, FieldOfTop
  <2> QED BY <2>1, <2>2, <2>3
<1>3. CASE PairKey
  <2> DEFINE k == IF tok.t = "null" THEN << >> ELSE tok.v
             f == [top EXCEPT !.k = k, !.state = "pair_colon", !.wantVal = TRUE]
  <2>1. Reads("pairs", {"string", "null"}) /\ Becomes(f)
    BY <1>3 DEF PairKey
  <2>2. /\ IsFrame(s, top) /\ KindOf(top) = "map" /\ IsValue(s, field, m) /\ k \in s.texts
    BY <1>2, <2>1 DEF IsReading
  <2> HIDE DEF k
  <2>3. /\ DOMAIN f = DOMAIN top /\ f.T = top.T /\ f.key = top.key /\ f.k = k /\ f.obj = top.obj
        /\ f.depth = top.depth /\ f.wantVal = TRUE /\ f.state = "pair_colon"
    BY <2>2 DEF IsFrame
  <2> HIDE DEF f
  <2>4. KindOf(f) = "map"
    BY <2>2, <2>3 DEF KindOf
  <2>5. IsFrame(s, f)
    BY <2>2, <2>3, <2>4 DEF IsFrame, States, KindsIn
  <2> QED BY <2>1, <2>3, <2>5, BecomesKeepsTypes
<1>4. CASE PairColon
  <2> DEFINE f == [top EXCEPT !.state = "pair_value"]
  <2>1. Reads("pair_colon", {":"}) /\ Becomes(f)
    BY <1>4 DEF PairColon, Goto
  <2>2. /\ IsFrame(s, top) /\ KindOf(top) = "map" /\ IsValue(s, field, m)
    BY <1>2, <2>1
  <2>3. /\ DOMAIN f = DOMAIN top /\ f.T = top.T /\ f.key = top.key /\ f.k = top.k /\ f.obj = top.obj
        /\ f.depth = top.depth /\ f.wantVal = top.wantVal /\ f.state = "pair_value"
    BY <2>2 DEF IsFrame
  <2> HIDE DEF f
  <2>4. KindOf(f) = "map"
    BY <2>2, <2>3 DEF KindOf
  <2>5. IsFrame(s, f)
    BY <2>2, <2>3, <2>4, SMTT(40) DEF IsFrame, States, KindsIn
  <2> QED BY <2>1, <2>3, <2>5, BecomesKeepsTypes
<1>5. CASE PairValue
  <2> DEFINE x == IF tok.t = "null" THEN << >> ELSE tok.v
             v == [k \in DOMAIN m \cup {top.k} |-> IF k = top.k THEN x ELSE m[k]]
  <2>1. /\ Reads("pair_value", {"string", "null"})
        /\ Becomes([top EXCEPT !.obj[top.key] = v, !.state = "pairs", !.wantVal = FALSE])
    BY <1>5 DEF PairValue
  <2>2. /\ KindOf(top) = "map" /\ IsValue(s, field, m) /\ field.kind = "map"
        /\ x \in s.texts /\ top.k \in s.texts
    BY <1>2, <2>1 DEF IsReading, IsFrame
  <2>3. DOMAIN m \subseteq s.texts /\ m \in [DOMAIN m -> s.texts]
    BY <2>2 DEF IsValue
  <2> HIDE DEF x, m, s
  <2>4. DOMAIN v \subseteq s.texts /\ v \in [DOMAIN v -> s.texts]
    BY <2>2, <2>3
  <2> HIDE DEF v, field
  <2>5. IsValue(s, field, v)
    BY <2>2, <2>4 DEF IsValue
  <2> QED BY <2>1, <2>2, <2>5, LoopKeepsTypes DEF LoopStates, KindsIn, field, s
<1> QED BY <1>1, <1>3, <1>4, <1>5

LEMMA SkippingKeepsTypes == ASSUME TypeOK, SkipField \/ Skip PROVE TypeOK'
<1>1. ASSUME NEW state, NEW tokens, Reads(state, tokens), NEW d \in Nat \ {0},
             Becomes([top EXCEPT !.state = "skip", !.depth = d])
      PROVE  TypeOK'
  <2> DEFINE f == [top EXCEPT !.state = "skip", !.depth = d]
  <2>1. IsFrame(ReadSoFar', top)
    BY <1>1, ReadingKeepsTypes
  <2>2. /\ DOMAIN f = DOMAIN top /\ f.T = top.T /\ f.key = top.key /\ f.k = top.k /\ f.obj = top.obj
        /\ f.depth = d /\ f.wantVal = top.wantVal /\ f.state = "skip"
    BY <2>1 DEF IsFrame
  <2>3. Becomes(f)
    BY <1>1
  <2> HIDE DEF f
  <2>4. IsFrame(ReadSoFar', f)
    BY <2>1, <2>2 DEF IsFrame, States, LoopStates
  <2> QED BY <1>1, <2>2, <2>3, <2>4, BecomesKeepsTypes
<1>2. CASE SkipField
  <2>1. CASE tok.t \in {"{", "["}
    <3>1. /\ Reads("want_value", ValueTokens)
          /\ Becomes([top EXCEPT !.state = "skip", !.depth = 1])
      BY <1>2, <2>1 DEF SkipField
    <3>2. 1 \in Nat \ {0}
      OBVIOUS
    <3> QED BY <1>1, <3>1, <3>2
  <2>2. CASE tok.t \notin {"{", "["}
    BY <1>2, <2>2, GotoKeepsTypes DEF SkipField, States, LoopStates
  <2> QED BY <2>1, <2>2
<1>3. CASE Skip
  <2> DEFINE d == IF tok.t \in {"{", "["} THEN top.depth + 1
                  ELSE IF tok.t \in {"}", "]"} THEN top.depth - 1 ELSE top.depth
             f == [top EXCEPT !.depth = d, !.state = IF d = 0 THEN "after_value" ELSE "skip"]
  <2>1. Reads("skip", Tokens) /\ Becomes(f)
    BY <1>3 DEF Skip
  <2>2. IsFrame(ReadSoFar', top) /\ top.state = "skip"
    BY <2>1, ReadingKeepsTypes
  <2>3. d \in Nat
    <3>1. top.depth \in Nat /\ top.depth > 0
      BY <2>2 DEF IsFrame
    <3> DEFINE k == top.depth
    <3>2. k \in Nat /\ k + 1 \in Nat /\ k - 1 \in Nat
      BY <3>1
    <3> HIDE DEF k
    <3>3. d \in {k, k + 1, k - 1}
      BY DEF k
    <3> HIDE DEF d
    <3> QED BY <3>2, <3>3
  <2> HIDE DEF d
  <2>4. /\ DOMAIN f = DOMAIN top /\ f.T = top.T /\ f.key = top.key /\ f.k = top.k /\ f.obj = top.obj
        /\ f.depth = d /\ f.wantVal = top.wantVal
        /\ f.state = IF d = 0 THEN "after_value" ELSE "skip"
    BY <2>2 DEF IsFrame
  <2> HIDE DEF f
  <2>5. IsFrame(ReadSoFar', f)
    BY <2>2, <2>3, <2>4 DEF IsFrame, States, LoopStates
  <2> QED BY <2>1, <2>4, <2>5, BecomesKeepsTypes
<1> QED BY <1>2, <1>3

LEMMA ParseKeepsTypes == ASSUME TypeOK, Parse PROVE TypeOK'
<1>1. CASE WrongToken
  BY <1>1 DEF WrongToken, TypeOK, ReadSoFar, ReadTokens
<1> QED BY <1>1, MainparseKeepsTypes, DoneKeepsTypes, ScalarsKeepTypes, PointerKeepsTypes,
           SlicesKeepTypes, ElementsKeepTypes, PairsKeepTypes, SkippingKeepsTypes DEF Parse

\* The connection breaks: what was read is what it was.
LEMMA BreakKeepsTypes == ASSUME TypeOK, Break PROVE TypeOK'
<1> DEFINE d == SubSeq(doc, 1, pos - 1)
           S == {doc[i] : i \in DOMAIN doc}
<1>1. /\ doc \in Seq(S) /\ pos \in 1..(Len(doc) + 1) /\ pos <= Len(doc)
      /\ doc' = d /\ pos' = pos /\ stack' = stack /\ outcome' = outcome
  BY DEF TypeOK, Break
<1> HIDE DEF S
<1>2. /\ d \in Seq(S) /\ Len(d) = pos - 1 /\ \A i \in 1..(pos - 1) : d[i] = doc[i]
  BY <1>1
<1> HIDE DEF d
<1>3. IsText'
  BY <1>1, <1>2, OwnRange DEF IsText
<1>4. \A class : ReadTokens(class)' = ReadTokens(class)
  BY <1>1, <1>2 DEF ReadTokens
<1>5. ReadSoFar' = ReadSoFar
  BY <1>4 DEF ReadSoFar
<1> QED BY <1>1, <1>3, <1>5 DEF TypeOK, IsText

\* The decoder starts with the tokens of an answer and a new struct of its type.
LEMMA InitTypes == Init => TypeOK
<1> SUFFICES ASSUME Init PROVE TypeOK
  OBVIOUS
<1>1. entries \in Maps /\ IsMap(entries)
  BY MapFacts DEF Init
<1>2. sent \in Answers(entries) /\ sent.status = 200
  BY DEF Init
<1>3. PICK b \in Bodies(Lexed(sent.body)) : edit = b.edit /\ Start(sent.T, b.doc)
  BY DEF Init
<1>4. IsBuffer(b.doc)
  BY <1>1, <1>2, BodyIsBuffer, DocIsBuffer
<1>5. IsText
  <2>1. PICK S : doc \in Seq(S)
    BY <1>3, <1>4 DEF Start, IsBuffer
  <2> QED BY <1>3, <2>1, OwnRange DEF IsText, Start
<1>6. sent.T \in Structs
  BY <1>1, <1>2, AnswerFacts, StructsAre DEF IsSDS, IsCDS, IsLDS
<1>7. IsReading(ReadSoFar)
  BY DEF IsReading, ReadSoFar
<1> DEFINE f == Frame(sent.T, Zero(sent.T), "map_start")
<1>8. IsFrame(ReadSoFar, f)
  BY <1>6, <1>7, ZeroIsObject, FrameIsFrame
<1>9. stack = <<f>> /\ outcome = "parsing"
  BY <1>3 DEF Start
<1> HIDE DEF f
<1>10. stack # << >> /\ Len(stack) = 1 /\ DOMAIN stack = 1..1 /\ stack[1] = f /\ stack \in Seq({f})
  BY <1>9
<1>11. IsNest(ReadSoFar, stack)
  BY <1>8, <1>10, OwnRange DEF IsNest
<1> QED BY <1>5, <1>9, <1>11, TypeOKIs

LEMMA NextKeepsTypes == ASSUME TypeOK, [Next]_vars PROVE TypeOK'
<1>1. CASE UNCHANGED vars
  BY <1>1 DEF vars, TypeOK, ReadSoFar, ReadTokens
<1>2. CASE Next
  BY <1>1, <1>2, ParseKeepsTypes, BreakKeepsTypes DEF Next, Decode, Returned
<1> QED BY <1>1, <1>2

(***************************************************************************)
(* Whatever the registrar's map holds and whatever becomes of the body on  *)
(* its way, the calls of UnmarshalJSONFFLexer are nested as the structs    *)
(* are, and every field of every object that they fill has a value of its  *)
(* kind, made of what was read.                                            *)
(***************************************************************************)
THEOREM ApiJsonTypes == Spec => []TypeOK
<1>1. Init => TypeOK
  BY InitTypes
<1>2. TypeOK /\ [Next]_vars => TypeOK'
  BY NextKeepsTypes
<1> QED BY <1>1, <1>2, PTL DEF Spec

-----------------------------------------------------------------------------
\* A token that is read is no longer to come; at the end of the text there is
\* none to read but for the loop over structs.
LEMMA ReadingProceeds ==
  ASSUME TypeOK, NEW state, NEW tokens, Reads(state, tokens),
         "eof" \in tokens => state = "skip"
  PROVE  pos <= Len(doc) /\ pos' = pos + 1 /\ doc' = doc /\ Len(doc) \in Nat /\ pos \in Nat
         /\ outcome = "parsing"
<1>1. /\ outcome = "parsing" /\ top.state = state /\ tok.t \in tokens /\ tok.t \in Accepted(top)
      /\ pos' = (IF pos <= Len(doc) THEN pos + 1 ELSE pos) /\ doc' = doc
  BY DEF Reads
<1>2. Len(doc) \in Nat /\ pos \in 1..(Len(doc) + 1)
  BY DEF TypeOK
<1>3. tok.t # "eof"
  BY <1>1 DEF Accepted
<1> QED BY <1>1, <1>2, <1>3 DEF tok

\* The part of Left that is not tokens.
Pending == IF outcome # "parsing" THEN 0 ELSE IF top.state = "elements" THEN 2 ELSE 1

LEMMA LeftIs ==
  /\ Left = 2 * (Len(doc) + 1 - pos) + Pending
  /\ Left' = 2 * (Len(doc') + 1 - pos') + Pending'
  /\ Pending \in 0..2 /\ (outcome = "parsing" => Pending \in 1..2)
  /\ Pending' \in 0..2 /\ (outcome' # "parsing" => Pending' = 0)
BY DEF Left, Pending

LEMMA StructElementProceeds == ASSUME TypeOK, StructElement PROVE Left' < Left
<1>1. Reads("elements", Tokens \ {"]", ","}) /\ outcome' = outcome
  BY DEF StructElement, Call, Goto, Becomes
<1>2. /\ outcome = "parsing" /\ top.state = "elements"
      /\ pos' = (IF pos <= Len(doc) THEN pos + 1 ELSE pos) /\ doc' = doc
  BY <1>1 DEF Reads
<1>3. Len(doc) \in Nat /\ pos \in 1..(Len(doc) + 1)
  BY DEF TypeOK
<1>4. CASE pos <= Len(doc)
  <2>1. Pending \in 1..2 /\ Pending' \in 0..2
    BY <1>2, LeftIs
  <2> QED BY <1>2, <1>3, <1>4, <2>1, LeftIs
<1>5. CASE ~(pos <= Len(doc))
  <2>1. tok.t = "eof"
    BY <1>5 DEF tok
  <2>2. stack' = Append(stack, Frame(Fields[top.T][top.key].of, Zero(Fields[top.T][top.key].of), "want_key"))
    BY <2>1 DEF StructElement, Call
  <2>3. top'.state = "want_key"
    BY <2>2 DEF top, Frame, TypeOK
  <2>4. Pending = 2 /\ Pending' = 1
    BY <1>1, <1>2, <2>3 DEF Pending
  <2> QED BY <1>2, <1>3, <1>5, <2>4, LeftIs
<1> QED BY <1>4, <1>5

\* Every step takes a token, or is the last, or is the call that the loop over
\* structs makes at the end of the text.
LEMMA ParseProceeds == ASSUME TypeOK, Parse PROVE Left' < Left
<1>1. ASSUME NEW state, NEW tokens, Reads(state, tokens), "eof" \in tokens => state = "skip"
      PROVE  Left' < Left
  <2>1. /\ pos <= Len(doc) /\ pos' = pos + 1 /\ doc' = doc /\ Len(doc) \in Nat /\ pos \in Nat
        /\ outcome = "parsing"
    BY <1>1, ReadingProceeds
  <2>2. Pending \in 1..2 /\ Pending' \in 0..2
    BY <2>1, LeftIs
  <2> QED BY <2>1, <2>2, LeftIs
<1>2. CASE WrongToken
  <2>1. outcome = "parsing" /\ outcome' = "error" /\ doc' = doc /\ pos' = pos
    BY <1>2 DEF WrongToken
  <2>2. Len(doc) \in Nat /\ pos \in Nat
    BY DEF TypeOK
  <2>3. Pending \in 1..2 /\ Pending' = 0
    BY <2>1, LeftIs
  <2> QED BY <2>1, <2>2, <2>3, LeftIs
<1>3. CASE StructElement
  BY <1>3, StructElementProceeds
<1>4. CASE MapStart \/ AfterValue \/ WantKey \/ WantColon \/ Done
  BY <1>1, <1>4 DEF MapStart, AfterValue, WantKey, WantColon, Done, Ends
<1>5. CASE handle_string \/ handle_int \/ handle_ptr \/ handle_slice \/ handle_map
  BY <1>1, <1>5 DEF handle_string, handle_int, handle_ptr, handle_slice, handle_map, ValueTokens
<1>6. CASE ElementsEnd \/ Comma \/ StringElement \/ PairsEnd \/ PairKey \/ PairColon \/ PairValue
  BY <1>1, <1>6 DEF ElementsEnd, Comma, StringElement, PairsEnd, PairKey, PairColon, PairValue
<1>7. CASE SkipField \/ Skip
  BY <1>1, <1>7 DEF SkipField, Skip, ValueTokens
<1> QED BY <1>2, <1>3, <1>4, <1>5, <1>6, <1>7 DEF Parse

LEMMA BreakProceeds == ASSUME TypeOK, Break PROVE Left' < Left
<1>1. /\ outcome = "parsing" /\ pos <= Len(doc) /\ doc' = SubSeq(doc, 1, pos - 1)
      /\ pos' = pos /\ stack' = stack /\ outcome' = outcome
  BY DEF Break
<1>2. Len(doc) \in Nat /\ pos \in 1..(Len(doc) + 1) /\ doc \in Seq({doc[i] : i \in DOMAIN doc})
  BY DEF TypeOK
<1>3. Len(doc') = pos - 1
  BY <1>1, <1>2
<1>4. Pending' = Pending /\ Pending \in 1..2
  BY <1>1 DEF Pending, top
<1> QED BY <1>1, <1>2, <1>3, <1>4, LeftIs

(***************************************************************************)
(* The decoder returns, for any entries and whether their answer is whole, *)
(* cut short or another version's: every step of a call of UnmarshalJSON   *)
(* leaves less to do, and no loop of it turns in place.                    *)
(***************************************************************************)
THEOREM ApiJsonDecoderEnds == Spec => DecoderEnds
<1>1. TypeOK /\ [Next]_vars => [Left' < Left]_vars
  <2> SUFFICES ASSUME TypeOK, Next, ~UNCHANGED vars PROVE Left' < Left
    OBVIOUS
  <2> QED BY ParseProceeds, BreakProceeds DEF Next, Decode, Returned
<1> QED BY <1>1, ApiJsonTypes, PTL DEF Spec, DecoderEnds

-----------------------------------------------------------------------------
\* Behind a cut there is no token left, and the end of the text ends no call.
CutInv == edit = "cut" => pos = Len(doc) + 1 /\ outcome # "done"

LEMMA NextKeepsCut == ASSUME TypeOK, CutInv, [Next]_vars PROVE CutInv'
<1>1. CASE UNCHANGED vars
  BY <1>1 DEF vars, CutInv
<1>2. CASE Break
  <2>1. doc \in Seq({doc[i] : i \in DOMAIN doc}) /\ pos \in 1..(Len(doc) + 1)
    BY DEF TypeOK
  <2>2. Len(SubSeq(doc, 1, pos - 1)) = pos - 1
    BY <1>2, <2>1 DEF Break
  <2> QED BY <1>2, <2>1, <2>2 DEF Break, CutInv
<1>3. CASE Decode
  <2> SUFFICES ASSUME edit = "cut" PROVE pos' = Len(doc') + 1 /\ outcome' # "done"
    BY <1>3 DEF Decode, CutInv
  <2>1. pos = Len(doc) + 1 /\ outcome # "done" /\ Len(doc) \in Nat
    BY DEF CutInv, TypeOK
  <2>2. tok.t = "eof"
    BY <2>1 DEF tok
  <2>3. ASSUME NEW state, NEW tokens, Reads(state, tokens)
        PROVE  "eof" \in tokens /\ pos' = Len(doc') + 1
    BY <2>1, <2>2, <2>3 DEF Reads
  <2>4. CASE WrongToken
    BY <2>1, <2>4 DEF WrongToken
  <2>5. CASE Skip
    BY <2>1, <2>3, <2>5 DEF Skip, Becomes
  <2>6. CASE StructElement
    BY <2>1, <2>3, <2>6 DEF StructElement, Goto, Becomes, Call
  <2>7. ASSUME NEW state, NEW tokens, Reads(state, tokens), "eof" \notin tokens
        PROVE  FALSE
    BY <2>3, <2>7
  <2>8. CASE MapStart \/ AfterValue \/ WantKey \/ WantColon \/ Done
    BY <2>7, <2>8 DEF MapStart, AfterValue, WantKey, WantColon, Done, Ends
  <2>9. CASE handle_string \/ handle_int \/ handle_ptr \/ handle_slice \/ handle_map \/ SkipField
    BY <2>7, <2>9 DEF handle_string, handle_int, handle_ptr, handle_slice, handle_map, SkipField,
                      ValueTokens
  <2>10. CASE ElementsEnd \/ Comma \/ StringElement \/ PairsEnd \/ PairKey \/ PairColon \/ PairValue
    BY <2>7, <2>10 DEF ElementsEnd, Comma, StringElement, PairsEnd, PairKey, PairColon, PairValue
  <2> QED BY <1>3, <2>4, <2>5, <2>6, <2>8, <2>9, <2>10 DEF Decode, Parse
<1>4. CASE Returned
  BY <1>1, <1>4 DEF Returned
<1> QED BY <1>1, <1>2, <1>3, <1>4 DEF Next

(***************************************************************************)
(* A body that a broken connection cut short is never taken for a complete *)
(* answer.                                                                 *)
(***************************************************************************)
THEOREM ApiJsonCutIsRejected == Spec => []CutIsRejected
<1>1. Init => CutInv
  <2> SUFFICES ASSUME Init PROVE edit # "cut"
    BY DEF CutInv
  <2>1. PICK b \in Bodies(Lexed(sent.body)) : edit = b.edit
    BY DEF Init
  <2> QED BY <2>1 DEF Bodies
<1>2. TypeOK /\ CutInv /\ [Next]_vars => CutInv'
  BY NextKeepsCut
<1>3. CutInv => CutIsRejected
  BY DEF CutInv, CutIsRejected
<1> QED BY <1>1, <1>2, <1>3, ApiJsonTypes, PTL DEF Spec

-----------------------------------------------------------------------------
(***************************************************************************)
(* The round trip. The lexer leaves out the blanks, which move nothing.    *)
(***************************************************************************)

Spaced(w)   == [i \in DOMAIN w |-> IF w[i].t = " " THEN << >> ELSE <<w[i]>>]
NoBlanks(w) == IsBuffer(w) /\ \A i \in DOMAIN w : w[i].t # " "

\* The tokens without the blanks, before they are put in one sequence.
LEMMA SpacedFacts ==
  ASSUME NEW w, IsBuffer(w)
  PROVE  /\ IsBuffer(Spaced(w)) /\ Len(Spaced(w)) = Len(w) /\ DOMAIN Spaced(w) = DOMAIN w
         /\ \A i \in DOMAIN w : Spaced(w)[i] = IF w[i].t = " " THEN << >> ELSE <<w[i]>>
         /\ \A i \in DOMAIN Spaced(w) : IsBuffer(Spaced(w)[i])
         /\ Lexed(w) = FlattenSeq(Spaced(w))
<1> DEFINE ss == Spaced(w)
<1>1. /\ DOMAIN ss = DOMAIN w /\ ss = [i \in DOMAIN ss |-> ss[i]]
      /\ \A i \in DOMAIN w : ss[i] = IF w[i].t = " " THEN << >> ELSE <<w[i]>>
  BY DEF Spaced
<1>2. Lexed(w) = FlattenSeq(ss)
  BY DEF Lexed, Spaced
<1> HIDE DEF ss
<1>3. IsBuffer(ss)
  BY <1>1, SameIndicesIsBuffer
<1>4. Len(ss) = Len(w)
  BY <1>1, <1>3, SameLength
<1>5. \A i \in DOMAIN ss : IsBuffer(ss[i])
  BY <1>1, TokensAreBuffers
<1> QED BY <1>1, <1>2, <1>3, <1>4, <1>5 DEF ss

\* Two texts without blanks make one.
LEMMA NoBlanksConcat ==
  ASSUME NEW s, NEW t, NoBlanks(s), NoBlanks(t)
  PROVE  NoBlanks(s \o t)
<1>1. IsBuffer(s \o t)
  BY ConcatIsBuffer DEF NoBlanks
<1>2. PICK S : s \in Seq(S)
  BY DEF NoBlanks, IsBuffer
<1>3. PICK T : t \in Seq(T)
  BY DEF NoBlanks, IsBuffer
<1>4. ASSUME NEW i \in DOMAIN (s \o t)
      PROVE  (\E j \in DOMAIN s : (s \o t)[i] = s[j]) \/ (\E j \in DOMAIN t : (s \o t)[i] = t[j])
  BY <1>2, <1>3
<1> QED BY <1>1, <1>4 DEF NoBlanks

\* A blank moves nothing.
LEMMA BlankMoves == ASSUME NEW s, NEW x, NEW t, Moves(s, x, t), x.t = " " PROVE s = t
<1>1. ASSUME NEW f, NEW g, Turns(f, x, g) PROVE FALSE
  <2>1. x.t \in {"string", ":", "integer", "null", "[", "{", ",", "]", "}"}
    BY <1>1, Zenon DEF Turns, TurnsIn
  <2>2. " " \notin {"string", ":", "integer", "null", "[", "{", ",", "]", "}"}
    OBVIOUS
  <2> QED BY <2>1, <2>2
<1>2. ASSUME NEW f, NEW h, Enters(f, x, h) PROVE FALSE
  BY <1>2 DEF Enters
<1>3. ASSUME NEW f, NEW g, NEW h, Returns(f, h, x, g) PROVE FALSE
  BY <1>3 DEF Returns
<1> QED BY <1>1, <1>2, <1>3 DEF Moves

\* The lexer leaves out what moves nothing.
LEMMA LexedRuns ==
  ASSUME NEW w, NEW a, NEW b, Runs(w, a, b)
  PROVE  Runs(Lexed(w), a, b) /\ NoBlanks(Lexed(w))
<1> DEFINE ss   == Spaced(w)
           L(n) == FlattenSeq(SubSeq(ss, 1, n))
<1>1. PICK s : /\ s[0] = a /\ s[Len(w)] = b
               /\ \A i \in 1..Len(w) : Moves(s[i - 1], w[i], s[i])
  BY DEF Runs
<1> DEFINE U == {n \in Nat : n <= Len(w) => Runs(L(n), a, s[n]) /\ NoBlanks(L(n))}
<1>2. /\ IsBuffer(ss) /\ Len(ss) = Len(w)
      /\ \A i \in DOMAIN w : ss[i] = IF w[i].t = " " THEN << >> ELSE <<w[i]>>
      /\ \A i \in DOMAIN ss : IsBuffer(ss[i])
      /\ Lexed(w) = FlattenSeq(ss)
  BY SpacedFacts DEF Runs
<1>3. Len(w) \in Nat /\ DOMAIN w = 1..Len(w)
  BY DEF Runs, IsBuffer
<1>4. /\ L(0) = << >> /\ L(Len(w)) = Lexed(w)
      /\ \A n \in Nat : n < Len(w) => L(n + 1) = L(n) \o ss[n + 1]
  BY <1>2, FlattenPrefix
<1>5. IsBuffer(<< >>) /\ DOMAIN << >> = {}
  BY TokensAreBuffers
<1> HIDE DEF L, ss
<1>6. Nat \subseteq U
  <2>1. 0 \in U
    BY <1>1, <1>4, <1>5, RunsNone DEF NoBlanks
  <2>2. ASSUME NEW n \in Nat, n \in U PROVE n + 1 \in U
    <3> SUFFICES ASSUME n < Len(w) PROVE Runs(L(n + 1), a, s[n + 1]) /\ NoBlanks(L(n + 1))
      BY <1>3
    <3>1. Runs(L(n), a, s[n]) /\ NoBlanks(L(n))
      BY <1>3, <2>2
    <3> DEFINE x == w[n + 1]
    <3>2. n + 1 \in DOMAIN w /\ n + 1 \in 1..Len(w) /\ (n + 1) - 1 = n
      BY <1>3
    <3>3. Moves(s[n], x, s[n + 1])
      <4>1. Moves(s[(n + 1) - 1], w[n + 1], s[n + 1])
        BY <1>1, <3>2
      <4> QED BY <3>2, <4>1
    <3>4. ss[n + 1] = IF x.t = " " THEN << >> ELSE <<x>>
      BY <1>2, <3>2
    <3>5. L(n + 1) = L(n) \o ss[n + 1]
      BY <1>4
    <3> HIDE DEF x, U
    <3>6. Runs(ss[n + 1], s[n], s[n + 1]) /\ NoBlanks(ss[n + 1])
      <4>1. CASE x.t = " "
        BY <1>5, <3>3, <3>4, <4>1, BlankMoves, RunsNone DEF NoBlanks
      <4>2. CASE x.t # " "
        <5>1. IsBuffer(<<x>>) /\ \A i \in DOMAIN <<x>> : <<x>>[i] = x
          BY TokensAreBuffers
        <5> QED BY <3>3, <3>4, <4>2, <5>1, RunsOne DEF NoBlanks
      <4> QED BY <4>1, <4>2
    <3> DEFINE q == L(n)
               r == ss[n + 1]
    <3>7. Runs(q, a, s[n]) /\ NoBlanks(q) /\ Runs(r, s[n], s[n + 1]) /\ NoBlanks(r)
      BY <3>1, <3>6
    <3> HIDE DEF q, r
    <3>8. Runs(q \o r, a, s[n + 1]) /\ NoBlanks(q \o r)
      BY <3>7, RunsOn, NoBlanksConcat
    <3> QED BY <3>5, <3>8 DEF q, r
  <2> HIDE DEF U
  <2> QED BY <2>1, <2>2, InductionOnSet
<1>7. Runs(L(Len(w)), a, s[Len(w)]) /\ NoBlanks(L(Len(w)))
  BY <1>3, <1>6
<1> QED BY <1>1, <1>4, <1>7

\* A text with a token more, up to the one before it.
LEMMA OneMore ==
  ASSUME NEW w, IsBuffer(w), NEW x
  PROVE  LET v == w \o <<x>>
             n == Len(w) IN
         /\ n \in Nat /\ Len(v) = n + 1 /\ v[n + 1] = x /\ \A i \in 1..n : v[i] = w[i]
         /\ DOMAIN w = 1..n /\ DOMAIN v = 1..(n + 1)
<1>1. PICK S : w \in Seq(S)
  BY DEF IsBuffer
<1>2. w \in Seq(S \cup {x}) /\ <<x>> \in Seq(S \cup {x}) /\ Len(<<x>>) = 1 /\ <<x>>[1] = x
  BY <1>1
<1> QED BY <1>2

\* The same, of two texts that agree up to the last token of one.
LEMMA SameStart ==
  ASSUME NEW s, IsBuffer(s), NEW t, IsBuffer(t), Len(s) = Len(t) + 1,
         \A i \in 1..Len(t) : s[i] = t[i]
  PROVE  SubSeq(s, 1, Len(t)) = t
<1>1. PICK S : s \in Seq(S)
  BY DEF IsBuffer
<1>2. PICK T : t \in Seq(T)
  BY DEF IsBuffer
<1>3. Len(t) \in Nat /\ t \in [1..Len(t) -> T] /\ s \in [1..(Len(t) + 1) -> S]
  BY <1>1, <1>2
<1> DEFINE u == SubSeq(s, 1, Len(t))
<1>4. u \in Seq(S) /\ Len(u) = Len(t) /\ \A i \in 1..Len(t) : u[i] = s[i]
  BY <1>1, <1>3
<1> HIDE DEF u
<1>5. DOMAIN u = 1..Len(t) /\ u = [i \in DOMAIN u |-> u[i]] /\ t = [i \in 1..Len(t) |-> t[i]]
  BY <1>3, <1>4
<1> QED BY <1>4, <1>5 DEF u

\* A token that is no blank.
Solid(x) == x.t # " "

\* The lexer takes the tokens one after the other.
LEMMA LexedAppend ==
  ASSUME NEW w, IsBuffer(w), NEW x, Solid(x)
  PROVE  Lexed(w \o <<x>>) = Lexed(w) \o <<x>>
<1> DEFINE v  == w \o <<x>>
           n  == Len(w)
           sv == Spaced(v)
           sw == Spaced(w)
<1>1. /\ n \in Nat /\ Len(v) = n + 1 /\ v[n + 1] = x /\ \A i \in 1..n : v[i] = w[i]
      /\ DOMAIN w = 1..n /\ DOMAIN v = 1..(n + 1)
  BY OneMore
<1>2. IsBuffer(v)
  BY ConcatIsBuffer, TokensAreBuffers
<1> HIDE DEF v, n
<1>3. /\ IsBuffer(sv) /\ Len(sv) = n + 1 /\ DOMAIN sv = 1..(n + 1)
      /\ \A i \in DOMAIN v : sv[i] = IF v[i].t = " " THEN << >> ELSE <<v[i]>>
      /\ \A i \in DOMAIN sv : IsBuffer(sv[i])
      /\ Lexed(v) = FlattenSeq(sv)
  BY <1>1, <1>2, SpacedFacts
<1>4. /\ IsBuffer(sw) /\ Len(sw) = n /\ DOMAIN sw = 1..n
      /\ \A i \in DOMAIN w : sw[i] = IF w[i].t = " " THEN << >> ELSE <<w[i]>>
      /\ Lexed(w) = FlattenSeq(sw)
  BY <1>1, SpacedFacts DEF n
<1> HIDE DEF sv, sw
<1>5. SubSeq(sv, 1, n) = sw
  <2>1. \A i \in 1..n : v[i] = w[i] /\ i \in DOMAIN v
    BY <1>1
  <2>2. \A i \in 1..Len(sw) : sv[i] = sw[i]
    BY <1>1, <1>3, <1>4, <2>1
  <2> QED BY <1>3, <1>4, <2>2, SameStart
<1>6. FlattenSeq(SubSeq(sv, 1, n + 1)) = FlattenSeq(SubSeq(sv, 1, n)) \o sv[n + 1]
      /\ FlattenSeq(SubSeq(sv, 1, n + 1)) = FlattenSeq(sv)
  <2> DEFINE l == Len(sv)
  <2>1. n \in Nat /\ l = n + 1
    BY <1>1, <1>3
  <2> HIDE DEF l
  <2>3. n < l
    BY <2>1
  <2>2. /\ FlattenSeq(SubSeq(sv, 1, Len(sv))) = FlattenSeq(sv)
        /\ \A m \in Nat : m < Len(sv) =>
             FlattenSeq(SubSeq(sv, 1, m + 1)) = FlattenSeq(SubSeq(sv, 1, m)) \o sv[m + 1]
    BY <1>3, FlattenPrefix
  <2> QED BY <2>1, <2>2, <2>3 DEF l
<1>7. sv[n + 1] = <<x>>
  <2>1. n + 1 \in DOMAIN v
    BY <1>1
  <2>2. sv[n + 1] = IF v[n + 1].t = " " THEN << >> ELSE <<v[n + 1]>>
    BY <1>3, <2>1
  <2>3. v[n + 1] = x
    BY <1>1
  <2> QED BY <2>2, <2>3 DEF Solid
<1> QED BY <1>3, <1>4, <1>5, <1>6, <1>7 DEF v

\* A text that the decoder goes through to its last bracket, from its first call on.
Reading(d, w, h, T, mj) ==
  /\ d = w \o Tok("}") /\ NoBlanks(w) /\ Runs(w, <<Frame(T, Zero(T), "map_start")>>, <<h>>)
  /\ h.state \in {"want_key", "after_value"} /\ h.obj = mj

\* What is encoded is read from its first bracket to its last.
LEMMA BodyRuns ==
  ASSUME NEW body, NEW T, NEW mj, Encodes(body, T, mj)
  PROVE  \E w, h : Reading(Lexed(body), w, h, T, mj)
<1> DEFINE f == Frame(T, Zero(T), "map_start")
           g == Frame(T, Zero(T), "want_key")
           b == << >>
<1>1. PICK m : /\ body = (Tok("{") \o m) \o Tok("}") /\ IsBuffer(m)
               /\ \A base : IsBuffer(base) =>
                    \E h : /\ Runs(m, Append(base, g), Append(base, h))
                           /\ h.state \in {"want_key", "after_value"} /\ h.obj = mj
  BY DEF Encodes
<1>2. IsBuffer(b) /\ \A x : Append(b, x) = <<x>>
  BY TokensAreBuffers
<1>3. PICK h : Runs(m, Append(b, g), Append(b, h)) /\ h.state \in {"want_key", "after_value"}
               /\ h.obj = mj
  BY <1>1, <1>2
<1>4. Runs(Tok("{"), Append(b, f), Append(b, g))
  <2>1. f.state = "map_start" /\ g = Gone(f, "want_key")
    BY FrameIsAt, AtFacts, AtChanges
  <2> HIDE DEF f, g
  <2>2. Turns(f, [t |-> "{", v |-> << >>], g)
    BY <2>1 DEF Turns, TurnsIn
  <2> QED BY <1>2, <2>2, TurnRuns DEF Tok
<1> DEFINE v == Tok("{") \o m
           w == Lexed(v)
<1> HIDE DEF f, g
<1>5. Runs(v, Append(b, f), Append(b, h))
  BY <1>3, <1>4, RunsOn
<1> HIDE DEF v, b
<1>6. Runs(w, Append(b, f), Append(b, h)) /\ NoBlanks(w)
  BY <1>5, LexedRuns
<1>7. Runs(w, <<f>>, <<h>>)
  <2>1. Append(b, f) = <<f>> /\ Append(b, h) = <<h>>
    BY <1>2
  <2> QED BY <1>6, <2>1
<1>8. Lexed(body) = w \o Tok("}")
  <2> DEFINE x == [t |-> "}", v |-> << >>]
  <2>1. Solid(x) /\ Tok("}") = <<x>>
    BY DEF Solid, Tok
  <2> HIDE DEF x
  <2>2. IsBuffer(v)
    BY <1>5 DEF Runs
  <2>3. Lexed(v \o <<x>>) = Lexed(v) \o <<x>>
    BY <2>1, <2>2, LexedAppend
  <2> QED BY <1>1, <2>1, <2>3 DEF v
<1> HIDE DEF w
<1> QED BY <1>3, <1>6, <1>7, <1>8 DEF Reading, f

-----------------------------------------------------------------------------
(***************************************************************************)
(* The decoder does what Moves says, and nothing else.                     *)
(***************************************************************************)

\* The decoder does what Moves says, and nothing else, at a token that moves it.
TokenLeft == outcome = "parsing" /\ pos \in Nat /\ pos <= Len(doc)
Proceeds(t) == stack' = t /\ outcome' = "parsing" /\ pos' = pos + 1 /\ doc' = doc

\* The last element of a sequence replaced.
LEMMA LastReplaced ==
  ASSUME NEW base, IsBuffer(base), NEW f, NEW g
  PROVE  [Append(base, f) EXCEPT ![Len(base) + 1] = g] = Append(base, g)
<1>1. PICK S : base \in Seq(S)
  BY DEF IsBuffer
<1> DEFINE n == Len(base)
           R == (S \cup {f}) \cup {g}
           s == Append(base, f)
           t == Append(base, g)
<1>2. base \in Seq(R) /\ f \in R /\ g \in R
  BY <1>1
<1> HIDE DEF R
<1>3. /\ n \in Nat /\ s \in [1..(n + 1) -> R] /\ t \in [1..(n + 1) -> R]
      /\ t[n + 1] = g /\ \A i \in 1..n : s[i] = base[i] /\ t[i] = base[i]
  <2>1. s \in Seq(R) /\ t \in Seq(R) /\ Len(s) = n + 1 /\ Len(t) = n + 1 /\ n \in Nat
    BY <1>2
  <2>2. t[n + 1] = g /\ \A i \in 1..n : s[i] = base[i] /\ t[i] = base[i]
    BY <1>2
  <2> HIDE DEF s, t, n
  <2> QED BY <2>1, <2>2
<1> DEFINE u == [s EXCEPT ![n + 1] = g]
<1> HIDE DEF s, t, n
<1>4. /\ u = [i \in 1..(n + 1) |-> u[i]] /\ t = [i \in 1..(n + 1) |-> t[i]]
      /\ \A i \in 1..(n + 1) : u[i] = IF i = n + 1 THEN g ELSE s[i]
  BY <1>3
<1>5. ASSUME NEW i \in 1..(n + 1) PROVE u[i] = t[i]
  <2>1. CASE i = n + 1
    BY <1>3, <1>4, <2>1
  <2>2. CASE i # n + 1
    <3>1. i \in 1..n
      BY <1>3, <2>2
    <3>2. u[i] = s[i] /\ s[i] = base[i] /\ t[i] = base[i]
      BY <1>3, <1>4, <2>2, <3>1
    <3> QED BY <3>2
  <2> QED BY <2>1, <2>2
<1> HIDE DEF u
<1>6. u = t
  BY <1>4, <1>5
<1> QED BY <1>6 DEF u, s, t, n

\* The innermost call, and what Becomes makes of the stack.
LEMMA TopIs ==
  ASSUME NEW base, IsBuffer(base), NEW f, stack = Append(base, f)
  PROVE  /\ Len(stack) = Len(base) + 1 /\ Len(base) \in Nat /\ top = f
         /\ \A g : Becomes(g) => stack' = Append(base, g) /\ outcome' = outcome
         /\ SubSeq(stack, 1, Len(base)) = base
<1>1. PICK S : base \in Seq(S)
  BY DEF IsBuffer
<1>2. Len(stack) = Len(base) + 1 /\ Len(base) \in Nat /\ top = f /\ stack[Len(base) + 1] = f
  BY <1>1 DEF top
<1>3. ASSUME NEW g PROVE [Append(base, f) EXCEPT ![Len(base) + 1] = g] = Append(base, g)
  BY LastReplaced
<1>4. SubSeq(stack, 1, Len(base)) = base
  BY <1>1
<1>5. ASSUME NEW g, Becomes(g) PROVE stack' = Append(base, g) /\ outcome' = outcome
  BY <1>2, <1>3, <1>5 DEF Becomes
<1> QED BY <1>2, <1>4, <1>5

\* What the decoder does at token x, the innermost call being f, when it neither
\* returns nor fails.
Acts(f, x) ==
  \/ f.state = "map_start" /\ x.t = "{" /\ Becomes(Gone(f, "want_key"))
  \/ f.state = "after_value" /\ x.t = "," /\ Becomes(Gone(f, "want_key"))
  \/ f.state = "want_colon" /\ x.t = ":" /\ Becomes(Gone(f, "want_value"))
  \/ f.state = "want_key" /\ x.t = "string" /\ Becomes(Keyed(f, KeyOf(f.T, x.v)))
  \/ /\ f.state = "want_value" /\ KindOf(f) = "string" /\ x.t \in {"string", "null"}
     /\ x.t = "string" => Becomes(Assigned(f, x.v))
  \/ /\ f.state = "want_value" /\ KindOf(f) = "int" /\ x.t \in {"integer", "null"}
     /\ x.t = "integer" => Becomes(Assigned(f, x.v[1]))
  \/ /\ f.state = "want_value" /\ KindOf(f) = "ptr" /\ x.t = "null" /\ Becomes(Assigned(f, Nil))
  \/ /\ f.state = "want_value" /\ KindOf(f) = "ptr" /\ x.t # "null"
     /\ f.obj[f.key] = Nil => Call(Fields[f.T][f.key].of, Zero(Fields[f.T][f.key].of))
  \/ /\ f.state = "want_value" /\ KindOf(f) \in {"ptrs", "strings", "map"} /\ x.t = "null"
     /\ Becomes(Assigned(f, Nil))
  \/ /\ f.state = "want_value" /\ KindOf(f) \in {"ptrs", "strings"} /\ x.t = "["
     /\ Becomes(Opened(f, "elements"))
  \/ /\ f.state = "want_value" /\ KindOf(f) = "map" /\ x.t = "{" /\ Becomes(Opened(f, "pairs"))
  \/ f.state = "elements" /\ x.t = "]" /\ Becomes(Gone(f, "after_value"))
  \/ f.state \in {"elements", "pairs"} /\ x.t = "," /\ UNCHANGED <<stack, outcome>>
  \/ /\ f.state = "elements" /\ KindOf(f) = "strings" /\ x.t \in {"string", "null"}
     /\ x.t = "string" => Becomes(Extended(f, x.v))
  \/ /\ f.state = "elements" /\ KindOf(f) = "ptrs" /\ x.t \notin {"]", ","}
     /\ x.t # "null" => Call(Fields[f.T][f.key].of, Zero(Fields[f.T][f.key].of))
  \/ f.state = "pairs" /\ x.t = "}" /\ Becomes(Gone(f, "after_value"))
  \/ f.state = "pairs" /\ x.t \in {"string", "null"} /\ (x.t = "string" => Becomes(Named(f, x.v)))
  \/ f.state = "pair_colon" /\ x.t = ":" /\ Becomes(Gone(f, "pair_value"))
  \/ /\ f.state = "pair_value" /\ x.t \in {"string", "null"}
     /\ x.t = "string" => Becomes(Paired(f, x.v))
  \/ /\ f.state = "want_value" /\ KindOf(f) = "skipped"
     /\ x.t \in {"{", "["} => Becomes(Skipped(f, 1))
  \/ f.state = "skip" /\ Becomes(Skipped(f, Depth(f.depth, x.t)))

\* Each action of the decoder is one of those.
LEMMA MainparseActs ==
  ASSUME TokenLeft, MapStart \/ AfterValue \/ WantColon \/ WantKey
  PROVE  Acts(top, doc[pos]) /\ pos' = pos + 1 /\ doc' = doc
<1>1. CASE MapStart
  BY <1>1 DEF MapStart, Goto, Gone, Acts, Reads, TokenLeft, tok
<1>2. CASE AfterValue
  BY <1>2 DEF AfterValue, Goto, Gone, Acts, Reads, TokenLeft, tok
<1>3. CASE WantColon
  BY <1>3 DEF WantColon, Goto, Gone, Acts, Reads, TokenLeft, tok
<1>4. CASE WantKey
  BY <1>4 DEF WantKey, Keyed, Acts, Reads, TokenLeft, tok
<1> QED BY <1>1, <1>2, <1>3, <1>4

\* The handlers at the first token of a value.
LEMMA ValuesAct ==
  ASSUME TokenLeft, handle_string \/ handle_int \/ handle_ptr \/ handle_slice \/ handle_map
  PROVE  Acts(top, doc[pos]) /\ pos' = pos + 1 /\ doc' = doc
<1>1. CASE handle_string
  BY <1>1 DEF handle_string, Assign, Assigned, Acts, Reads, TokenLeft, tok
<1>2. CASE handle_int
  BY <1>2 DEF handle_int, Assign, Assigned, Acts, Reads, TokenLeft, tok
<1>3. CASE handle_ptr
  BY <1>3 DEF handle_ptr, Assign, Assigned, Acts, Reads, TokenLeft, tok
<1>4. CASE handle_slice
  BY <1>4 DEF handle_slice, Assign, Assigned, Opened, Yes, Acts, Reads, TokenLeft, tok
<1>5. CASE handle_map
  BY <1>5 DEF handle_map, Assign, Assigned, Opened, Yes, Acts, Reads, TokenLeft, tok
<1> QED BY <1>1, <1>2, <1>3, <1>4, <1>5

\* What SkipField does to the call.
LEMMA SkipBegins ==
  ASSUME NEW f
  PROVE  [f EXCEPT !.state = "skip", !.depth = 1] = Skipped(f, 1)
<1> DEFINE a == [f EXCEPT !.state = "skip", !.depth = 1]
           b == [f EXCEPT !.depth = 1, !.state = "skip"]
<1>1. b = Skipped(f, 1)
  BY DEF Skipped
<1>2. a = [x \in DOMAIN f |-> a[x]] /\ b = [x \in DOMAIN f |-> b[x]]
  OBVIOUS
<1>3. \A x \in DOMAIN f : a[x] = b[x]
  OBVIOUS
<1> HIDE DEF a, b
<1>4. a = b
  BY <1>2, <1>3
<1> QED BY <1>1, <1>4 DEF a

LEMMA SkipGoesOn ==
  ASSUME TokenLeft, Skip
  PROVE  /\ top.state = "skip" /\ Becomes(Skipped(top, Depth(top.depth, doc[pos].t)))
         /\ pos' = pos + 1 /\ doc' = doc
<1>1. Reads("skip", Tokens) /\ Becomes(Skipped(top, Depth(top.depth, tok.t)))
  BY DEF Skip, Skipped, Depth
<1>2. tok = doc[pos]
  BY DEF TokenLeft, tok
<1>3. top.state = "skip" /\ pos' = pos + 1 /\ doc' = doc
  BY <1>1 DEF TokenLeft, Reads
<1> QED BY <1>1, <1>2, <1>3

\* The loops of slices and maps, and SkipField.
LEMMA LoopsAct ==
  ASSUME TokenLeft, \/ ElementsEnd \/ Comma \/ StringElement \/ StructElement \/ PairsEnd
                 \/ PairKey \/ PairColon \/ PairValue \/ SkipField \/ Skip
  PROVE  Acts(top, doc[pos]) /\ pos' = pos + 1 /\ doc' = doc
<1>1. CASE ElementsEnd
  BY <1>1 DEF ElementsEnd, Goto, Gone, Acts, Reads, TokenLeft, tok
<1>2. CASE Comma
  BY <1>2 DEF Comma, Acts, Reads, TokenLeft, tok
<1>3. CASE StringElement
  BY <1>3 DEF StringElement, Extended, No, Acts, Reads, TokenLeft, tok
<1>4. CASE StructElement
  BY <1>4 DEF StructElement, Goto, Gone, Acts, Reads, TokenLeft, tok
<1>5. CASE PairsEnd
  BY <1>5 DEF PairsEnd, Goto, Gone, Acts, Reads, TokenLeft, tok
<1>6. CASE PairKey
  BY <1>6 DEF PairKey, Named, Yes, Acts, Reads, TokenLeft, tok
<1>7. CASE PairColon
  BY <1>7 DEF PairColon, Goto, Gone, Acts, Reads, TokenLeft, tok
<1>8. CASE PairValue
  BY <1>8 DEF PairValue, Paired, Put, No, Acts, Reads, TokenLeft, tok
<1>9. CASE SkipField
  BY <1>9, SkipBegins DEF SkipField, Acts, Reads, TokenLeft, tok
<1>10. CASE Skip
  BY <1>10, SkipGoesOn DEF Acts, TokenLeft
<1> QED BY <1>1, <1>2, <1>3, <1>4, <1>5, <1>6, <1>7, <1>8, <1>9, <1>10

\* So is each of its steps.
LEMMA ParseActs ==
  ASSUME TokenLeft, Parse
  PROVE  \/ Acts(top, doc[pos]) /\ pos' = pos + 1 /\ doc' = doc
         \/ Done \/ WrongToken
BY MainparseActs, ValuesAct, LoopsAct DEF Parse

\* A token that moves the innermost call is one that it accepts.
LEMMA MovesAreAccepted ==
  ASSUME NEW f, NEW x, NEW g
  PROVE  /\ Turns(f, x, g) => x.t \in Accepted(f)
         /\ Also(f, x, g) => x.t \in Accepted(f)
         /\ Enters(f, x, g) => x.t \in Accepted(f)
         /\ f.state \in {"want_key", "after_value"} /\ x.t = "}" => x.t \in Accepted(f)
<1> USE DEF Accepted, Begins, Separator, Ends, Tokens, ValueTokens
<1>1. ASSUME Turns(f, x, g) PROVE x.t \in Accepted(f)
  BY <1>1 DEF Turns, TurnsIn, No
<1>2. ASSUME Enters(f, x, g) PROVE x.t \in Accepted(f)
  BY <1>2 DEF Enters, Waits
<1>3. ASSUME f.state \in {"want_key", "after_value"}, x.t = "}" PROVE x.t \in Accepted(f)
  BY <1>3
<1>4. ASSUME Also(f, x, g) PROVE x.t \in Accepted(f)
  BY <1>4 DEF Also, AlsoIn, No
<1> QED BY <1>1, <1>2, <1>3, <1>4

\* At a token that turns the innermost call, it does what Turns says.
LEMMA TurnActs ==
  ASSUME NEW f, NEW x, NEW g, Turns(f, x, g), Acts(f, x)
  PROVE  Becomes(g) \/ (g = f /\ UNCHANGED <<stack, outcome>>)
<1> DEFINE kind == KindOf(f)
<1>1. TurnsIn(f, kind, x, g) /\ Acts(f, x)
  BY DEF Turns
<1>2. Knows(f, x, g) => g = Keyed(f, KeyOf(f.T, x.v))
  BY DEF Knows, KeyOf
<1> QED BY <1>1, <1>2 DEF TurnsIn, Acts

LEMMA AlsoActs ==
  ASSUME NEW f, NEW x, NEW g, Also(f, x, g), Acts(f, x)
  PROVE  Becomes(g) \/ (g = f /\ UNCHANGED <<stack, outcome>>)
<1> DEFINE kind == KindOf(f)
<1>1. AlsoIn(f, kind, x, g) /\ Acts(f, x)
  BY DEF Also
<1> QED BY <1>1 DEF AlsoIn, Acts

\* At one that makes a call, it makes that call.
LEMMA EnterActs ==
  ASSUME NEW f, NEW x, NEW h, Enters(f, x, h), Acts(f, x)
  PROVE  stack' = Append(stack, h) /\ outcome' = outcome
<1> DEFINE T == Fields[f.T][f.key].of
<1>1. /\ Waits(f) /\ x.t = "{" /\ (f.state = "want_value" => f.obj[f.key] = Nil)
      /\ h = Frame(T, Zero(T), "want_key")
  BY DEF Enters
<1>2. Call(T, Zero(T))
  BY <1>1 DEF Waits, Acts
<1> QED BY <1>1, <1>2 DEF Call

\* At one that ends a call, the handler that made it goes on.
LEMMA ReturnActs ==
  ASSUME NEW base, IsBuffer(base), NEW f, NEW g, NEW h, NEW x, stack = Append(Append(base, f), h),
         Returns(f, h, x, g), Done
  PROVE  stack' = Append(base, g) /\ outcome' = outcome
<1> DEFINE b == Append(base, f)
<1>1. /\ IsBuffer(b) /\ Len(b) = Len(base) + 1 /\ Len(base) \in Nat
      /\ b[Len(base) + 1] = f
  <2>1. PICK S : base \in Seq(S)
    BY DEF IsBuffer
  <2>2. base \in Seq(S \cup {f})
    BY <2>1
  <2>3. b \in Seq(S \cup {f})
    BY <2>2
  <2> QED BY <2>1, <2>3 DEF IsBuffer
<1>2. stack = Append(b, h)
  OBVIOUS
<1> HIDE DEF b
<1>3. Len(stack) = Len(b) + 1 /\ top = h /\ SubSeq(stack, 1, Len(b)) = b
  BY <1>1, <1>2, TopIs
<1>4. stack[Len(b)] = f
  <2>1. PICK S : b \in Seq(S)
    BY <1>1 DEF IsBuffer
  <2> QED BY <1>1, <1>2, <2>1
<1>5. g = IF f.state = "elements" THEN [f EXCEPT !.obj[f.key] = Append(@, h.obj), !.wantVal = FALSE]
          ELSE [f EXCEPT !.obj[f.key] = h.obj, !.state = "after_value"]
  BY DEF Returns, Extended, Assigned, No
<1>6. stack' = [b EXCEPT ![Len(b)] = g] /\ outcome' = outcome
  <2>1. Len(stack) # 1 /\ Len(stack) - 1 = Len(b)
    BY <1>1, <1>3
  <2> QED BY ZenonT(90), <1>3, <1>4, <1>5, <2>1 DEF Done
<1>7. [b EXCEPT ![Len(base) + 1] = g] = Append(base, g)
  BY LastReplaced DEF b
<1> QED BY <1>1, <1>6, <1>7

\* done goes on to the next token.
LEMMA DoneReads ==
  ASSUME TokenLeft, Done
  PROVE  /\ top.state \in {"want_key", "after_value"} /\ doc[pos].t = "}"
         /\ pos' = pos + 1 /\ doc' = doc
BY DEF Done, Reads, TokenLeft, tok, Ends

\* An error is one.
LEMMA WrongIsWrong == ASSUME TokenLeft, WrongToken PROVE doc[pos].t \notin Accepted(top)
BY DEF WrongToken, TokenLeft, tok

\* The step of the decoder at a token that moves it.
LEMMA Follows ==
  ASSUME TokenLeft, Parse, NEW t, Steps(stack, doc[pos], t), Solid(doc[pos])
  PROVE  Proceeds(t)
<1> DEFINE x == doc[pos]
<1>1. \/ Acts(top, x) /\ pos' = pos + 1 /\ doc' = doc
      \/ Done \/ WrongToken
  BY ParseActs
<1>2. outcome = "parsing"
  BY DEF TokenLeft
<1>3. x.t # " "
  BY DEF Solid
<1> HIDE DEF x
<1>4. ASSUME NEW base, IsBuffer(base), NEW f, NEW g, stack = Append(base, f), t = Append(base, g),
             Turns(f, x, g) \/ Also(f, x, g)
      PROVE  Proceeds(t)
  <2>1. top = f /\ \A y : Becomes(y) => stack' = Append(base, y) /\ outcome' = outcome
    BY <1>4, TopIs
  <2>2. x.t \in Accepted(top)
    BY <1>4, <2>1, MovesAreAccepted
  <2>3. ~WrongToken
    BY <2>2, WrongIsWrong DEF x
  <2>4. ~Done
    <3>1. ~(f.state \in {"want_key", "after_value"} /\ x.t = "}")
      BY <1>4 DEF Turns, TurnsIn, Also, AlsoIn
    <3> QED BY <2>1, <3>1, DoneReads DEF x
  <2>5. Becomes(g) \/ (g = f /\ UNCHANGED <<stack, outcome>>)
    BY <1>1, <1>4, <2>1, <2>3, <2>4, TurnActs, AlsoActs
  <2>6. stack' = t /\ outcome' = outcome
    BY <1>4, <2>1, <2>5
  <2> QED BY <1>1, <1>2, <2>3, <2>4, <2>6 DEF Proceeds
<1>5. ASSUME NEW base, IsBuffer(base), NEW f, NEW h, stack = Append(base, f), t = Append(stack, h),
             Enters(f, x, h)
      PROVE  Proceeds(t)
  <2>1. top = f
    BY <1>5, TopIs
  <2>2. x.t \in Accepted(top)
    BY <1>5, <2>1, MovesAreAccepted
  <2>3. ~WrongToken
    BY <2>2, WrongIsWrong DEF x
  <2>4. ~Done
    <3>1. x.t = "{"
      BY <1>5 DEF Enters
    <3> QED BY <3>1, DoneReads DEF x
  <2>5. stack' = Append(stack, h) /\ outcome' = outcome
    BY <1>1, <1>5, <2>1, <2>3, <2>4, EnterActs
  <2> QED BY <1>1, <1>2, <1>5, <2>3, <2>4, <2>5 DEF Proceeds
<1>6. ASSUME NEW base, IsBuffer(base), NEW f, NEW g, NEW h, stack = Append(Append(base, f), h),
             t = Append(base, g), Returns(f, h, x, g)
      PROVE  Proceeds(t)
  <2>1. h.state \in {"want_key", "after_value"} /\ x.t = "}"
    BY <1>6 DEF Returns
  <2>2. top = h
    <3>1. IsBuffer(Append(base, f))
      <4>1. PICK S : base \in Seq(S)
        BY <1>6 DEF IsBuffer
      <4>2. base \in Seq(S \cup {f})
        BY <4>1
      <4>3. Append(base, f) \in Seq(S \cup {f})
        BY <4>2
      <4> QED BY <4>3 DEF IsBuffer
    <3> QED BY <1>6, <3>1, TopIs
  <2>3. x.t \in Accepted(top)
    BY <2>1, <2>2, MovesAreAccepted
  <2>4. ~WrongToken
    BY <2>3, WrongIsWrong DEF x
  <2>5. ~Acts(top, x)
    <3>1. top.state \in {"want_key", "after_value"}
      BY <2>1, <2>2
    <3> QED BY <2>1, <3>1 DEF Acts
  <2>6. Done
    BY <1>1, <2>4, <2>5
  <2>7. stack' = Append(base, g) /\ outcome' = outcome
    BY <1>6, <2>6, ReturnActs
  <2> QED BY <1>2, <1>6, <2>6, <2>7, DoneReads DEF Proceeds
<1> QED BY <1>3, <1>4, <1>5, <1>6 DEF Steps, Moves, x

\* At the bracket behind a text that it has gone through, the decoder is done.
LEMMA Finishes ==
  ASSUME TokenLeft, Parse, NEW h, stack = <<h>>, h.state \in {"want_key", "after_value"},
         doc[pos].t = "}"
  PROVE  outcome' = "done" /\ pos' = pos + 1 /\ UNCHANGED <<doc, stack>>
<1>1. top = h /\ Len(stack) = 1
  BY DEF top
<1>2. ~Acts(top, doc[pos])
  <2>1. top.state \in {"want_key", "after_value"}
    BY <1>1
  <2> QED BY <2>1 DEF Acts
<1>3. doc[pos].t \in Accepted(top)
  BY <1>1, MovesAreAccepted
<1>4. Done
  BY <1>2, <1>3, ParseActs, WrongIsWrong
<1>5. outcome' = "done" /\ UNCHANGED stack
  BY <1>1, <1>4 DEF Done
<1> QED BY <1>4, <1>5, DoneReads

\* A step of the decoder is one while it parses.
LEMMA ParseIsParsing == ASSUME Parse PROVE outcome = "parsing"
BY DEF Parse, MapStart, AfterValue, WantKey, WantColon, Done, WrongToken, handle_string,
       handle_int, handle_ptr, handle_slice, handle_map, ElementsEnd, Comma, StringElement,
       StructElement, PairsEnd, PairKey, PairColon, PairValue, SkipField, Skip, Reads

\* A text and the bracket behind it.
LEMMA BracketFacts ==
  ASSUME NEW w, IsBuffer(w)
  PROVE  /\ Len(w) \in Nat /\ Len(w \o Tok("}")) = Len(w) + 1 /\ DOMAIN w = 1..Len(w)
         /\ \A i \in 1..Len(w) : (w \o Tok("}"))[i] = w[i]
         /\ (w \o Tok("}"))[Len(w) + 1].t = "}"
<1> DEFINE x == [t |-> "}", v |-> << >>]
<1>1. Tok("}") = <<x>> /\ x.t = "}"
  BY DEF Tok
<1> HIDE DEF x
<1>2. PICK S : w \in Seq(S)
  BY DEF IsBuffer
<1>3. /\ Len(w) \in Nat /\ Len(w \o <<x>>) = Len(w) + 1 /\ DOMAIN w = 1..Len(w)
      /\ \A i \in 1..Len(w) : (w \o <<x>>)[i] = w[i]
      /\ (w \o <<x>>)[Len(w) + 1] = x
  <2>1. w \in Seq(S \cup {x}) /\ <<x>> \in Seq(S \cup {x})
    BY <1>2
  <2> QED BY <2>1
<1> QED BY <1>1, <1>3

-----------------------------------------------------------------------------
(***************************************************************************)
(* Bodies of another version: with keys in another case, with a member     *)
(* that no struct has, with tags.  The decoder goes through each of them   *)
(* to what it says.  First, where it is along a text of ours: what the     *)
(* tokens around a place in it say of the calls under way.                 *)
(***************************************************************************)

\* S is a set of structs from which no pointer leads out; st are calls for them.
Closed(S) ==
  S \subseteq Structs /\ \A T \in S : \A k \in Keys(T) :
    Fields[T][k].kind \in {"ptr", "ptrs"} => Fields[T][k].of \in S

IsCall(S, f) ==
  /\ DOMAIN f = {"T", "obj", "state", "key", "wantVal", "k", "depth"}
  /\ f.T \in S /\ f.key \in Keys(f.T) \cup {"no_such_key"}

Within(S, st) == IsBuffer(st) /\ \A j \in DOMAIN st : IsCall(S, st[j])

Inner(st) == st[Len(st)]

\* The innermost call, and those around it.
LEMMA InnerIs ==
  ASSUME NEW base, IsBuffer(base), NEW f, NEW S
  PROVE  /\ Inner(Append(base, f)) = f
         /\ Within(S, Append(base, f)) <=> Within(S, base) /\ IsCall(S, f)
<1>1. PICK B : base \in Seq(B)
  BY DEF IsBuffer
<1> DEFINE st == Append(base, f)
           n  == Len(base)
<1>2. /\ n \in Nat /\ DOMAIN base = 1..n /\ DOMAIN st = 1..(n + 1) /\ Len(st) = n + 1
      /\ st[n + 1] = f /\ \A j \in 1..n : st[j] = base[j]
  BY <1>1
<1>3. IsBuffer(st)
  BY AppendIsBuffer
<1> HIDE DEF st, n
<1>4. Inner(st) = f
  BY <1>2 DEF Inner
<1>5. ASSUME Within(S, st) PROVE Within(S, base) /\ IsCall(S, f)
  BY <1>2, <1>5 DEF Within
<1>6. ASSUME Within(S, base), IsCall(S, f) PROVE Within(S, st)
  <2>1. \A j \in 1..(n + 1) : j = n + 1 \/ j \in 1..n
    BY <1>2
  <2> QED BY <1>2, <1>3, <1>6, <2>1 DEF Within
<1> QED BY <1>4, <1>5, <1>6 DEF st

\* A call that goes on is a call; its struct is the one that it was made for.
LEMMA CallStays ==
  ASSUME NEW S, NEW f, IsCall(S, f)
  PROVE  /\ \A s : IsCall(S, Gone(f, s)) /\ Gone(f, s).state = s
                   /\ Gone(f, s).T = f.T /\ Gone(f, s).key = f.key
         /\ \A k \in Keys(f.T) : IsCall(S, Keyed(f, k)) /\ Keyed(f, k).state = "want_colon"
                                 /\ Keyed(f, k).T = f.T /\ Keyed(f, k).key = k
         /\ \A v : IsCall(S, Assigned(f, v)) /\ Assigned(f, v).state = "after_value"
         /\ \A s : IsCall(S, Opened(f, s)) /\ Opened(f, s).state = s
         /\ \A v : IsCall(S, Extended(f, v)) /\ Extended(f, v).state = f.state
<1>1. ASSUME NEW s PROVE /\ IsCall(S, Gone(f, s)) /\ Gone(f, s).state = s
                         /\ Gone(f, s).T = f.T /\ Gone(f, s).key = f.key
  BY DEF IsCall, Gone
<1>2. ASSUME NEW k \in Keys(f.T)
      PROVE  /\ IsCall(S, Keyed(f, k)) /\ Keyed(f, k).state = "want_colon"
             /\ Keyed(f, k).T = f.T /\ Keyed(f, k).key = k
  BY DEF IsCall, Keyed
<1>3. ASSUME NEW v PROVE IsCall(S, Assigned(f, v)) /\ Assigned(f, v).state = "after_value"
  BY DEF IsCall, Assigned
<1>4. ASSUME NEW s PROVE IsCall(S, Opened(f, s)) /\ Opened(f, s).state = s
  BY DEF IsCall, Opened
<1>5. ASSUME NEW v PROVE IsCall(S, Extended(f, v)) /\ Extended(f, v).state = f.state
  BY DEF IsCall, Extended
<1> QED BY <1>1, <1>2, <1>3, <1>4, <1>5

\* The innermost call is f, and g behind token x.
Leaves(S, f, x, g) ==
  /\ IsCall(S, g) /\ g.state # "map_start"
  /\ g.state = "want_value" => x.t = ":" /\ f.key = g.key /\ f.T = g.T
  /\ g.state = "want_colon" => f.state = "want_key" /\ Knows(f, x, g)
  /\ x.t = ":" => f.state = "want_colon" /\ g.state = "want_value"

\* A bracket opens a map; it is the first of the text; or it begins a call.
Begun(T, g) == g = Frame(T, Zero(T), "want_key")

Brackets(f, x, g) ==
  x.t = "{" => \/ f.state = "want_value" /\ KindOf(f) = "map"
               \/ f.state = "map_start" /\ g = Gone(f, "want_key")
               \/ \E T \in Structs : Begun(T, g)

\* Tokens behind which no key and no value is waited for.
LEMMA LeavesOther ==
  ASSUME NEW S, NEW f, NEW x, NEW g, IsCall(S, g), x.t # ":",
         g.state \in {"want_key", "after_value", "elements", "pairs"}
  PROVE  Leaves(S, f, x, g)
BY DEF Leaves

\* The tokens that a call reads itself.
LEMMA TurnLeaves ==
  ASSUME NEW S, NEW f, IsCall(S, f), NEW x, NEW g, Turns(f, x, g)
  PROVE  Leaves(S, f, x, g) /\ Brackets(f, x, g)
<1> DEFINE kind == KindOf(f)
<1>1. CASE f.state = "want_key" /\ x.t = "string" /\ Knows(f, x, g)
  <2>1. PICK k \in Keys(f.T) : g = Keyed(f, k)
    BY <1>1 DEF Knows
  <2>2. IsCall(S, g) /\ g.state = "want_colon"
    BY <2>1, CallStays
  <2> QED BY <1>1, <2>2 DEF Leaves, Brackets
<1>2. CASE f.state = "want_colon" /\ x.t = ":" /\ g = Gone(f, "want_value")
  <2>1. IsCall(S, g) /\ g.state = "want_value" /\ f.key = g.key /\ f.T = g.T
    BY <1>2, CallStays
  <2> QED BY <1>2, <2>1 DEF Leaves, Brackets
<1>3. CASE x.t \notin {":", "{"} /\ \E v : g = Assigned(f, v)
  <2>0. PICK v : g = Assigned(f, v)
    BY <1>3
  <2>1. IsCall(S, g) /\ g.state = "after_value"
    BY <2>0, CallStays
  <2> QED BY <1>3, <2>1, LeavesOther DEF Brackets
<1>4. CASE f.state = "want_value" /\ (x.t = "[" \/ (kind = "map" /\ x.t = "{"))
           /\ \E s \in {"elements", "pairs"} : g = Opened(f, s)
  <2>0. PICK s \in {"elements", "pairs"} : g = Opened(f, s)
    BY <1>4
  <2>1. IsCall(S, g) /\ g.state \in {"elements", "pairs"}
    BY <2>0, CallStays
  <2> QED BY <1>4, <2>1, LeavesOther DEF Brackets
<1>5. CASE f.state = "elements" /\ x.t \in {",", "string"} /\ (g = f \/ \E v : g = Extended(f, v))
  <2>0. f.state = "elements" /\ (g = f \/ \E v : g = Extended(f, v))
    BY <1>5
  <2>1. IsCall(S, g) /\ g.state = "elements"
    <3>1. CASE g = f
      BY <2>0, <3>1
    <3>2. CASE \E v : g = Extended(f, v)
      BY <2>0, <3>2, CallStays
    <3> QED BY <2>0, <3>1, <3>2
  <2> QED BY <1>5, <2>1, LeavesOther DEF Brackets
<1>6. CASE x.t \in {"]", "}", ","} /\ \E s \in {"after_value", "want_key"} : g = Gone(f, s)
  <2>0. PICK s \in {"after_value", "want_key"} : g = Gone(f, s)
    BY <1>6
  <2>1. IsCall(S, g) /\ g.state \in {"after_value", "want_key"}
    BY <2>0, CallStays
  <2> QED BY <1>6, <2>1, LeavesOther DEF Brackets
<1>7. CASE f.state = "map_start" /\ x.t = "{" /\ g = Gone(f, "want_key")
  <2>0. g = Gone(f, "want_key")
    BY <1>7
  <2>1. IsCall(S, g) /\ g.state = "want_key"
    BY <2>0, CallStays
  <2> QED BY <1>7, <2>1, LeavesOther DEF Brackets
<1>8. TurnsIn(f, kind, x, g)
  BY DEF Turns
<1> HIDE DEF kind
<1>9. CASE f.state = "want_value"
  <2>1. \/ x.t \notin {":", "{"} /\ \E v : g = Assigned(f, v)
        \/ (x.t = "[" \/ (kind = "map" /\ x.t = "{")) /\ \E s \in {"elements", "pairs"} : g = Opened(f, s)
    BY <1>8, <1>9, Zenon DEF TurnsIn
  <2> QED BY <1>3, <1>4, <1>9, <2>1
<1>10. CASE f.state = "elements"
  BY <1>5, <1>6, <1>8, <1>10, Zenon DEF TurnsIn
<1>11. CASE f.state \notin {"want_value", "elements"}
  BY <1>1, <1>2, <1>6, <1>7, <1>8, <1>11, Zenon DEF TurnsIn
<1> QED BY <1>9, <1>10, <1>11

\* The field that a call waits for leads to another struct of S.
LEMMA WaitsWithin ==
  ASSUME NEW S, Closed(S), NEW f, IsCall(S, f), Waits(f)
  PROVE  Fields[f.T][f.key].of \in S
<1>1. KindOf(f) \in {"ptr", "ptrs"}
  BY DEF Waits
<1>2. f.key \in Keys(f.T) /\ Fields[f.T][f.key].kind \in {"ptr", "ptrs"}
  BY <1>1 DEF KindOf, IsCall
<1> QED BY <1>2 DEF Closed, IsCall

\* What a token leaves of the stack s: the stack t.
Turned(s, x, t) ==
  \E base : /\ IsBuffer(base) /\ s = Append(base, Inner(s)) /\ t = Append(base, Inner(t))
            /\ Turns(Inner(s), x, Inner(t))

HasInner(t) == \E base : IsBuffer(base) /\ t = Append(base, Inner(t))

\* Every token leaves the stack so: the innermost call is one of S.
LEMMA MoveLeaves ==
  ASSUME NEW S, Closed(S), NEW s, Within(S, s), NEW x, Solid(x), NEW t, Moves(s, x, t)
  PROVE  /\ Within(S, t) /\ Leaves(S, Inner(s), x, Inner(t)) /\ Brackets(Inner(s), x, Inner(t))
         /\ HasInner(t) /\ (Inner(t).state = "want_colon" => Turned(s, x, t))
<1> DEFINE f == Inner(s)
           g == Inner(t)
<1>1. ASSUME NEW base, NEW f0, NEW g0, IsBuffer(base), s = Append(base, f0), t = Append(base, g0),
             Turns(f0, x, g0)
      PROVE  /\ Within(S, t) /\ Leaves(S, f, x, g) /\ Brackets(f, x, g)
             /\ HasInner(t) /\ (g.state = "want_colon" => Turned(s, x, t))
  <2>1. f = f0 /\ g = g0
    BY <1>1, InnerIs
  <2>2. Within(S, base) /\ IsCall(S, f0)
    BY <1>1, InnerIs
  <2>3. Leaves(S, f0, x, g0) /\ Brackets(f0, x, g0)
    BY <1>1, <2>2, TurnLeaves
  <2>4. IsCall(S, g0)
    BY <2>3 DEF Leaves
  <2>5. Within(S, t)
    BY <1>1, <2>2, <2>4, InnerIs
  <2>6. Turned(s, x, t)
    BY <1>1, <2>1 DEF Turned
  <2>7. HasInner(t)
    BY <1>1, <2>1 DEF HasInner
  <2> QED BY <2>1, <2>3, <2>5, <2>6, <2>7
<1>2. ASSUME NEW base, NEW f0, NEW h, IsBuffer(base), s = Append(base, f0), t = Append(s, h),
             Enters(f0, x, h)
      PROVE  /\ Within(S, t) /\ Leaves(S, f, x, g) /\ Brackets(f, x, g) /\ g.state # "want_colon"
             /\ HasInner(t)
  <2>1. IsBuffer(s)
    BY DEF Within
  <2>2. f = f0 /\ g = h /\ IsCall(S, f0)
    BY <1>2, <2>1, InnerIs, SMTT(40)
  <2> DEFINE T == Fields[f0.T][f0.key].of
  <2>3. T \in S
    BY <1>2, <2>2, WaitsWithin DEF Enters
  <2>4. h = Frame(T, Zero(T), "want_key") /\ x.t = "{"
    BY <1>2 DEF Enters
  <2> HIDE DEF T
  <2>5. IsCall(S, h) /\ h.state = "want_key"
    BY <2>3, <2>4 DEF Frame, IsCall
  <2>6. Within(S, t)
    BY <1>2, <2>1, <2>5, InnerIs
  <2>7. T \in Structs /\ Begun(T, g)
    BY <2>2, <2>3, <2>4 DEF Closed, Begun
  <2>8. Leaves(S, f, x, g)
    BY <2>2, <2>4, <2>5, LeavesOther
  <2>9. Brackets(f, x, g)
    BY <2>7 DEF Brackets
  <2>10. HasInner(t)
    BY <1>2, <2>1, <2>2 DEF HasInner
  <2> QED BY <2>2, <2>5, <2>6, <2>8, <2>9, <2>10
<1>3. ASSUME NEW base, NEW f0, NEW g0, NEW h, IsBuffer(base), s = Append(Append(base, f0), h),
             t = Append(base, g0), Returns(f0, h, x, g0)
      PROVE  /\ Within(S, t) /\ Leaves(S, f, x, g) /\ Brackets(f, x, g) /\ g.state # "want_colon"
             /\ HasInner(t)
  <2>1. IsBuffer(Append(base, f0)) /\ g = g0
    BY <1>3, AppendIsBuffer, InnerIs
  <2>2. Within(S, Append(base, f0))
    BY <1>3, <2>1, InnerIs
  <2>3. Within(S, base) /\ IsCall(S, f0)
    BY <1>3, <2>2, InnerIs
  <2>4. g0 = IF f0.state = "elements" THEN Extended(f0, h.obj) ELSE Assigned(f0, h.obj)
    BY <1>3 DEF Returns
  <2>5. IsCall(S, g0) /\ g0.state \in {"elements", "after_value"}
    <3>1. CASE f0.state = "elements"
      BY <2>3, <2>4, <3>1, CallStays
    <3>2. CASE f0.state # "elements"
      BY <2>3, <2>4, <3>2, CallStays
    <3> QED BY <3>1, <3>2
  <2>6. x.t = "}"
    BY <1>3 DEF Returns
  <2>7. Within(S, t)
    BY <1>3, <2>3, <2>5, InnerIs
  <2>8. Leaves(S, f, x, g) /\ Brackets(f, x, g)
    BY <2>1, <2>5, <2>6, LeavesOther DEF Brackets
  <2>9. HasInner(t)
    BY <1>3, <2>1 DEF HasInner
  <2> QED BY <2>1, <2>5, <2>7, <2>8, <2>9
<1> QED BY <1>1, <1>2, <1>3 DEF Moves, Solid

\* s has the stacks along the text w, in which no token moves more than one call on.
Along(T, w, s) ==
  /\ NoBlanks(w) /\ s[0] = <<Frame(T, Zero(T), "map_start")>>
  /\ \A i \in 1..Len(w) : Moves(s[i - 1], w[i], s[i])

\* What each token leaves.
Leads(S, w, s, i) ==
  /\ Within(S, s[i - 1]) /\ Within(S, s[i])
  /\ Leaves(S, Inner(s[i - 1]), w[i], Inner(s[i]))
  /\ Brackets(Inner(s[i - 1]), w[i], Inner(s[i]))
  /\ HasInner(s[i]) /\ (Inner(s[i]).state = "want_colon" => Turned(s[i - 1], w[i], s[i]))

\* A stack with one call.
LEMMA OneCall ==
  ASSUME NEW S, NEW f
  PROVE  Inner(<<f>>) = f /\ <<f>> = Append(<< >>, f) /\ IsBuffer(<< >>)
         /\ (IsCall(S, f) => Within(S, <<f>>))
<1>1. <<f>> = Append(<< >>, f) /\ IsBuffer(<< >>)
  BY TokensAreBuffers
<1>2. Within(S, << >>)
  BY <1>1 DEF Within
<1> DEFINE b == << >>
<1>3. b = << >> /\ IsBuffer(b) /\ <<f>> = Append(b, f) /\ Within(S, b)
  BY <1>1, <1>2
<1> HIDE DEF b
<1>4. Inner(Append(b, f)) = f /\ (Within(S, Append(b, f)) <=> Within(S, b) /\ IsCall(S, f))
  BY <1>3, InnerIs
<1> QED BY <1>3, <1>4

\* And so it is all along the text.
LEMMA AlongLeaves ==
  ASSUME NEW S, Closed(S), NEW T \in S, NEW w, NEW s, Along(T, w, s)
  PROVE  \A i \in 1..Len(w) : Leads(S, w, s, i)
<1> DEFINE f == Frame(T, Zero(T), "map_start")
           N == {n \in Nat : n <= Len(w) => Within(S, s[n])}
<1>0. Len(w) \in Nat /\ DOMAIN w = 1..Len(w)
  BY BracketFacts DEF Along, NoBlanks
<1>1. ASSUME NEW i \in 1..Len(w), Within(S, s[i - 1])
      PROVE  Leads(S, w, s, i)
  <2>1. Solid(w[i]) /\ Moves(s[i - 1], w[i], s[i])
    BY <1>0 DEF Along, NoBlanks, Solid
  <2> QED BY <1>1, <2>1, MoveLeaves DEF Leads
<1>2. 0 \in N
  <2>1. IsCall(S, f)
    BY DEF IsCall, Frame
  <2> HIDE DEF f
  <2>2. Within(S, <<f>>)
    BY <2>1, OneCall
  <2>3. s[0] = <<f>>
    BY DEF Along, f
  <2> QED BY <2>2, <2>3
<1>3. ASSUME NEW n \in Nat, n \in N PROVE n + 1 \in N
  <2> SUFFICES ASSUME n + 1 <= Len(w) PROVE Within(S, s[n + 1])
    OBVIOUS
  <2>1. n + 1 \in 1..Len(w) /\ (n + 1) - 1 = n /\ n <= Len(w)
    BY <1>0
  <2>2. Within(S, s[(n + 1) - 1])
    BY <1>3, <2>1
  <2>3. Leads(S, w, s, n + 1)
    BY <1>1, <2>1, <2>2
  <2> QED BY <2>3 DEF Leads
<1>4. Nat \subseteq N
  BY <1>2, <1>3, InductionOnSet
<1>5. ASSUME NEW i \in 1..Len(w) PROVE Within(S, s[i - 1])
  <2>1. i - 1 \in Nat /\ i - 1 <= Len(w)
    BY <1>0
  <2> QED BY <1>4, <2>1
<1> QED BY <1>1, <1>5

\* Token i is a key, which the call knows; a colon is behind it.
IsKey(S, w, s, i) ==
  /\ Inner(s[i]).state = "want_colon" /\ Inner(s[i + 1]).state = "want_value"
  /\ Inner(s[i + 1]).key = Inner(s[i]).key /\ Inner(s[i + 1]).T = Inner(s[i]).T
  /\ Knows(Inner(s[i - 1]), w[i], Inner(s[i])) /\ Inner(s[i - 1]).state = "want_key"
  /\ Turned(s[i - 1], w[i], s[i]) /\ IsCall(S, Inner(s[i - 1])) /\ IsCall(S, Inner(s[i]))

\* A colon is behind a key alone.
LEMMA ColonAfterKey ==
  ASSUME NEW S, Closed(S), NEW T \in S, NEW w, NEW s, Along(T, w, s),
         NEW i \in 1..Len(w), i + 1 \in 1..Len(w), w[i + 1].t = ":"
  PROVE  IsKey(S, w, s, i)
<1>1. Leads(S, w, s, i) /\ Leads(S, w, s, i + 1) /\ (i + 1) - 1 = i
  BY AlongLeaves
<1>2. Leaves(S, Inner(s[i]), w[i + 1], Inner(s[i + 1]))
  BY <1>1 DEF Leads
<1>3. /\ Inner(s[i]).state = "want_colon" /\ Inner(s[i + 1]).state = "want_value"
      /\ Inner(s[i + 1]).key = Inner(s[i]).key /\ Inner(s[i + 1]).T = Inner(s[i]).T
  BY <1>2 DEF Leaves
<1>4. Leaves(S, Inner(s[i - 1]), w[i], Inner(s[i]))
  BY <1>1 DEF Leads
<1>5. /\ Knows(Inner(s[i - 1]), w[i], Inner(s[i])) /\ Inner(s[i - 1]).state = "want_key"
      /\ IsCall(S, Inner(s[i]))
  BY <1>3, <1>4 DEF Leaves
<1>6. Turned(s[i - 1], w[i], s[i])
  BY <1>1, <1>3 DEF Leads
<1>7. IsCall(S, Inner(s[i - 1]))
  <2>1. PICK base : IsBuffer(base) /\ s[i - 1] = Append(base, Inner(s[i - 1]))
    BY <1>6 DEF Turned
  <2>2. Within(S, s[i - 1])
    BY <1>1 DEF Leads
  <2> DEFINE f == Inner(s[i - 1])
  <2>3. Within(S, Append(base, f))
    BY <2>1, <2>2
  <2> HIDE DEF f
  <2>4. IsCall(S, f)
    BY <2>1, <2>3, InnerIs
  <2> QED BY <2>4 DEF f
<1> QED BY <1>3, <1>5, <1>6, <1>7 DEF IsKey

\* The way back from a value: the key and the colon before it.
LEMMA ValueAfterColon ==
  ASSUME NEW S, Closed(S), NEW T \in S, NEW w, NEW s, Along(T, w, s),
         NEW i \in 1..Len(w), Inner(s[i - 1]).state = "want_value"
  PROVE  /\ i > 2 /\ w[i - 1].t = ":" /\ w[i - 2].v = <<Inner(s[i - 1]).key>>
         /\ IsCall(S, Inner(s[i - 1])) /\ Inner(s[i - 1]).key \in Keys(Inner(s[i - 1]).T)
<1>0. Len(w) \in Nat
  BY BracketFacts DEF Along, NoBlanks
<1>1. Inner(s[0]).state = "map_start"
  <2> DEFINE f == Frame(T, Zero(T), "map_start")
  <2>1. f.state = "map_start" /\ s[0] = <<f>>
    BY DEF Frame, Along
  <2> HIDE DEF f
  <2>2. Inner(<<f>>) = f
    BY OneCall
  <2> QED BY <2>1, <2>2
<1>2. i - 1 \in 1..Len(w) /\ (i - 1) - 1 = i - 2
  <2>1. i # 1
    BY <1>1
  <2> QED BY <1>0, <2>1
<1>3. Leads(S, w, s, i - 1)
  BY <1>2, AlongLeaves
<1>4. Leaves(S, Inner(s[i - 2]), w[i - 1], Inner(s[i - 1]))
  BY <1>2, <1>3 DEF Leads
<1>5. w[i - 1].t = ":" /\ Inner(s[i - 2]).state = "want_colon"
  BY <1>4 DEF Leaves
<1>6. i - 2 \in 1..Len(w) /\ (i - 2) + 1 = i - 1
  <2>1. i # 2
    BY <1>1, <1>5
  <2> QED BY <1>0, <1>2, <2>1
<1> DEFINE j == i - 2
<1>7. /\ Inner(s[i - 1]).key = Inner(s[j]).key /\ Inner(s[i - 1]).T = Inner(s[j]).T
      /\ Knows(Inner(s[j - 1]), w[j], Inner(s[j])) /\ IsCall(S, Inner(s[j - 1]))
  <2>1. j \in 1..Len(w) /\ j + 1 \in 1..Len(w) /\ w[j + 1].t = ":" /\ j + 1 = i - 1
    BY <1>2, <1>5, <1>6
  <2> HIDE DEF j
  <2>2. IsKey(S, w, s, j)
    BY <2>1, ColonAfterKey
  <2> QED BY <2>1, <2>2 DEF IsKey
<1>8. IsCall(S, Inner(s[i - 1]))
  BY <1>4 DEF Leaves
<1> HIDE DEF j
<1>9. PICK k \in Keys(Inner(s[j - 1]).T) :
        w[j] = [t |-> "string", v |-> <<k>>] /\ Inner(s[j]) = Keyed(Inner(s[j - 1]), k)
  BY <1>7 DEF Knows
<1>10. Inner(s[j]).key = k /\ Inner(s[j]).T = Inner(s[j - 1]).T
  BY <1>7, <1>9, CallStays
<1>11. w[j].v = <<Inner(s[i - 1]).key>> /\ Inner(s[i - 1]).key \in Keys(Inner(s[i - 1]).T)
  BY <1>7, <1>9, <1>10
<1>12. i > 2 /\ j = i - 2
  BY <1>6 DEF j
<1> QED BY <1>5, <1>8, <1>11, <1>12

\* The hosts are in the answer for a service alone; tags are what a service has.
LEMMA HostsAre ==
  ASSUME NEW T \in Structs, NEW k \in Keys(T)
  PROVE  /\ Fields[T][k].kind \in {"ptr", "ptrs"} /\ Fields[T][k].of = "EnvoyService" => T = "SDSResult"
         /\ Fields[T][k].kind \in {"ptr", "ptrs"} => Fields[T][k].of # "SDSResult"
         /\ Fields[T][k].kind = "map" => T = "EnvoyService" /\ k = "tags"
         /\ k = "tags" => T = "EnvoyService"
         /\ k # "new"
<1> USE StructsAre DEF Keys, String, Number, Strings, Map, Ptr, Ptrs
<1>1. CASE T = "CDSResult"
  BY <1>1 DEF Fields, CDSResultFields
<1>2. CASE T = "LDSResult"
  BY <1>2 DEF Fields, LDSResultFields
<1>3. CASE T = "SDSResult"
  BY <1>3 DEF Fields, SDSResultFields
<1>4. CASE T = "EnvoyService"
  BY <1>4 DEF Fields, EnvoyServiceFields
<1>5. CASE T = "EnvoyCluster"
  BY <1>5 DEF Fields, EnvoyClusterFields
<1>6. CASE T = "EnvoyListener"
  BY <1>6 DEF Fields, EnvoyListenerFields
<1>7. CASE T = "EnvoyFilter"
  BY <1>7 DEF Fields, EnvoyFilterFields
<1>8. CASE T = "EnvoyFilterConfig"
  BY <1>8 DEF Fields, EnvoyFilterConfigFields
<1>9. CASE T = "EnvoyRouteConfig"
  BY <1>9 DEF Fields, EnvoyRouteConfigFields
<1>10. CASE T = "EnvoyRoute"
  BY <1>10 DEF Fields, EnvoyRouteFields
<1>11. CASE T = "EnvoyHTTPVirtualHost"
  BY <1>11 DEF Fields, EnvoyHTTPVirtualHostFields
<1>12. CASE T = "EnvoyRouteDecorator"
  BY <1>12 DEF Fields, EnvoyRouteDecoratorFields
<1>13. CASE T = "EnvoyTracingConfig"
  BY <1>13 DEF Fields, EnvoyTracingConfigFields
<1>14. CASE T = "EnvoyTCPRoute"
  BY <1>14 DEF Fields, EnvoyTCPRouteFields
<1> QED BY <1>1, <1>2, <1>3, <1>4, <1>5, <1>6, <1>7, <1>8, <1>9, <1>10, <1>11, <1>12, <1>13, <1>14

Hostless == Structs \ {"SDSResult", "EnvoyService"}

\* No pointer leads out of all structs, nor out of those without hosts.
LEMMA ClosedAre == Closed(Structs) /\ Closed(Hostless)
<1>1. ASSUME NEW T \in Structs, NEW k \in Keys(T), Fields[T][k].kind \in {"ptr", "ptrs"}
      PROVE  /\ Fields[T][k].of \in Structs /\ Fields[T][k].of # "SDSResult"
             /\ Fields[T][k].of = "EnvoyService" => T = "SDSResult"
  <2>1. Fields[T][k].of \in Structs
    BY <1>1, EntriesAre DEF IsEntry
  <2> QED BY <1>1, <2>1, HostsAre
<1>2. Closed(Structs)
  BY <1>1 DEF Closed
<1>3. Closed(Hostless)
  <2>1. Hostless \subseteq Structs /\ \A T \in Hostless : T # "SDSResult"
    BY DEF Hostless
  <2>2. ASSUME NEW T \in Hostless, NEW k \in Keys(T), Fields[T][k].kind \in {"ptr", "ptrs"}
        PROVE  Fields[T][k].of \in Hostless
    BY <1>1, <2>1, <2>2 DEF Hostless
  <2> QED BY <2>1, <2>2 DEF Closed
<1> QED BY <1>2, <1>3

-----------------------------------------------------------------------------
(***************************************************************************)
(* Keys in another case.  Going is Reading with the steps of a decoder that *)
(* knows more than our texts.                                              *)
(***************************************************************************)
Going(d, w, h, T, mj) ==
  /\ d = w \o Tok("}") /\ NoBlanks(w) /\ Goes(w, <<Frame(T, Zero(T), "map_start")>>, <<h>>)
  /\ h.state \in {"want_key", "after_value"} /\ h.obj = mj

\* A text that is gone through by Moves is so by Steps.
LEMMA ReadingIsAlong ==
  ASSUME NEW d, NEW w, NEW h, NEW T, NEW mj, Reading(d, w, h, T, mj)
  PROVE  Going(d, w, h, T, mj) /\ \E s : Along(T, w, s) /\ s[Len(w)] = <<h>>
<1> DEFINE a == <<Frame(T, Zero(T), "map_start")>>
<1>1. d = w \o Tok("}") /\ NoBlanks(w) /\ Runs(w, a, <<h>>)
      /\ h.state \in {"want_key", "after_value"} /\ h.obj = mj
  BY DEF Reading
<1>2. Going(d, w, h, T, mj)
  BY <1>1, RunsGoes DEF Going
<1>3. PICK s : s[0] = a /\ s[Len(w)] = <<h>> /\ \A i \in 1..Len(w) : Moves(s[i - 1], w[i], s[i])
  BY <1>1 DEF Runs
<1>4. Along(T, w, s)
  BY <1>1, <1>3 DEF Along
<1> QED BY <1>2, <1>3, <1>4

\* A key in another case.
InOtherCase(x) == [x EXCEPT !.v = <<"^">> \o @]

\* The decoder knows the key all the same.
LEMMA OtherCase ==
  ASSUME NEW T, NEW k \in Keys(T), NEW x, x = [t |-> "string", v |-> <<k>>]
  PROVE  InOtherCase(x).t = "string" /\ KeyOf(T, InOtherCase(x).v) = k
<1> DEFINE y == InOtherCase(x)
<1>1. y.t = "string" /\ y.v = <<"^">> \o <<k>>
  BY DEF InOtherCase
<1> HIDE DEF y
<1> DEFINE v == <<"^">> \o <<k>>
<1>2. Len(v) = 2 /\ v[1] = "^" /\ v[2] = k
  OBVIOUS
<1> HIDE DEF v
<1>3. KeyOf(T, v) = k
  BY <1>2 DEF KeyOf
<1> QED BY <1>1, <1>3 DEF v, y

\* Two sequences with the same elements.
LEMMA SameSequence ==
  ASSUME NEW u, IsBuffer(u), NEW v, IsBuffer(v), Len(u) = Len(v), \A i \in 1..Len(u) : u[i] = v[i]
  PROVE  u = v
<1>1. PICK S : u \in Seq(S)
  BY DEF IsBuffer
<1>2. PICK R : v \in Seq(R)
  BY DEF IsBuffer
<1> QED BY <1>1, <1>2

Brace   == Tok("}")[1]
Shut(w) == w \o Tok("}")

\* A text and its last bracket, which is the same behind every text.
LEMMA LastBracket ==
  ASSUME NEW w, IsBuffer(w)
  PROVE  /\ IsBuffer(w \o Tok("}")) /\ DOMAIN (w \o Tok("}")) = 1..(Len(w) + 1)
         /\ (w \o Tok("}"))[Len(w) + 1] = Brace
<1> DEFINE y == [t |-> "}", v |-> << >>]
<1>1. Tok("}") = <<y>> /\ <<y>>[1] = y /\ IsBuffer(<<y>>)
  BY TokensAreBuffers DEF Tok
<1> HIDE DEF y
<1>2. PICK S : w \in Seq(S)
  BY DEF IsBuffer
<1>3. DOMAIN (w \o <<y>>) = 1..(Len(w) + 1) /\ (w \o <<y>>)[Len(w) + 1] = y
  BY <1>2
<1>4. IsBuffer(w \o <<y>>)
  BY <1>1, ConcatIsBuffer
<1> QED BY <1>1, <1>3, <1>4 DEF Brace

\* A body with its keys in another case is gone through as the text itself.
LEMMA CasedGoes ==
  ASSUME NEW T \in Structs, NEW w, NEW s, Along(T, w, s), NEW h, s[Len(w)] = <<h>>,
         h.state \in {"want_key", "after_value"}, NEW d, d = Shut(w)
  PROVE  \E u : Going(Cased(d), u, h, T, h.obj)
<1> DEFINE n == Len(w)
           c == Cased(d)
           u == [i \in 1..n |-> c[i]]
<1>1. /\ n \in Nat /\ Len(d) = n + 1 /\ DOMAIN w = 1..n /\ IsBuffer(w)
      /\ \A i \in 1..n : d[i] = w[i]
      /\ d[n + 1].t = "}"
  BY BracketFacts DEF Along, NoBlanks, Shut
<1>0. n \in Nat
  BY <1>1
<1>2. IsBuffer(d) /\ DOMAIN d = 1..(n + 1) /\ d[n + 1] = Brace
  BY <1>1, LastBracket DEF Shut
<1>3. /\ \A i \in 1..n : c[i] = IF w[i].t = "string" /\ d[i + 1].t = ":" THEN InOtherCase(w[i]) ELSE w[i]
      /\ c[n + 1] = d[n + 1]
  <2>1. \A i \in 1..(n + 1) : c[i] = IF d[i].t = "string" /\ i < n + 1 /\ d[i + 1].t = ":"
                                     THEN InOtherCase(d[i]) ELSE d[i]
    BY <1>1, <1>2 DEF Cased, InOtherCase
  <2> HIDE DEF c, n, u
  <2>2. ASSUME NEW i \in 1..n
        PROVE  c[i] = IF w[i].t = "string" /\ d[i + 1].t = ":" THEN InOtherCase(w[i]) ELSE w[i]
    <3>1. i \in 1..(n + 1) /\ i < n + 1
      BY <1>0
    <3> QED BY <1>1, <2>1, <3>1
  <2>3. c[n + 1] = d[n + 1]
    <3>1. n + 1 \in 1..(n + 1) /\ ~(n + 1 < n + 1)
      BY <1>0
    <3> QED BY <2>1, <3>1
  <2> QED BY <2>2, <2>3
<1>4. IsBuffer(c) /\ Len(c) = n + 1
  <2>1. c = [i \in DOMAIN d |-> c[i]] /\ DOMAIN c = DOMAIN d
    BY DEF Cased
  <2> HIDE DEF c
  <2>2. IsBuffer(c) /\ Len(c) = Len(d)
    BY <1>2, <2>1, SameIndicesIsBuffer, SameLength
  <2> QED BY <1>1, <2>2
<1> HIDE DEF c
<1>5. IsBuffer(u) /\ Len(u) = n /\ \A i \in 1..n : u[i] = c[i]
  <2>1. u = [i \in DOMAIN w |-> u[i]] /\ DOMAIN u = DOMAIN w /\ \A i \in 1..n : u[i] = c[i]
    BY <1>1
  <2> HIDE DEF u, n
  <2> QED BY <1>1, <2>1, SameIndicesIsBuffer, SameLength DEF n
<1> HIDE DEF u
<1>6. c = u \o Tok("}")
  <2> DEFINE e == u \o Tok("}")
  <2>1. /\ Len(e) = n + 1 /\ (\A i \in 1..n : e[i] = u[i])
        /\ IsBuffer(e) /\ e[n + 1] = Brace
    BY <1>5, BracketFacts, LastBracket
  <2> HIDE DEF e, n
  <2>2. ASSUME NEW i \in 1..(n + 1) PROVE c[i] = e[i]
    <3>1. i \in 1..n \/ i = n + 1
      BY <1>0
    <3> QED BY <1>2, <1>3, <1>5, <2>1, <3>1
  <2>3. c = e
    BY <1>4, <2>1, <2>2, SameSequence
  <2> QED BY <2>3 DEF e
<1>7. ASSUME NEW i \in 1..n PROVE Steps(s[i - 1], u[i], s[i]) /\ u[i].t # " "
  <2>1. Moves(s[i - 1], w[i], s[i]) /\ w[i].t # " "
    BY <1>1 DEF Along, NoBlanks
  <2>2. CASE w[i].t = "string" /\ d[i + 1].t = ":"
    <3>1. i + 1 \in 1..n
      <4>1. i # n
        BY <1>1, <2>2
      <4> HIDE DEF n
      <4> QED BY <1>0, <4>1, SMTT(40)
    <3>2. w[i + 1].t = ":"
      BY <1>1, <2>2, <3>1
    <3>3. IsKey(Structs, w, s, i)
      BY <3>1, <3>2, ClosedAre, ColonAfterKey
    <3> DEFINE f == Inner(s[i - 1])
               g == Inner(s[i])
    <3>4. f.state = "want_key" /\ Knows(f, w[i], g) /\ Turned(s[i - 1], w[i], s[i])
      BY <3>3 DEF IsKey
    <3>5. PICK base : IsBuffer(base) /\ s[i - 1] = Append(base, f) /\ s[i] = Append(base, g)
      BY <3>4 DEF Turned
    <3> HIDE DEF f, g
    <3>6. PICK k \in Keys(f.T) : w[i] = [t |-> "string", v |-> <<k>>] /\ g = Keyed(f, k)
      BY <3>4 DEF Knows
    <3>7. u[i] = InOtherCase(w[i])
      BY <1>3, <1>5, <2>2
    <3>8. u[i].t = "string" /\ KeyOf(f.T, u[i].v) = k
      BY <3>6, <3>7, OtherCase
    <3>9. Also(f, u[i], g)
      BY <3>4, <3>6, <3>8 DEF Also, AlsoIn
    <3> QED BY <3>5, <3>8, <3>9 DEF Steps
  <2>3. CASE ~(w[i].t = "string" /\ d[i + 1].t = ":")
    BY <1>3, <1>5, <2>1, <2>3 DEF Steps
  <2> QED BY <2>2, <2>3
<1>8. NoBlanks(u)
  <2>1. DOMAIN u = 1..n
    BY <1>5, BracketFacts
  <2> QED BY <1>5, <1>7, <2>1 DEF NoBlanks
<1>9. Goes(u, <<Frame(T, Zero(T), "map_start")>>, <<h>>)
  <2>1. s[0] = <<Frame(T, Zero(T), "map_start")>> /\ s[Len(u)] = <<h>>
    BY <1>5 DEF Along
  <2>2. \A i \in 1..Len(u) : Steps(s[i - 1], u[i], s[i])
    BY <1>5, <1>7
  <2> QED BY <1>5, <2>1, <2>2 DEF Goes
<1>10. Going(c, u, h, T, h.obj)
  BY <1>6, <1>8, <1>9 DEF Going
<1> QED BY <1>10 DEF c

\* A sequence in two parts.
LEMMA PartsFacts ==
  ASSUME NEW w, IsBuffer(w), NEW n, Len(w) = n, NEW i \in 1..n
  PROVE  /\ IsBuffer(SubSeq(w, 1, i)) /\ Len(SubSeq(w, 1, i)) = i
         /\ \A j \in 1..i : SubSeq(w, 1, i)[j] = w[j]
         /\ IsBuffer(SubSeq(w, i + 1, n)) /\ Len(SubSeq(w, i + 1, n)) = n - i
         /\ \A j \in 1..(n - i) : SubSeq(w, i + 1, n)[j] = w[i + j]
<1>1. PICK S : w \in Seq(S)
  BY DEF IsBuffer
<1>2. /\ SubSeq(w, 1, i) \in Seq(S) /\ Len(SubSeq(w, 1, i)) = i
      /\ \A j \in 1..i : SubSeq(w, 1, i)[j] = w[j]
  BY <1>1
<1>3. SubSeq(w, i + 1, n) \in Seq(S) /\ Len(SubSeq(w, i + 1, n)) = n - i
  BY <1>1
<1>4. \A j \in 1..(n - i) : SubSeq(w, i + 1, n)[j] = w[i + j]
  BY <1>1
<1> QED BY <1>2, <1>3, <1>4 DEF IsBuffer

\* A text and its last bracket.
LEMMA ShutFacts ==
  ASSUME NEW w, IsBuffer(w)
  PROVE  /\ IsBuffer(Shut(w)) /\ Len(Shut(w)) = Len(w) + 1
         /\ \A j \in 1..Len(w) : Shut(w)[j] = w[j]
         /\ Shut(w)[Len(w) + 1] = Brace
BY BracketFacts, LastBracket DEF Shut

\* What is put into a text, and the bracket behind it.
Inside(w, i, m) == (SubSeq(w, 1, i) \o m) \o SubSeq(w, i + 1, Len(w))

\* It is put before the last bracket.
LEMMA InsertShut ==
  ASSUME NEW w, IsBuffer(w), NEW i \in 1..Len(w), NEW m, IsBuffer(m)
  PROVE  Insert(Shut(w), i, m) = Shut(Inside(w, i, m))
<1> DEFINE d == Shut(w)
           n == Len(w)
           v == SubSeq(w, i + 1, n)
           u == SubSeq(w, 1, i)
<1>1. /\ n \in Nat /\ Len(d) = n + 1 /\ (\A j \in 1..n : d[j] = w[j]) /\ IsBuffer(d)
      /\ d[n + 1] = Brace
  BY BracketFacts, LastBracket DEF Shut
<1>2. IsBuffer(u) /\ IsBuffer(v)
  BY PartsFacts
<1>3. /\ Len(u) = i /\ (\A j \in 1..i : u[j] = w[j])
      /\ Len(v) = n - i /\ (\A j \in 1..(n - i) : v[j] = w[i + j])
  BY PartsFacts
<1> HIDE DEF d, n, u, v
<1>4. n \in Nat /\ i \in 1..n /\ i \in 1..(n + 1)
  <2>1. n \in Nat /\ i \in 1..n
    BY <1>1 DEF n
  <2> QED BY <2>1
<1>5. SubSeq(d, 1, i) = u
  <2> DEFINE e == SubSeq(d, 1, i)
  <2>1. IsBuffer(e) /\ Len(e) = i /\ \A j \in 1..i : e[j] = d[j]
    BY <1>1, <1>4, PartsFacts
  <2> HIDE DEF e
  <2>2. ASSUME NEW j \in 1..i PROVE e[j] = u[j]
    <3>1. j \in 1..n
      BY <1>4
    <3> QED BY <1>1, <1>3, <2>1, <3>1
  <2>3. e = u
    BY <1>2, <1>3, <2>1, <2>2, SameSequence
  <2> QED BY <2>3 DEF e
<1>6. SubSeq(d, i + 1, n + 1) = Shut(v)
  <2> DEFINE e == SubSeq(d, i + 1, n + 1)
             g == Shut(v)
  <2>0. \A j \in 1..((n + 1) - i) : SubSeq(d, i + 1, n + 1)[j] = d[i + j]
    BY <1>1, <1>4, PartsFacts
  <2>1. IsBuffer(e) /\ Len(e) = (n + 1) - i /\ \A j \in 1..((n + 1) - i) : e[j] = d[i + j]
    BY <1>1, <1>4, <2>0, PartsFacts
  <2>2. /\ IsBuffer(g) /\ Len(g) = (n - i) + 1 /\ (\A j \in 1..(n - i) : g[j] = v[j])
        /\ g[(n - i) + 1] = Brace
    BY <1>2, <1>3, ShutFacts, SMTT(90)
  <2> HIDE DEF e, g
  <2>3. (n + 1) - i = (n - i) + 1 /\ i + ((n - i) + 1) = n + 1
    BY <1>4
  <2>4. ASSUME NEW j \in 1..((n + 1) - i) PROVE e[j] = g[j]
    <3>1. j = (n - i) + 1 \/ (j \in 1..(n - i) /\ i + j \in 1..n)
      BY <1>4
    <3>2. CASE j = (n - i) + 1
      <4>1. e[j] = d[n + 1]
        BY <2>1, <2>3, <3>2
      <4>2. g[j] = Brace
        BY <2>2, <3>2
      <4> QED BY <1>1, <4>1, <4>2
    <3>3. CASE j \in 1..(n - i) /\ i + j \in 1..n
      <4>1. e[j] = d[i + j] /\ d[i + j] = w[i + j]
        BY <1>1, <2>1, <3>3
      <4>2. g[j] = v[j] /\ v[j] = w[i + j]
        BY <1>3, <2>2, <3>3
      <4> QED BY <4>1, <4>2
    <3> QED BY <3>1, <3>2, <3>3
  <2>5. e = g
    BY <2>1, <2>2, <2>3, <2>4, SameSequence
  <2> QED BY <2>5 DEF e, g
<1>7. Insert(d, i, m) = (u \o m) \o Shut(v)
  BY <1>1, <1>5, <1>6 DEF Insert
<1>8. (u \o m) \o Shut(v) = Shut((u \o m) \o v)
  <2>1. IsBuffer(u \o m)
    BY <1>2, ConcatIsBuffer
  <2> DEFINE b == Tok("}")
             a == u \o m
  <2>2. Shut(v) = v \o b /\ Shut(a \o v) = (a \o v) \o b
    BY DEF Shut
  <2>3. IsBuffer(a) /\ IsBuffer(b) /\ IsBuffer(v)
    BY <1>2, <2>1, TokensAreBuffers DEF Tok
  <2> HIDE DEF a, b
  <2>4. (a \o v) \o b = a \o (v \o b)
    BY <2>3, ConcatIsAssociative, SMTT(90)
  <2>5. a \o Shut(v) = Shut(a \o v)
    BY <2>2, <2>4
  <2> QED BY <2>5 DEF a
<1> QED BY <1>7, <1>8 DEF Inside, d, n, u, v

\* The text before a token and the one behind it.
LEMMA PartsGo ==
  ASSUME NEW T, NEW w, NEW s, Along(T, w, s), NEW i \in 1..Len(w)
  PROVE  /\ Goes(SubSeq(w, 1, i), s[0], s[i])
         /\ Goes(SubSeq(w, i + 1, Len(w)), s[i], s[Len(w)])
<1> DEFINE n == Len(w)
           u == SubSeq(w, 1, i)
           v == SubSeq(w, i + 1, n)
           z == [j \in 0..(n - i) |-> s[i + j]]
<1>1. IsBuffer(w) /\ \A j \in 1..n : Steps(s[j - 1], w[j], s[j])
  BY DEF Along, NoBlanks, Steps
<1>2. n \in Nat /\ i \in 1..n
  BY <1>1, BracketFacts
<1>3. /\ IsBuffer(u) /\ Len(u) = i /\ (\A j \in 1..i : u[j] = w[j])
      /\ IsBuffer(v) /\ Len(v) = n - i /\ (\A j \in 1..(n - i) : v[j] = w[i + j])
  BY <1>1, PartsFacts
<1> HIDE DEF u, v, n, z
<1>4. Goes(u, s[0], s[i])
  <2>1. ASSUME NEW j \in 1..i PROVE Steps(s[j - 1], u[j], s[j])
    <3>1. j \in 1..n
      BY <1>2
    <3> QED BY <1>1, <1>3, <3>1
  <2> QED BY <1>3, <2>1 DEF Goes
<1>5. Goes(v, s[i], s[n])
  <2>1. z[0] = s[i] /\ z[n - i] = s[n]
    <3>1. 0 \in 0..(n - i) /\ n - i \in 0..(n - i) /\ i + (n - i) = n /\ i + 0 = i
      BY <1>2
    <3> QED BY <3>1 DEF z
  <2>2. ASSUME NEW j \in 1..(n - i) PROVE Steps(z[j - 1], v[j], z[j])
    <3>1. /\ j - 1 \in 0..(n - i) /\ j \in 0..(n - i) /\ i + j \in 1..n
          /\ i + (j - 1) = (i + j) - 1
      BY <1>2
    <3>2. z[j - 1] = s[(i + j) - 1] /\ z[j] = s[i + j]
      BY <3>1 DEF z
    <3> QED BY <1>1, <1>3, <3>1, <3>2
  <2> QED BY <1>3, <2>1, <2>2 DEF Goes
<1> QED BY <1>4, <1>5 DEF u, v, n

-----------------------------------------------------------------------------
(***************************************************************************)
(* A member that the struct does not know.                                 *)
(***************************************************************************)
Token(c, v) == [t |-> c, v |-> v]

\* The call f, at no key of its struct, with so many brackets to skip.
Passing(T, o, state, n) ==
  [T |-> T, obj |-> o, state |-> state, key |-> "no_such_key", wantVal |-> Yes,
   k |-> << >>, depth |-> n]

\* Its state, and what the handler of an unknown key does with it.
LEMMA PassingFacts ==
  ASSUME NEW T, NEW o, NEW state, NEW n
  PROVE  /\ Passing(T, o, state, n).state = state /\ Passing(T, o, state, n).T = T
         /\ Passing(T, o, state, n).depth = n
         /\ KindOf(Passing(T, o, state, n)) = "skipped"
         /\ Passing(T, o, state, 0) = At(T, o, state, "no_such_key", Yes)
BY DEF Passing, KindOf, At

\* The call after each kind of token.
LEMMA PassingChanges ==
  ASSUME NEW T, NEW o, NEW state, NEW n
  PROVE  /\ \A e : e # 0 => Skipped(Passing(T, o, state, n), e) = Passing(T, o, "skip", e)
         /\ Skipped(Passing(T, o, state, n), 0) = Passing(T, o, "after_value", 0)
         /\ \A st : Gone(Passing(T, o, state, n), st) = Passing(T, o, st, n)
         /\ Keyed(Passing(T, o, state, n), "no_such_key") = Passing(T, o, "want_colon", n)
<1> DEFINE f == Passing(T, o, state, n)
<1>1. ASSUME NEW e PROVE [f EXCEPT !.depth = e] = Passing(T, o, state, e)
  BY DEF Passing
<1>2. ASSUME NEW m, NEW st PROVE Gone(Passing(T, o, state, m), st) = Passing(T, o, st, m)
  BY DEF Passing, Gone
<1>3. ASSUME NEW e PROVE Skipped(f, e) = Gone([f EXCEPT !.depth = e], IF e = 0 THEN "after_value" ELSE "skip")
  BY DEF Skipped, Gone
<1>4. ASSUME NEW e, e # 0 PROVE Skipped(f, e) = Passing(T, o, "skip", e)
  BY <1>1, <1>2, <1>3, <1>4
<1>5. Skipped(f, 0) = Passing(T, o, "after_value", 0)
  BY <1>1, <1>2, <1>3
<1>6. Keyed(f, "no_such_key") = Passing(T, o, "want_colon", n)
  <2>1. [f EXCEPT !.key = "no_such_key"] = f
    BY DEF Passing
  <2>2. Keyed(f, "no_such_key") = Gone([f EXCEPT !.key = "no_such_key"], "want_colon")
    BY DEF Keyed, Gone
  <2> QED BY <1>2, <2>1, <2>2
<1> QED BY <1>2, <1>4, <1>5, <1>6

\* A token more.
LEMMA GoesFurther ==
  ASSUME NEW w, NEW a, NEW base, IsBuffer(base), NEW f, Goes(w, a, Append(base, f)), NEW x, NEW g,
         Also(f, x, g) \/ Turns(f, x, g)
  PROVE  Goes(w \o <<x>>, a, Append(base, g))
<1>1. Steps(Append(base, f), x, Append(base, g))
  BY DEF Steps, Moves
<1> QED BY <1>1, GoesOne, GoesOn

\* Each bracket, and what is between them, while the call skips.
LEMMA SkipsOn ==
  ASSUME NEW T, NEW o, NEW n, NEW x, x.t \in Tokens \ {"eof"}, NEW e, Depth(n, x.t) = e
  PROVE  /\ e # 0 => Also(Passing(T, o, "skip", n), x, Passing(T, o, "skip", e))
         /\ e = 0 => Also(Passing(T, o, "skip", n), x, Passing(T, o, "after_value", 0))
<1> DEFINE f == Passing(T, o, "skip", n)
<1>1. f.state = "skip" /\ f.depth = n
  BY PassingFacts
<1>2. /\ e # 0 => Skipped(f, e) = Passing(T, o, "skip", e)
      /\ e = 0 => Skipped(f, e) = Passing(T, o, "after_value", 0)
  BY PassingChanges
<1> HIDE DEF f
<1>3. ASSUME NEW g, g = Skipped(f, e) PROVE Also(f, x, g)
  BY <1>1, <1>3 DEF Also, AlsoIn
<1>4. ASSUME e # 0 PROVE Also(f, x, Passing(T, o, "skip", e))
  BY <1>2, <1>3, <1>4
<1>5. ASSUME e = 0 PROVE Also(f, x, Passing(T, o, "after_value", 0))
  BY <1>2, <1>3, <1>5
<1> QED BY <1>4, <1>5 DEF f

\* The tokens of the member's value.
LEMMA Depths ==
  /\ Depth(1, "{") = 2 /\ Depth(2, "}") = 1 /\ Depth(1, ",") = 1 /\ Depth(1, "integer") = 1
  /\ Depth(1, "]") = 0
BY DEF Depth

\* Each of them is a token.
LEMMA AreTokens ==
  /\ "{" \in Tokens \ {"eof"} /\ "}" \in Tokens \ {"eof"} /\ "," \in Tokens \ {"eof"}
  /\ "integer" \in Tokens \ {"eof"} /\ "]" \in Tokens \ {"eof"}
BY DEF Tokens, ValueTokens

\* The member, token by token: what was under way before it is so after it.
LEMMA MemberGoes ==
  ASSUME NEW base, IsBuffer(base), NEW T \in Structs, NEW o, NEW a,
         a = Append(base, Passing(T, o, "want_key", 0))
  PROVE  Goes(Member, a, a)
<1>1. Also(Passing(T, o, "want_key", 0), Token("string", <<"new">>), Passing(T, o, "want_colon", 0))
  <2>1. KeyOf(T, <<"new">>) = "no_such_key"
    BY HostsAre DEF KeyOf
  <2> DEFINE f == Passing(T, o, "want_key", 0)
             x == Token("string", <<"new">>)
             g == Passing(T, o, "want_colon", 0)
  <2>2. f.state = "want_key" /\ f.T = T /\ x.t = "string" /\ x.v = <<"new">>
    BY PassingFacts DEF Token
  <2>3. g = Keyed(f, "no_such_key")
    BY PassingChanges
  <2> HIDE DEF f, x, g
  <2>4. Also(f, x, g)
    BY <2>1, <2>2, <2>3 DEF Also, AlsoIn
  <2> QED BY <2>4 DEF f, x, g
<1>2. Turns(Passing(T, o, "want_colon", 0), Token(":", << >>), Passing(T, o, "want_value", 0))
  BY PassingFacts, PassingChanges DEF Turns, TurnsIn, Token
<1>3. Also(Passing(T, o, "want_value", 0), Token("[", << >>), Passing(T, o, "skip", 1))
  BY PassingFacts, PassingChanges DEF Also, AlsoIn, Token
<1>4. Turns(Passing(T, o, "after_value", 0), Token(",", << >>), Passing(T, o, "want_key", 0))
  BY PassingFacts, PassingChanges DEF Turns, TurnsIn, Token
<1> DEFINE x1 == Token("{", << >>)
           x2 == Token("}", << >>)
           x3 == Token(",", << >>)
           x4 == Token("integer", <<1>>)
           x5 == Token("]", << >>)
<1>15. Also(Passing(T, o, "skip", 1), x1, Passing(T, o, "skip", 2))
  <2>1. x1.t \in Tokens \ {"eof"} /\ Depth(1, x1.t) = 2
    BY Depths, AreTokens DEF Token
  <2> HIDE DEF x1, x2, x3, x4, x5
  <2> QED BY <2>1, SkipsOn, SMTT(40)
<1>16. Also(Passing(T, o, "skip", 2), x2, Passing(T, o, "skip", 1))
  <2>1. x2.t \in Tokens \ {"eof"} /\ Depth(2, x2.t) = 1
    BY Depths, AreTokens DEF Token
  <2> HIDE DEF x1, x2, x3, x4, x5
  <2>2. 1 # 0
    OBVIOUS
  <2> QED BY <2>1, <2>2, SkipsOn, Zenon
<1>17. Also(Passing(T, o, "skip", 1), x3, Passing(T, o, "skip", 1))
  <2>1. x3.t \in Tokens \ {"eof"} /\ Depth(1, x3.t) = 1
    BY Depths, AreTokens DEF Token
  <2> HIDE DEF x1, x2, x3, x4, x5
  <2> QED BY <2>1, SkipsOn
<1>18. Also(Passing(T, o, "skip", 1), x4, Passing(T, o, "skip", 1))
  <2>1. x4.t \in Tokens \ {"eof"} /\ Depth(1, x4.t) = 1
    BY Depths, AreTokens DEF Token
  <2> HIDE DEF x1, x2, x3, x4, x5
  <2> QED BY <2>1, SkipsOn, SMTT(40)
<1>19. Also(Passing(T, o, "skip", 1), x5, Passing(T, o, "after_value", 0))
  <2>1. x5.t \in Tokens \ {"eof"} /\ Depth(1, x5.t) = 0
    BY Depths, AreTokens DEF Token
  <2> HIDE DEF x1, x2, x3, x4, x5
  <2> QED BY <2>1, SkipsOn
<1> HIDE DEF x1, x2, x3, x4, x5
<1> DEFINE m1 == WriteString(<<"new">>)
           m2 == m1 \o Tok(":")
           m3 == m2 \o Tok("[")
           m4 == m3 \o Tok("{")
           m5 == m4 \o Tok("}")
           m6 == m5 \o Tok(",")
           m7 == m6 \o FormatBits(1)
           m8 == m7 \o Tok("]")
<1>6. Goes(m1, a, Append(base, Passing(T, o, "want_colon", 0)))
  BY <1>1, GoesOne DEF WriteString, Token, Steps
<1> HIDE DEF m1
<1>7. Goes(m2, a, Append(base, Passing(T, o, "want_value", 0)))
  BY <1>2, <1>6, GoesFurther DEF Tok, Token
<1> HIDE DEF m2
<1>8. Goes(m3, a, Append(base, Passing(T, o, "skip", 1)))
  BY <1>3, <1>7, GoesFurther DEF Tok, Token
<1> HIDE DEF m3
<1>9. Goes(m4, a, Append(base, Passing(T, o, "skip", 2)))
  BY <1>15, <1>8, GoesFurther DEF Tok, Token, x1
<1> HIDE DEF m4
<1>10. Goes(m5, a, Append(base, Passing(T, o, "skip", 1)))
  BY <1>16, <1>9, GoesFurther DEF Tok, Token, x2
<1> HIDE DEF m5
<1>11. Goes(m6, a, Append(base, Passing(T, o, "skip", 1)))
  BY <1>17, <1>10, GoesFurther DEF Tok, Token, x3
<1> HIDE DEF m6
<1>12. Goes(m7, a, Append(base, Passing(T, o, "skip", 1)))
  BY <1>18, <1>11, GoesFurther DEF FormatBits, Token, x4
<1> HIDE DEF m7
<1>13. Goes(m8, a, Append(base, Passing(T, o, "after_value", 0)))
  BY <1>19, <1>12, GoesFurther DEF Tok, Token, x5
<1> HIDE DEF m8
<1>14. Goes(m8 \o Tok(","), a, a)
  BY <1>4, <1>13, GoesFurther DEF Tok, Token
<1> QED BY <1>14 DEF Member, m1, m2, m3, m4, m5, m6, m7, m8

\* The bracket of a struct begins a call, of which nothing is read yet.
LEMMA StructOpens ==
  ASSUME NEW T \in Structs, NEW w, NEW s, Along(T, w, s), NEW i \in 1..Len(w),
         OpensStruct(w, i)
  PROVE  \E base, U, o : /\ IsBuffer(base) /\ U \in Structs
                         /\ s[i] = Append(base, Passing(U, o, "want_key", 0))
<1> DEFINE f == Inner(s[i - 1])
           g == Inner(s[i])
<1>0. Closed(Structs)
  BY ClosedAre
<1>1. Leads(Structs, w, s, i)
  BY <1>0, AlongLeaves
<1>2. Brackets(f, w[i], g) /\ HasInner(s[i])
  BY <1>1 DEF Leads
<1>3. PICK base : IsBuffer(base) /\ s[i] = Append(base, g)
  BY <1>2 DEF HasInner
<1>4. \/ f.state = "want_value" /\ KindOf(f) = "map"
      \/ f.state = "map_start" /\ g = Gone(f, "want_key")
      \/ \E U \in Structs : Begun(U, g)
  BY <1>2 DEF Brackets, OpensStruct
<1>5. ASSUME f.state = "want_value", KindOf(f) = "map" PROVE FALSE
  <2>1. /\ i > 2 /\ w[i - 1].t = ":" /\ w[i - 2].v = <<f.key>>
        /\ IsCall(Structs, f) /\ f.key \in Keys(f.T)
    BY <1>0, <1>5, ValueAfterColon
  <2>2. f.T \in Structs
    BY <2>1 DEF IsCall
  <2> HIDE DEF f
  <2>3. f.key = "tags"
    BY <1>5, <2>1, <2>2, EntriesAre, HostsAre DEF KindOf
  <2> QED BY <2>1, <2>3 DEF OpensStruct, OpensTags
<1>6. ASSUME f.state = "map_start", g = Gone(f, "want_key")
      PROVE  g = Passing(T, Zero(T), "want_key", 0)
  <2>1. i = 1
    <3>1. ASSUME i # 1 PROVE FALSE
      <4>1. i - 1 \in 1..Len(w)
        BY <3>1
      <4>2. Leads(Structs, w, s, i - 1)
        BY <1>0, <4>1, AlongLeaves
      <4>3. Leaves(Structs, Inner(s[(i - 1) - 1]), w[i - 1], f)
        BY <4>2 DEF Leads
      <4> QED BY <1>6, <4>3 DEF Leaves
    <3> QED BY <3>1
  <2> DEFINE e == Frame(T, Zero(T), "map_start")
  <2>2. s[i - 1] = <<e>>
    BY <2>1 DEF Along
  <2>3. e = Passing(T, Zero(T), "map_start", 0)
    BY FrameIsAt, PassingFacts
  <2> HIDE DEF e
  <2>4. f = e
    BY <2>2, OneCall
  <2> QED BY <1>6, <2>3, <2>4, PassingChanges
<1>7. ASSUME NEW U \in Structs, Begun(U, g)
      PROVE  g = Passing(U, Zero(U), "want_key", 0)
  BY <1>7, FrameIsAt, PassingFacts DEF Begun
<1> HIDE DEF f, g
<1> QED BY <1>3, <1>4, <1>5, <1>6, <1>7

\* One token without blanks.
LEMMA NoBlankToken == ASSUME NEW x, Solid(x) PROVE NoBlanks(<<x>>)
<1>1. IsBuffer(<<x>>)
  BY TokensAreBuffers
<1>2. DOMAIN <<x>> = {1} /\ <<x>>[1] = x
  OBVIOUS
<1> QED BY <1>1, <1>2 DEF NoBlanks, Solid

\* What the encoders write but for their blanks.
LEMMA SolidTokens ==
  /\ \A v : NoBlanks(WriteString(v)) /\ NoBlanks(FormatBits(v))
  /\ NoBlanks(Tok(":")) /\ NoBlanks(Tok(",")) /\ NoBlanks(Tok("[")) /\ NoBlanks(Tok("]"))
  /\ NoBlanks(Tok("{")) /\ NoBlanks(Tok("}")) /\ NoBlanks(Null)
<1>1. ASSUME NEW x, x.t # " " PROVE NoBlanks(<<x>>)
  BY <1>1, NoBlankToken DEF Solid
<1>2. ASSUME NEW c, c # " ", NEW v PROVE NoBlanks(<<[t |-> c, v |-> v]>>)
  <2> DEFINE x == [t |-> c, v |-> v]
  <2>1. x.t = c
    OBVIOUS
  <2> HIDE DEF x
  <2> QED BY <1>1, <1>2, <2>1 DEF x
<1>3. ASSUME NEW v PROVE NoBlanks(WriteString(v)) /\ NoBlanks(FormatBits(v))
  BY <1>2 DEF WriteString, FormatBits
<1>4. ASSUME NEW c, c # " " PROVE NoBlanks(Tok(c))
  BY <1>2, <1>4 DEF Tok
<1>5. /\ NoBlanks(Tok(":")) /\ NoBlanks(Tok(",")) /\ NoBlanks(Tok("[")) /\ NoBlanks(Tok("]"))
      /\ NoBlanks(Tok("{")) /\ NoBlanks(Tok("}")) /\ NoBlanks(Tok("null"))
  BY <1>4
<1> QED BY <1>3, <1>5 DEF Null

\* The parts of a text without blanks.
LEMMA PartsNoBlanks ==
  ASSUME NEW w, NoBlanks(w), NEW n, Len(w) = n, NEW i \in 1..n
  PROVE  NoBlanks(SubSeq(w, 1, i)) /\ NoBlanks(SubSeq(w, i + 1, n))
<1> DEFINE u == SubSeq(w, 1, i)
           v == SubSeq(w, i + 1, n)
<1>0. IsBuffer(w)
  BY DEF NoBlanks
<1>1. n \in Nat /\ \A j \in 1..n : Solid(w[j])
  BY <1>0, BracketFacts DEF NoBlanks, Solid
<1>2. /\ IsBuffer(u) /\ Len(u) = i /\ (\A j \in 1..i : u[j] = w[j])
      /\ IsBuffer(v) /\ Len(v) = n - i /\ (\A j \in 1..(n - i) : v[j] = w[i + j])
  BY <1>0, PartsFacts
<1> HIDE DEF u, v
<1>3. DOMAIN u = 1..i /\ DOMAIN v = 1..(n - i)
  BY <1>2, BracketFacts
<1>4. n \in Nat
  BY <1>1
<1>5. /\ \A j \in 1..i : j \in 1..n
      /\ \A j \in 1..(n - i) : i + j \in 1..n
  BY <1>4
<1>6. (\A j \in DOMAIN u : Solid(u[j])) /\ (\A j \in DOMAIN v : Solid(v[j]))
  BY <1>1, <1>2, <1>3, <1>5
<1> QED BY <1>2, <1>6 DEF NoBlanks, Solid, u, v

\* A body with a member more.
LEMMA ExtraGoes ==
  ASSUME NEW T \in Structs, NEW w, NEW s, Along(T, w, s), NEW h, s[Len(w)] = <<h>>,
         h.state \in {"want_key", "after_value"}, NEW d, d = Shut(w),
         NEW i \in DOMAIN d, OpensStruct(d, i)
  PROVE  \E u : Going(Insert(d, i, Member), u, h, T, h.obj)
<1> DEFINE n == Len(w)
           v1 == SubSeq(w, 1, i)
           v2 == SubSeq(w, i + 1, n)
           u == Inside(w, i, Member)
<1>1. /\ IsBuffer(w) /\ n \in Nat /\ DOMAIN w = 1..n /\ Len(d) = n + 1
      /\ (\A j \in 1..n : d[j] = w[j]) /\ d[n + 1].t = "}"
  BY BracketFacts DEF Along, NoBlanks, Shut
<1>2. n \in Nat /\ i \in 1..(n + 1)
  BY <1>1, LastBracket DEF Shut
<1> HIDE DEF n
<1>3. i \in 1..n
  <2>1. i # n + 1
    BY <1>1 DEF OpensStruct
  <2> QED BY <1>2, <2>1
<1>4. OpensStruct(w, i)
  <2>1. i > 2 => i - 1 \in 1..n /\ i - 2 \in 1..n
    BY <1>2, <1>3
  <2>2. d[i] = w[i] /\ (i > 2 => d[i - 1] = w[i - 1] /\ d[i - 2] = w[i - 2])
    BY <1>1, <1>3, <2>1
  <2> QED BY <2>2 DEF OpensStruct, OpensTags
<1>5. PICK base, U, o : /\ IsBuffer(base) /\ U \in Structs
                        /\ s[i] = Append(base, Passing(U, o, "want_key", 0))
  BY <1>3, <1>4, StructOpens DEF n
<1>6. Goes(Member, s[i], s[i])
  BY <1>5, MemberGoes
<1>7. Goes(v1, s[0], s[i]) /\ Goes(v2, s[i], <<h>>)
  BY <1>3, PartsGo DEF n
<1>8. Goes(u, s[0], <<h>>)
  <2> HIDE DEF v1, v2
  <2>1. Goes(v1 \o Member, s[0], s[i])
    BY <1>6, <1>7, GoesOn
  <2>2. Goes((v1 \o Member) \o v2, s[0], <<h>>)
    BY <1>7, <2>1, GoesOn
  <2> QED BY <2>2 DEF Inside, v1, v2, n
<1>9. IsBuffer(Member) /\ NoBlanks(Member)
  <2>3. NoBlanks(Member)
    BY SolidTokens, NoBlanksConcat DEF Member
  <2> QED BY <2>3 DEF NoBlanks
<1>10. Insert(d, i, Member) = Shut(u)
  BY <1>1, <1>3, <1>9, InsertShut DEF n
<1>11. NoBlanks(u)
  <2>1. NoBlanks(v1) /\ NoBlanks(v2)
    <3>1. NoBlanks(w) /\ Len(w) = n
      BY DEF Along, n
    <3> QED BY <1>3, <3>1, PartsNoBlanks
  <2> HIDE DEF v1, v2
  <2>2. NoBlanks((v1 \o Member) \o v2)
    BY <1>9, <2>1, NoBlanksConcat
  <2> QED BY <2>2 DEF Inside, v1, v2, n
<1> HIDE DEF u
<1>12. s[0] = <<Frame(T, Zero(T), "map_start")>>
  BY DEF Along
<1>13. Going(Shut(u), u, h, T, h.obj)
  BY <1>8, <1>11, <1>12 DEF Going, Shut
<1> QED BY <1>10, <1>13

\* A text without blanks is what the lexer makes of it.
LEMMA LexedSame == ASSUME NEW w, NoBlanks(w) PROVE Lexed(w) = w
<1> DEFINE n  == Len(w)
           ss == Spaced(w)
           L(m) == FlattenSeq(SubSeq(ss, 1, m))
           N  == {m \in Nat : m <= n => L(m) = SubSeq(w, 1, m)}
<1>1. IsBuffer(w) /\ n \in Nat /\ DOMAIN w = 1..n /\ \A i \in DOMAIN w : Solid(w[i])
  BY BracketFacts DEF NoBlanks, Solid
<1>2. PICK S : w \in Seq(S)
  BY <1>1 DEF IsBuffer
<1>3. /\ \A m \in Nat : m < n => SubSeq(w, 1, m + 1) = SubSeq(w, 1, m) \o <<w[m + 1]>>
      /\ SubSeq(w, 1, n) = w /\ SubSeq(w, 1, 0) = << >>
  BY <1>2
<1>4. /\ IsBuffer(ss) /\ Len(ss) = n /\ (\A i \in DOMAIN ss : IsBuffer(ss[i]))
      /\ Lexed(w) = FlattenSeq(ss) /\ \A i \in 1..n : ss[i] = <<w[i]>>
  <2>1. \A i \in DOMAIN w : ss[i] = <<w[i]>>
    BY <1>1, SpacedFacts DEF Solid
  <2> QED BY <1>1, <2>1, SpacedFacts
<1> HIDE DEF ss
<1>5. /\ L(0) = << >> /\ L(Len(ss)) = FlattenSeq(ss)
      /\ \A m \in Nat : m < Len(ss) => L(m + 1) = L(m) \o ss[m + 1]
  BY <1>4, FlattenPrefix
<1> HIDE DEF L, n
<1>6. 0 \in N
  BY <1>3, <1>5
<1>7. ASSUME NEW m \in Nat, m \in N PROVE m + 1 \in N
  <2> SUFFICES ASSUME m + 1 <= n PROVE L(m + 1) = SubSeq(w, 1, m + 1)
    OBVIOUS
  <2>1. m < n /\ m <= n /\ m + 1 \in 1..n
    BY <1>1
  <2>2. L(m + 1) = L(m) \o ss[m + 1] /\ ss[m + 1] = <<w[m + 1]>>
    BY <1>4, <1>5, <2>1
  <2>3. L(m) = SubSeq(w, 1, m)
    BY <1>7, <2>1
  <2>4. SubSeq(w, 1, m + 1) = SubSeq(w, 1, m) \o <<w[m + 1]>>
    BY <1>3, <2>1
  <2> QED BY <2>2, <2>3, <2>4
<1> HIDE DEF N
<1>8. Nat \subseteq N
  BY <1>6, <1>7, InductionOnSet
<1>9. L(n) = SubSeq(w, 1, n)
  BY <1>1, <1>8 DEF N
<1> QED BY <1>3, <1>4, <1>5, <1>9

\* A field more, with its comma; and the first.
LEMMA CommasMore ==
  ASSUME NEW fs, IsBuffer(fs), fs # << >>, \A i \in DOMAIN fs : IsBuffer(fs[i].buf),
         NEW fd, IsBuffer(fd.buf)
  PROVE  Commas(Bufs(Append(fs, fd))) = Commas(Bufs(fs)) \o (Tok(",") \o fd.buf)
<1> DEFINE n  == Len(fs)
           gs == Append(fs, fd)
           cf == WithComma(fs)
           cg == WithComma(gs)
<1>1. PICK S : fs \in Seq(S)
  BY DEF IsBuffer
<1>2. /\ n \in Nat /\ n > 0 /\ DOMAIN fs = 1..n /\ Len(gs) = n + 1 /\ DOMAIN gs = 1..(n + 1)
      /\ gs[n + 1] = fd /\ \A i \in 1..n : gs[i] = fs[i]
  BY <1>1
<1>3. IsBuffer(gs)
  BY AppendIsBuffer
<1> HIDE DEF n, gs
<1>4. \A i \in DOMAIN gs : IsBuffer(gs[i].buf)
  <2>1. ASSUME NEW i \in 1..(n + 1) PROVE i = n + 1 \/ i \in 1..n
    BY <1>2
  <2> QED BY <1>2, <2>1
<1>5. /\ IsBuffer(cf) /\ Len(cf) = n /\ (\A i \in DOMAIN cf : IsBuffer(cf[i]))
      /\ (\A i \in DOMAIN fs : cf[i] = (IF i > 1 THEN Tok(",") ELSE << >>) \o fs[i].buf)
      /\ Commas(Bufs(fs)) = FlattenSeq(cf)
  BY BufsFacts DEF n
<1>6. /\ IsBuffer(cg) /\ Len(cg) = n + 1 /\ (\A i \in DOMAIN cg : IsBuffer(cg[i]))
      /\ (\A i \in DOMAIN gs : cg[i] = (IF i > 1 THEN Tok(",") ELSE << >>) \o gs[i].buf)
      /\ Commas(Bufs(gs)) = FlattenSeq(cg)
  BY <1>2, <1>3, <1>4, BufsFacts
<1> HIDE DEF cf, cg
<1>7. SubSeq(cg, 1, n) = cf
  <2>1. ASSUME NEW i \in 1..n PROVE cg[i] = cf[i]
    <3>1. i \in 1..(n + 1)
      BY <1>2
    <3> QED BY <1>2, <1>5, <1>6, <3>1
  <2> QED BY <1>5, <1>6, <2>1, SameStart
<1>8. cg[n + 1] = Tok(",") \o fd.buf
  <2>1. n + 1 \in 1..(n + 1) /\ n + 1 > 1
    BY <1>2
  <2> QED BY <1>2, <1>6, <2>1
<1>9. FlattenSeq(cg) = FlattenSeq(SubSeq(cg, 1, n)) \o cg[n + 1]
  <2> DEFINE l == Len(cg)
  <2>1. l = n + 1 /\ n \in Nat
    BY <1>2, <1>6
  <2> HIDE DEF l
  <2>2. n < l
    BY <2>1
  <2>3. /\ FlattenSeq(SubSeq(cg, 1, l)) = FlattenSeq(cg)
        /\ \A m \in Nat : m < l => FlattenSeq(SubSeq(cg, 1, m + 1)) = FlattenSeq(SubSeq(cg, 1, m)) \o cg[m + 1]
    BY <1>6, FlattenPrefix DEF l
  <2> QED BY <2>1, <2>2, <2>3
<1> QED BY <1>5, <1>6, <1>7, <1>8, <1>9 DEF gs

\* One buffer alone has no comma.
LEMMA CommasFirst ==
  ASSUME NEW bufs, IsBuffer(bufs), DOMAIN bufs = {1}, IsBuffer(bufs[1])
  PROVE  Commas(bufs) = bufs[1]
<1> DEFINE b  == bufs[1]
           ss == [i \in DOMAIN bufs |-> (IF i > 1 THEN Tok(",") ELSE << >>) \o bufs[i]]
<1>1. DOMAIN ss = DOMAIN bufs /\ ss = [i \in DOMAIN ss |-> ss[i]] /\ ss[1] = << >> \o b
  OBVIOUS
<1>2. Commas(bufs) = FlattenSeq(ss)
  BY DEF Commas
<1> HIDE DEF ss, b
<1>3. IsBuffer(ss) /\ << >> \o b = b /\ IsBuffer(b)
  BY <1>1, SameIndicesIsBuffer, ConcatNothing DEF b
<1>4. Len(ss) = 1 /\ \A i \in DOMAIN ss : IsBuffer(ss[i])
  <2>1. DOMAIN ss = 1..Len(ss) /\ Len(ss) \in Nat
    BY <1>3 DEF IsBuffer
  <2> QED BY <1>1, <1>3, <2>1
<1>5. FlattenSeq(ss) = FlattenSeq(SubSeq(ss, 1, 0)) \o ss[1] /\ FlattenSeq(SubSeq(ss, 1, 0)) = << >>
  <2>1. /\ FlattenSeq(SubSeq(ss, 1, 0)) = << >>
        /\ FlattenSeq(SubSeq(ss, 1, 1)) = FlattenSeq(ss)
        /\ \A m \in Nat : m < 1 => FlattenSeq(SubSeq(ss, 1, m + 1)) = FlattenSeq(SubSeq(ss, 1, m)) \o ss[m + 1]
    BY <1>3, <1>4, FlattenPrefix
  <2>2. 0 \in Nat /\ 0 < 1 /\ 0 + 1 = 1
    OBVIOUS
  <2> QED BY <2>1, <2>2
<1> QED BY <1>1, <1>2, <1>3, <1>5 DEF b

\* Two sequences in one.
LEMMA ConcatFacts ==
  ASSUME NEW a, IsBuffer(a), NEW b, IsBuffer(b), NEW m, m = Len(a), NEW n, n = Len(b),
         NEW w, w = a \o b
  PROVE  /\ m \in Nat /\ n \in Nat /\ IsBuffer(w) /\ Len(w) = m + n
         /\ DOMAIN a = 1..m /\ DOMAIN b = 1..n /\ DOMAIN w = 1..(m + n)
         /\ \A i \in 1..m : w[i] = a[i]
         /\ \A i \in (m + 1)..(m + n) : w[i] = b[i - m]
<1>1. PICK S : a \in Seq(S)
  BY DEF IsBuffer
<1>2. PICK R : b \in Seq(R)
  BY DEF IsBuffer
<1>3. IsBuffer(w)
  BY ConcatIsBuffer
<1> QED BY <1>1, <1>2, <1>3

\* A bracket behind a colon opens a map or a struct that a field points to.
Opening(w, i) == i > 1 /\ w[i].t = "{" /\ w[i - 1].t = ":"

Calm(w) == NoBlanks(w) /\ \A i \in DOMAIN w : w[i].t # "{"

NoBracket(x) == x.t # "{"
NoColon(x)   == x.t # ":"

\* The text in two parts: there is no such bracket but the last of the first part.
Parted(w, p, v) ==
  /\ w = p \o v /\ NoBlanks(p) /\ NoBlanks(v)
  /\ \A i \in DOMAIN w : Opening(w, i) => i = Len(p)

\* Two calm texts make one.
LEMMA CalmConcat ==
  ASSUME NEW s, NEW t, Calm(s), Calm(t)
  PROVE  Calm(s \o t)
<1>1. NoBlanks(s \o t)
  BY NoBlanksConcat DEF Calm
<1>2. PICK S : s \in Seq(S)
  BY DEF Calm, NoBlanks, IsBuffer
<1>3. PICK T : t \in Seq(T)
  BY DEF Calm, NoBlanks, IsBuffer
<1>4. ASSUME NEW i \in DOMAIN (s \o t)
      PROVE  (\E j \in DOMAIN s : (s \o t)[i] = s[j]) \/ (\E j \in DOMAIN t : (s \o t)[i] = t[j])
  BY <1>2, <1>3
<1> QED BY <1>1, <1>4 DEF Calm

\* The calm tokens.
LEMMA CalmTokens ==
  /\ \A v : Calm(WriteString(v)) /\ Calm(FormatBits(v))
  /\ Calm(Tok(":")) /\ Calm(Tok(",")) /\ Calm(Tok("[")) /\ Calm(Tok("]")) /\ Calm(Tok("}"))
<1>1. ASSUME NEW c, c # "{", NEW v, NoBlanks(<<[t |-> c, v |-> v]>>)
      PROVE  Calm(<<[t |-> c, v |-> v]>>)
  <2> DEFINE x == [t |-> c, v |-> v]
  <2>1. x.t # "{"
    BY <1>1
  <2> HIDE DEF x
  <2>2. \A i \in DOMAIN <<x>> : <<x>>[i] = x
    OBVIOUS
  <2>3. NoBlanks(<<x>>)
    BY <1>1 DEF x
  <2>4. Calm(<<x>>)
    BY <2>1, <2>2, <2>3 DEF Calm
  <2> QED BY <2>4 DEF x
<1>2. ASSUME NEW v PROVE Calm(WriteString(v)) /\ Calm(FormatBits(v))
  <2>1. NoBlanks(WriteString(v)) /\ NoBlanks(FormatBits(v))
    BY SolidTokens
  <2> QED BY <1>1, <2>1 DEF WriteString, FormatBits
<1>3. ASSUME NEW c, c # "{", NoBlanks(Tok(c)) PROVE Calm(Tok(c))
  BY <1>1, <1>3 DEF Tok
<1>4. Calm(Tok(":")) /\ Calm(Tok(",")) /\ Calm(Tok("[")) /\ Calm(Tok("]")) /\ Calm(Tok("}"))
  BY <1>3, SolidTokens
<1> QED BY <1>2, <1>4

\* A text before it, which opens nothing, and neither do the two together.
LEMMA PartedBehind ==
  ASSUME NEW w, NEW p, NEW v, Parted(w, p, v), NEW a, NoBlanks(a),
         NEW y, y = a \o w, \A i \in 1..(Len(a) + 1) : i \in DOMAIN y => ~Opening(y, i)
  PROVE  Parted(y, a \o p, v)
<1> DEFINE m == Len(a)
           n == Len(w)
           l == Len(p)
<1>1. /\ w = p \o v /\ IsBuffer(p) /\ IsBuffer(v) /\ IsBuffer(a) /\ NoBlanks(v)
      /\ \A i \in DOMAIN w : Opening(w, i) => i = l
  BY DEF Parted, NoBlanks
<1>2. IsBuffer(w) /\ l \in Nat
  BY <1>1, ConcatFacts
<1>3. /\ m \in Nat /\ n \in Nat /\ DOMAIN y = 1..(m + n) /\ DOMAIN w = 1..n
      /\ \A i \in (m + 1)..(m + n) : y[i] = w[i - m]
  BY <1>1, <1>2, ConcatFacts
<1>4. Len(a \o p) = m + l
  BY <1>1, ConcatFacts
<1>5. y = (a \o p) \o v
  BY <1>1, ConcatIsAssociative, SMTT(40)
<1>6. NoBlanks(a \o p)
  BY NoBlanksConcat DEF Parted
<1>7. \A i \in 1..(m + 1) : i \in DOMAIN y => ~Opening(y, i)
  OBVIOUS
<1> HIDE DEF m, n, l
<1>8. ASSUME NEW i \in DOMAIN y, Opening(y, i) PROVE i = m + l
  <2>1. i > m + 1
    BY <1>3, <1>7, <1>8
  <2>2. i \in (m + 1)..(m + n) /\ i - 1 \in (m + 1)..(m + n) /\ i - m \in 1..n /\ i - m > 1
        /\ (i - 1) - m = (i - m) - 1
    BY <1>3, <2>1
  <2>3. y[i] = w[i - m] /\ y[i - 1] = w[(i - m) - 1]
    BY <1>3, <2>2
  <2>4. Opening(w, i - m)
    <3> DEFINE j == i - m
    <3>1. y[i] = w[j] /\ y[i - 1] = w[j - 1] /\ j > 1
      BY <2>2, <2>3
    <3> HIDE DEF j
    <3>2. Opening(w, j)
      BY <1>8, <3>1 DEF Opening
    <3> QED BY <3>2 DEF j
  <2>5. i - m = l
    BY <1>1, <1>3, <2>2, <2>4
  <2> QED BY <1>2, <1>3, <2>5
<1> QED BY <1>1, <1>4, <1>5, <1>6, <1>8 DEF Parted

\* A token before it that is no colon; a text before one that begins with no bracket.
LEMMA PartedToken ==
  ASSUME NEW w, NEW p, NEW v, Parted(w, p, v), NEW x, NoBlanks(<<x>>), NoColon(x)
  PROVE  Parted(<<x>> \o w, <<x>> \o p, v)
<1> DEFINE y == <<x>> \o w
           a == <<x>>
<1>1. a[1] = x /\ Len(a) = 1 /\ IsBuffer(a) /\ IsBuffer(w)
  <2>1. IsBuffer(p) /\ IsBuffer(v) /\ w = p \o v
    BY DEF Parted, NoBlanks
  <2>2. IsBuffer(w)
    BY <2>1, ConcatIsBuffer
  <2> QED BY <2>2, TokensAreBuffers
<1>2. y = a \o w
  OBVIOUS
<1> HIDE DEF a, y
<1>3. y[1] = x
  <2>1. \A i \in 1..1 : y[i] = a[i]
    BY <1>1, <1>2, ConcatFacts
  <2> QED BY <1>1, <2>1
<1>4. ASSUME NEW i \in 1..(Len(a) + 1) PROVE ~Opening(y, i)
  <2>1. i = 1 \/ i - 1 = 1
    BY <1>1
  <2>2. i = 1 => ~Opening(y, i)
    BY DEF Opening
  <2>3. i - 1 = 1 => ~Opening(y, i)
    <3>1. y[1].t # ":"
      BY <1>3 DEF NoColon
    <3> QED BY <3>1 DEF Opening
  <2> QED BY <2>1, <2>2, <2>3
<1>5. NoBlanks(a)
  BY DEF a
<1>6. Parted(y, a \o p, v)
  BY <1>2, <1>4, <1>5, PartedBehind
<1> QED BY <1>6 DEF a, y

\* A calm text before one that begins with no bracket.
LEMMA PartedCalm ==
  ASSUME NEW w, NEW p, NEW v, Parted(w, p, v), NEW a, Calm(a), NoBracket(w[1])
  PROVE  Parted(a \o w, a \o p, v)
<1> DEFINE y == a \o w
           m == Len(a)
           n == Len(w)
<1>1. IsBuffer(a) /\ IsBuffer(w) /\ NoBlanks(a)
  <2>1. IsBuffer(p) /\ IsBuffer(v) /\ w = p \o v
    BY DEF Parted, NoBlanks
  <2> QED BY <2>1, ConcatIsBuffer DEF Calm, NoBlanks
<1>2. /\ m \in Nat /\ n \in Nat /\ DOMAIN y = 1..(m + n) /\ DOMAIN a = 1..m
      /\ (\A i \in 1..m : y[i] = a[i])
      /\ \A i \in (m + 1)..(m + n) : y[i] = w[i - m]
  BY <1>1, ConcatFacts
<1>3. y = a \o w /\ \A i \in DOMAIN a : NoBracket(a[i])
  BY DEF Calm, NoBracket
<1> HIDE DEF y, m, n
<1>0. m \in Nat /\ n \in Nat
  BY <1>2
<1>4. ASSUME NEW i \in 1..(m + 1), i \in DOMAIN y PROVE ~Opening(y, i)
  <2>1. i \in 1..m \/ i = m + 1
    BY <1>0
  <2>2. CASE i \in 1..m
    BY <1>2, <1>3, <2>2 DEF Opening, NoBracket
  <2>3. CASE i = m + 1
    <3>1. i \in (m + 1)..(m + n)
      BY <1>0, <1>2, <1>4, <2>3
    <3>2. i - m = 1
      BY <1>0, <2>3
    <3>3. y[i] = w[1]
      BY <1>2, <3>1, <3>2
    <3> QED BY <3>3 DEF Opening, NoBracket
  <2> QED BY <2>1, <2>2, <2>3
<1>5. Parted(y, a \o p, v)
  BY <1>1, <1>3, <1>4, PartedBehind DEF m
<1> QED BY <1>5 DEF y

\* A text behind it.
LEMMA PartedBefore ==
  ASSUME NEW w, NEW p, NEW v, Parted(w, p, v), NEW b, Calm(b)
  PROVE  Parted(w \o b, p, v \o b)
<1> DEFINE y == w \o b
           m == Len(w)
           n == Len(b)
<1>1. IsBuffer(p) /\ IsBuffer(v) /\ w = p \o v /\ IsBuffer(b) /\ NoBlanks(b) /\ NoBlanks(v)
  BY DEF Parted, Calm, NoBlanks
<1>2. IsBuffer(w)
  BY <1>1, ConcatIsBuffer
<1>3. y = p \o (v \o b) /\ NoBlanks(v \o b)
  BY <1>1, ConcatIsAssociative, NoBlanksConcat, SMTT(40)
<1>4. /\ m \in Nat /\ n \in Nat /\ DOMAIN y = 1..(m + n) /\ DOMAIN b = 1..n /\ DOMAIN w = 1..m
      /\ (\A i \in 1..m : y[i] = w[i])
      /\ \A i \in (m + 1)..(m + n) : y[i] = b[i - m]
  BY <1>1, <1>2, ConcatFacts
<1>5. \A i \in DOMAIN b : b[i].t # "{"
  BY DEF Calm
<1>6. \A i \in DOMAIN w : Opening(w, i) => i = Len(p)
  BY DEF Parted
<1> HIDE DEF y, m, n
<1>0. m \in Nat /\ n \in Nat
  BY <1>4
<1>7. ASSUME NEW i \in DOMAIN y, Opening(y, i) PROVE i = Len(p)
  <2>1. i \in 1..m \/ (i \in (m + 1)..(m + n) /\ i - m \in 1..n)
    BY <1>0, <1>4
  <2>2. CASE i \in (m + 1)..(m + n) /\ i - m \in 1..n
    BY <1>4, <1>5, <1>7, <2>2 DEF Opening
  <2>3. CASE i \in 1..m
    <3>1. i > 1
      BY <1>7 DEF Opening
    <3>2. i - 1 \in 1..m
      BY <1>0, <2>3, <3>1
    <3>3. y[i] = w[i] /\ y[i - 1] = w[i - 1]
      BY <1>4, <2>3, <3>2
    <3>4. Opening(w, i)
      BY <1>7, <3>3 DEF Opening
    <3> QED BY <1>4, <1>6, <2>3, <3>4
  <2> QED BY <2>1, <2>2, <2>3
<1>8. Parted(y, p, v \o b)
  <2>1. NoBlanks(p)
    BY DEF Parted
  <2> QED BY <1>3, <1>7, <2>1 DEF Parted
<1> QED BY <1>8 DEF y

\* A token by itself that is no colon, and a text that begins with no bracket.
Single(a) == \E x : a = <<x>> /\ NoBlanks(a) /\ NoColon(x)
Starts(w) == NoBracket(w[1])

\* The tokens that may stand before such a text.
LEMMA SingleTokens == Single(Tok("{")) /\ Single(Tok(",")) /\ Single(Tok("["))
<1>1. ASSUME NEW c, c # ":", NoBlanks(Tok(c)) PROVE Single(Tok(c))
  <2> DEFINE x == [t |-> c, v |-> << >>]
  <2>1. x.t = c /\ Tok(c) = <<x>>
    BY DEF Tok
  <2> HIDE DEF x
  <2>2. NoColon(x)
    BY <1>1, <2>1 DEF NoColon
  <2> QED BY <1>1, <2>1, <2>2 DEF Single
<1> QED BY <1>1, SolidTokens

\* A token before a sequence, and one behind it.
LEMMA HeadIs ==
  ASSUME NEW s, IsBuffer(s), NEW x
  PROVE  IsBuffer(<<x>> \o s) /\ 1 \in 1..Len(<<x>> \o s) /\ (<<x>> \o s)[1] = x
<1>1. PICK S : s \in Seq(S)
  BY DEF IsBuffer
<1>2. s \in Seq(S \cup {x}) /\ <<x>> \in Seq(S \cup {x}) /\ Len(<<x>>) = 1 /\ <<x>>[1] = x
  BY <1>1
<1>3. <<x>> \o s \in Seq(S \cup {x}) /\ Len(<<x>> \o s) = 1 + Len(s) /\ Len(s) \in Nat
  BY <1>2
<1>4. (<<x>> \o s)[1] = x
  BY <1>2, <1>3
<1> QED BY <1>3, <1>4 DEF IsBuffer

Longer(y, s, x) ==
  /\ Len(y) = Len(s) + 1 /\ DOMAIN y = 1..(Len(s) + 1) /\ y[Len(s) + 1] = x
  /\ \A i \in 1..Len(s) : y[i] = s[i]

\* A sequence with a token behind it.
LEMMA TailIs ==
  ASSUME NEW s, IsBuffer(s), NEW x, NEW z, z = <<x>>, NEW y, y = s \o z
  PROVE  IsBuffer(y) /\ Len(s) \in Nat /\ Longer(y, s, x)
<1>1. PICK S : s \in Seq(S)
  BY DEF IsBuffer
<1>2. s \in Seq(S \cup {x}) /\ <<x>> \in Seq(S \cup {x}) /\ Len(<<x>>) = 1 /\ <<x>>[1] = x
  BY <1>1
<1>3. y \in Seq(S \cup {x}) /\ Len(s) \in Nat
  BY <1>2
<1>4. Longer(y, s, x)
  BY <1>2, <1>3 DEF Longer
<1> QED BY <1>3, <1>4 DEF IsBuffer

\* Commas and brackets of slices begin a text with no bracket of a struct.
LEMMA StartsWith ==
  ASSUME NEW s, IsBuffer(s), NEW t, IsBuffer(t)
  PROVE  Starts(Tok(",") \o s) /\ Starts((Tok("[") \o s) \o t)
<1>1. ASSUME NEW c, c # "{" PROVE Starts(Tok(c) \o s) /\ Starts((Tok(c) \o s) \o t)
  <2> DEFINE x == [t |-> c, v |-> << >>]
             y == <<x>> \o s
  <2>1. x.t = c /\ Tok(c) = <<x>>
    BY DEF Tok
  <2> HIDE DEF x
  <2>2. NoBracket(x)
    BY <1>1, <2>1 DEF NoBracket
  <2>4. IsBuffer(y) /\ 1 \in 1..Len(y) /\ y[1] = x
    BY HeadIs
  <2> HIDE DEF y
  <2>5. (y \o t)[1] = x
    <3>1. \A i \in 1..Len(y) : (y \o t)[i] = y[i]
      BY <2>4, ConcatFacts
    <3> QED BY <2>4, <3>1
  <2> QED BY <2>1, <2>2, <2>4, <2>5 DEF Starts, y
<1> QED BY <1>1

\* A token before it.
LEMMA PartedSingle ==
  ASSUME NEW w, NEW p, NEW v, Parted(w, p, v), NEW a, Single(a)
  PROVE  Parted(a \o w, a \o p, v)
BY PartedToken DEF Single

\* A key and its colon.
KeyText(k) == WriteString(<<k>>) \o Tok(":")

\* It opens nothing.
LEMMA KeyIsCalm == ASSUME NEW k PROVE Calm(KeyText(k))
BY CalmTokens, CalmConcat DEF KeyText

\* The bracket of the tags.
LEMMA TagsParted ==
  ASSUME NEW k
  PROVE  Parted(KeyText(k) \o (Tok("{") \o Tok("}")), KeyText(k) \o Tok("{"), Tok("}"))
<1> DEFINE a == [t |-> "string", v |-> <<k>>]
           b == [t |-> ":", v |-> << >>]
           c == [t |-> "{", v |-> << >>]
           d == [t |-> "}", v |-> << >>]
           l == Tok("{")
           h == KeyText(k)
           p == h \o l
           q == Tok("}")
           w == p \o q
<1>1. h = <<a>> \o <<b>> /\ l = <<c>> /\ q = <<d>>
  BY DEF KeyText, WriteString, Tok
<1>2. NoBracket(b) /\ NoBracket(d)
  BY DEF NoBracket
<1>3. NoBlanks(p) /\ NoBlanks(q) /\ IsBuffer(h) /\ IsBuffer(l) /\ IsBuffer(q)
  <2>1. NoBlanks(KeyText(k))
    BY KeyIsCalm DEF Calm
  <2> QED BY <2>1, SolidTokens, NoBlanksConcat DEF NoBlanks
<1> HIDE DEF a, b, c, d, q, h, l
<1>5. h \o (l \o q) = w
  BY <1>3, ConcatIsAssociative, SMTT(40)
<1>4. IsBuffer(h) /\ Longer(h, <<a>>, b) /\ Len(<<a>>) = 1
  <2>1. IsBuffer(<<a>>) /\ 1 = Len(<<a>>)
    BY TokensAreBuffers
  <2> DEFINE f == <<a>>
             g == <<b>>
  <2>2. IsBuffer(f) /\ h = f \o g /\ g = <<b>>
    BY <1>1, <2>1
  <2> HIDE DEF f, g
  <2>3. Longer(h, f, b)
    BY <2>2, TailIs
  <2> QED BY <1>3, <2>1, <2>3 DEF f
<1>6. Len(p) = 3 /\ DOMAIN w = 1..4 /\ w[2] = b /\ w[4] = d
  <2>1. p = h \o l /\ w = p \o q
    OBVIOUS
  <2>0. IsBuffer(p)
    BY <1>3 DEF NoBlanks
  <2> HIDE DEF p, w
  <2>2. Longer(p, h, c)
    BY <1>1, <1>3, <2>1, TailIs
  <2>3. Longer(w, p, d)
    BY <1>1, <2>0, <2>1, TailIs
  <2>4. Len(h) = 2 /\ h[2] = b
    BY <1>4 DEF Longer
  <2>5. Len(p) = 3 /\ p[2] = b
    BY <2>2, <2>4 DEF Longer
  <2> QED BY <2>3, <2>5 DEF Longer
<1> HIDE DEF p, w
<1>7. ASSUME NEW i \in DOMAIN w, Opening(w, i) PROVE i = 3
  <2>1. i \in {1, 2, 3, 4}
    BY <1>6
  <2>2. i > 1
    BY <1>7 DEF Opening
  <2>3. i # 2 /\ i # 4
    BY <1>2, <1>6, <1>7 DEF Opening, NoBracket
  <2> QED BY <2>1, <2>2, <2>3
<1>8. Parted(w, p, q)
  BY <1>3, <1>6, <1>7 DEF Parted, w
<1> QED BY <1>5, <1>8 DEF p, q, h, l

\* An answer with one host: e, s and v are what is written before its hosts, in the
\* host before its tags, and behind the hosts.
Host(s) ==
  (Tok("{") \o (s \o (Tok(",") \o (KeyText("tags") \o (Tok("{") \o Tok("}")))))) \o Tok("}")

HostAnswer(e, s, v) ==
  Tok("{") \o ((e \o (Tok(",") \o (KeyText("hosts") \o ((Tok("[") \o Host(s)) \o Tok("]")))))
               \o (Tok(",") \o v))

\* What is before the first of the tags, and what is behind the last.
Before(e, s) ==
  Tok("{") \o (e \o (Tok(",") \o (KeyText("hosts") \o (Tok("[") \o
    (Tok("{") \o (s \o (Tok(",") \o (KeyText("tags") \o Tok("{")))))))))

Behind(v) == ((Tok("}") \o Tok("}")) \o Tok("]")) \o (Tok(",") \o v)

\* A text in two parts is a sequence of tokens.
LEMMA PartedIsBuffer == ASSUME NEW w, NEW p, NEW v, Parted(w, p, v) PROVE IsBuffer(w)
BY ConcatIsBuffer DEF Parted, NoBlanks

\* The answer in these two parts: no other bracket in it opens tags.
LEMMA HostParted ==
  ASSUME NEW e, Calm(e), NEW s, Calm(s), NEW v, Calm(v)
  PROVE  Parted(HostAnswer(e, s, v), Before(e, s), Behind(v))
<1> DEFINE l  == Tok("{")
           r  == Tok("}")
           c  == Tok(",")
           lb == Tok("[")
           rb == Tok("]")
           kh == KeyText("hosts")
           kt == KeyText("tags")
<1>1. Single(l) /\ Single(c) /\ Single(lb) /\ Calm(r) /\ Calm(c) /\ Calm(rb) /\ Calm(kh)
  BY SingleTokens, CalmTokens, KeyIsCalm
<1>2. Parted(kt \o (l \o r), kt \o l, r)
  BY TagsParted
<1>3. \A y : IsBuffer(y) => Starts(c \o y)
  BY StartsWith
<1>4. \A y, z : IsBuffer(y) /\ IsBuffer(z) => Starts((lb \o y) \o z)
  BY StartsWith
<1>5. IsBuffer(rb)
  BY <1>1 DEF Calm, NoBlanks
<1> DEFINE w1 == kt \o (l \o r)
           p1 == kt \o l
           w2 == c \o w1
           p2 == c \o p1
           w3 == s \o w2
           p3 == s \o p2
           w4 == l \o w3
           p4 == l \o p3
           w5 == w4 \o r
           v5 == r \o r
           w6 == lb \o w5
           p6 == lb \o p4
           w7 == w6 \o rb
           v7 == v5 \o rb
           w8 == kh \o w7
           p8 == kh \o p6
           w9 == c \o w8
           p9 == c \o p8
           w10 == e \o w9
           p10 == e \o p9
           cv  == c \o v
           w11 == w10 \o cv
           v11 == v7 \o cv
           w12 == l \o w11
           p12 == l \o p10
<1>6. w12 = HostAnswer(e, s, v) /\ p12 = Before(e, s) /\ v11 = Behind(v)
  BY DEF HostAnswer, Host, Before, Behind
<1>7. Calm(cv)
  BY <1>1, CalmConcat
<1> HIDE DEF l, r, c, lb, rb, kh, kt, cv
<1>11. Parted(w1, p1, r)
  BY <1>2
<1>12. Parted(w2, p2, r)
  <2> HIDE DEF w1, p1
  <2> QED BY <1>1, <1>11, PartedSingle
<1>13. Parted(w3, p3, r)
  <2>1. Starts(w2)
    BY <1>3, <1>11, PartedIsBuffer
  <2> HIDE DEF w2, p2
  <2> QED BY <1>12, <2>1, PartedCalm DEF Starts
<1> HIDE DEF w1, p1, w2, p2, w3, p3
<1>14. Parted(w4, p4, r)
  BY <1>1, <1>13, PartedSingle
<1> HIDE DEF w4, p4
<1>15. Parted(w5, p4, v5)
  BY <1>1, <1>14, PartedBefore
<1> HIDE DEF w5, v5
<1>16. Parted(w6, p6, v5)
  BY <1>1, <1>15, PartedSingle
<1>17. Parted(w7, p6, v7)
  <2> HIDE DEF w6, p6
  <2> QED BY <1>1, <1>16, PartedBefore
<1>18. Parted(w8, p8, v7)
  <2>1. Starts(w7)
    BY <1>4, <1>5, <1>15, PartedIsBuffer
  <2> HIDE DEF w7, p6, v7
  <2> QED BY <1>1, <1>17, <2>1, PartedCalm DEF Starts
<1> HIDE DEF w6, p6, w7, v7, w8, p8
<1>19. Parted(w9, p9, v7)
  BY <1>1, <1>18, PartedSingle
<1>20. Parted(w10, p10, v7)
  <2>1. Starts(w9)
    BY <1>3, <1>18, PartedIsBuffer
  <2> HIDE DEF w9, p9
  <2> QED BY <1>19, <2>1, PartedCalm DEF Starts
<1> HIDE DEF w9, p9, w10, p10
<1>21. Parted(w11, p10, v11)
  BY <1>7, <1>20, PartedBefore
<1> HIDE DEF w11, v11
<1>22. Parted(w12, p12, v11)
  BY <1>1, <1>21, PartedSingle
<1> HIDE DEF w12, p12
<1> QED BY <1>6, <1>22

-----------------------------------------------------------------------------
(***************************************************************************)
(* What the handler writes for the hosts of a service, token by token.     *)
(***************************************************************************)

\* A field that is written to its end, and a list of them.
Ready(fd)   == IsBuffer(fd.buf) /\ ~fd.stop
AllReady(fs) == IsBuffer(fs) /\ fs # << >> /\ \A i \in DOMAIN fs : Ready(fs[i])

\* What Field writes.
LEMMA FieldText ==
  ASSUME NEW k, NEW buf
  PROVE  /\ Field(k, buf).buf = KeyText(k) \o buf /\ ~Field(k, buf).stop
         /\ (IsBuffer(buf) => Ready(Field(k, buf)))
<1>1. Field(k, buf).buf = KeyText(k) \o buf /\ ~Field(k, buf).stop
  BY DEF Field, KeyText
<1>2. IsBuffer(KeyText(k))
  BY KeyIsCalm DEF Calm, NoBlanks
<1> QED BY <1>1, <1>2, ConcatIsBuffer DEF Ready

\* Texts and numbers have no brackets.
LEMMA ScalarText ==
  ASSUME NEW k, NEW x
  PROVE  /\ Calm(Str(k, x).buf) /\ Ready(Str(k, x))
         /\ Calm(Num(k, x).buf) /\ Ready(Num(k, x))
<1>1. Calm(KeyText(k)) /\ Calm(WriteString(x)) /\ Calm(FormatBits(x))
  BY KeyIsCalm, CalmTokens
<1>2. ASSUME NEW buf, Calm(buf) PROVE Calm(Field(k, buf).buf) /\ Ready(Field(k, buf))
  <2>1. Calm(KeyText(k) \o buf)
    BY <1>1, <1>2, CalmConcat
  <2>2. IsBuffer(buf)
    BY <1>2 DEF Calm, NoBlanks
  <2> QED BY <2>1, <2>2, FieldText
<1> QED BY <1>1, <1>2 DEF Str, Num

\* The list with a field more, and that of one field.
LEMMA ReadyMore ==
  ASSUME NEW fs, AllReady(fs), NEW fd, Ready(fd), NEW gs, gs = Append(fs, fd)
  PROVE  /\ AllReady(gs)
         /\ Commas(Bufs(gs)) = Commas(Bufs(fs)) \o (Tok(",") \o fd.buf)
<1>1. IsBuffer(fs) /\ fs # << >> /\ \A i \in DOMAIN fs : IsBuffer(fs[i].buf)
  BY DEF AllReady, Ready
<1>2. Commas(Bufs(Append(fs, fd))) = Commas(Bufs(fs)) \o (Tok(",") \o fd.buf)
  BY <1>1, CommasMore DEF Ready
<1>3. IsBuffer(gs) /\ gs # << >> /\ \A i \in DOMAIN gs : (i \in DOMAIN fs /\ gs[i] = fs[i]) \/ gs[i] = fd
  <2>1. PICK S : fs \in Seq(S)
    BY <1>1 DEF IsBuffer
  <2>2. Append(fs, fd) \in Seq(S \cup {fd})
    BY <2>1
  <2> QED BY <2>1, <2>2 DEF IsBuffer
<1> QED BY <1>2, <1>3 DEF AllReady

\* One field by itself.
LEMMA ReadyOne ==
  ASSUME NEW fd, Ready(fd)
  PROVE  AllReady(<<fd>>) /\ Commas(Bufs(<<fd>>)) = fd.buf
<1> DEFINE fs == <<fd>>
<1>1. IsBuffer(fs) /\ DOMAIN fs = {1} /\ fs[1] = fd /\ fs # << >>
  BY TokensAreBuffers
<1> HIDE DEF fs
<1>2. AllReady(fs)
  BY <1>1 DEF AllReady
<1>3. IsBuffer(Bufs(fs)) /\ DOMAIN Bufs(fs) = {1} /\ Bufs(fs)[1] = fd.buf
  BY <1>1, <1>2, BufsFacts DEF AllReady, Ready
<1>4. Commas(Bufs(fs)) = fd.buf
  BY <1>3, CommasFirst DEF Ready
<1> QED BY <1>2, <1>4 DEF fs

\* The encoder of a struct without an optional field.
LEMMA PlainText ==
  ASSUME NEW fs, AllReady(fs)
  PROVE  Plain(fs) = Shut(Tok("{") \o Commas(Bufs(fs)))
<1>1. Stops(fs) = {} /\ Reached(fs) = fs
  BY NothingStops DEF AllReady, Ready
<1> QED BY <1>1 DEF Plain, Bufs, Shut

\* The slice with one element.
LEMMA OneInSlice ==
  ASSUME NEW k, NEW x, x # Nil, <<x>> # Nil, NEW bufs, bufs = <<bufs[1]>>, IsBuffer(bufs[1])
  PROVE  /\ StructSlice(k, <<x>>, bufs).buf = KeyText(k) \o ((Tok("[") \o bufs[1]) \o Tok("]"))
         /\ Ready(StructSlice(k, <<x>>, bufs))
<1> DEFINE s == <<x>>
           e == [i \in 1..Len(s) |-> IF s[i] = Nil THEN Null ELSE bufs[i]]
           nils == {i \in DOMAIN s : s[i] = Nil}
           b == (Tok("[") \o bufs[1]) \o Tok("]")
<1>1. nils = {} /\ Len(s) = 1
  OBVIOUS
<1>2. e = bufs
  <2>1. e = <<bufs[1]>>
    BY <1>1
  <2> QED BY <2>1
<1>3. Commas(bufs) = bufs[1]
  <2>1. IsBuffer(bufs) /\ DOMAIN bufs = {1}
    BY TokensAreBuffers
  <2> QED BY <2>1, CommasFirst
<1>4. StructSlice(k, s, bufs) = [Field(k, (Tok("[") \o Commas(bufs)) \o Tok("]")) EXCEPT !.stop = nils # {}]
  BY <1>1, <1>2 DEF StructSlice
<1>5. StructSlice(k, s, bufs) = [Field(k, b) EXCEPT !.stop = nils # {}]
  BY <1>3, <1>4
<1>6. IsBuffer(b)
  BY TokensAreBuffers, ConcatIsBuffer
<1> HIDE DEF nils, b, s
<1>7. StructSlice(k, s, bufs).buf = Field(k, b).buf /\ ~StructSlice(k, s, bufs).stop
  BY <1>1, <1>5 DEF Field
<1>8. Field(k, b).buf = KeyText(k) \o b /\ Ready(Field(k, b))
  BY <1>6, FieldText
<1>9. StructSlice(k, s, bufs).buf = KeyText(k) \o b /\ Ready(StructSlice(k, s, bufs))
  BY <1>7, <1>8 DEF Ready
<1> QED BY <1>9 DEF b, s

\* The fields of a service before its tags.
Untagged(x) ==
  <<Str("ip_address", x.ip_address), Str("last_check_in", x.last_check_in),
    Num("port", x.port), Str("revision", x.revision), Str("service", x.service),
    Str("service_repo_name", x.service_repo_name)>>

CalmFields(fs) == AllReady(fs) /\ Calm(Commas(Bufs(fs)))
CalmField(fd) == Calm(fd.buf) /\ Ready(fd)

\* A field more.
LEMMA CalmMore ==
  ASSUME NEW fs, CalmFields(fs), NEW fd, CalmField(fd), NEW gs, gs = Append(fs, fd)
  PROVE  CalmFields(gs)
<1>1. AllReady(gs) /\ Commas(Bufs(gs)) = Commas(Bufs(fs)) \o (Tok(",") \o fd.buf)
  BY ReadyMore DEF CalmFields, CalmField
<1>2. Calm(Tok(",") \o fd.buf)
  BY CalmTokens, CalmConcat DEF CalmField
<1>3. Calm(Commas(Bufs(fs)) \o (Tok(",") \o fd.buf))
  BY <1>2, CalmConcat DEF CalmFields
<1> QED BY <1>1, <1>3 DEF CalmFields

\* Six fields.
LEMMA SixCalm ==
  ASSUME NEW a, NEW b, NEW c, NEW d, NEW e, NEW f,
         CalmField(a), CalmField(b), CalmField(c), CalmField(d), CalmField(e), CalmField(f)
  PROVE  CalmFields(<<a, b, c, d, e, f>>)
<1>2. <<a, b>> = Append(<<a>>, b)
  BY Tuples
<1>3. <<a, b, c>> = Append(<<a, b>>, c)
  BY Tuples
<1>4. <<a, b, c, d>> = Append(<<a, b, c>>, d)
  BY Tuples
<1>5. <<a, b, c, d, e>> = Append(<<a, b, c, d>>, e)
  BY Tuples
<1>6. <<a, b, c, d, e, f>> = Append(<<a, b, c, d, e>>, f)
  BY Tuples
<1>1. CalmFields(<<a>>)
  BY ReadyOne DEF CalmFields, CalmField
<1> DEFINE f2 == <<a, b>>
           f3 == <<a, b, c>>
           f4 == <<a, b, c, d>>
           f5 == <<a, b, c, d, e>>
           f6 == <<a, b, c, d, e, f>>
<1> HIDE DEF f2, f3, f4, f5, f6
<1>7. CalmFields(f2)
  BY <1>1, <1>2, CalmMore DEF f2
<1>8. CalmFields(f3)
  BY <1>3, <1>7, CalmMore DEF f2, f3
<1>9. CalmFields(f4)
  BY <1>4, <1>8, CalmMore DEF f3, f4
<1>10. CalmFields(f5)
  BY <1>5, <1>9, CalmMore DEF f4, f5
<1>11. CalmFields(f6)
  BY <1>6, <1>10, CalmMore DEF f5, f6
<1> QED BY <1>11 DEF f6

\* The fields of a service before its tags, which are texts and a number.
LEMMA UntaggedCalm == ASSUME NEW x PROVE CalmFields(Untagged(x))
<1>1. \A k, y : CalmField(Str(k, y)) /\ CalmField(Num(k, y))
  BY ScalarText DEF CalmField
<1> QED BY <1>1, SixCalm DEF Untagged

\* A service without tags.
LEMMA HostText ==
  ASSUME NEW x, x.tags = << >>, << >> # Nil
  PROVE  EnvoyServiceJSON(x) = Host(Commas(Bufs(Untagged(x))))
<1> DEFINE fs == Untagged(x)
           g  == StringMap("tags", << >>)
           gs == Append(fs, g)
           b  == Tok("{") \o Tok("}")
<1>1. AllReady(fs)
  BY UntaggedCalm DEF CalmFields
<1> DEFINE p == Str("ip_address", x.ip_address)
           q == Str("last_check_in", x.last_check_in)
           r == Num("port", x.port)
           t == Str("revision", x.revision)
           u == Str("service", x.service)
           v == Str("service_repo_name", x.service_repo_name)
<1>2. fs = <<p, q, r, t, u, v>>
  BY DEF Untagged
<1> HIDE DEF fs, p, q, r, t, u, v, g
<1>3. gs = <<p, q, r, t, u, v, g>>
  <2>1. <<p, q, r, t, u, v, g>> = Append(<<p, q, r, t, u, v>>, g)
    BY Tuples
  <2> QED BY <1>2, <2>1
<1>4. EnvoyServiceJSON(x) = Plain(gs)
  BY <1>3 DEF EnvoyServiceJSON, p, q, r, t, u, v, g
<1>5. g = Field("tags", b)
  BY NoTagsText DEF g
<1>6. IsBuffer(b)
  BY TokensAreBuffers, ConcatIsBuffer
<1> HIDE DEF b, g, fs, gs
<1>7. Ready(g) /\ g.buf = KeyText("tags") \o b
  BY <1>5, <1>6, FieldText
<1>8. AllReady(gs) /\ Commas(Bufs(gs)) = Commas(Bufs(fs)) \o (Tok(",") \o (KeyText("tags") \o b))
  BY <1>1, <1>7, ReadyMore DEF gs
<1>9. Plain(gs) = Shut(Tok("{") \o (Commas(Bufs(fs)) \o (Tok(",") \o (KeyText("tags") \o b))))
  BY <1>8, PlainText
<1> QED BY <1>4, <1>9 DEF Host, Shut, b, fs

\* The answer with that service.
LEMMA AnswerText ==
  ASSUME NEW x, x # Nil, <<x>> # Nil, x.tags = << >>, << >> # Nil,
         NEW n, NEW mj, mj = [env |-> << >>, service |-> n, hosts |-> <<x>>]
  PROVE  SDSResultJSON(mj) = Shut(HostAnswer(Str("env", << >>).buf, Commas(Bufs(Untagged(x))),
                                             Str("service", n).buf))
<1> DEFINE s    == Commas(Bufs(Untagged(x)))
           a    == Str("env", << >>)
           bufs == [i \in DOMAIN mj.hosts |-> EnvoyServiceJSON(mj.hosts[i])]
           b    == StructSlice("hosts", <<x>>, bufs)
           c    == Str("service", n)
           h    == Host(s)
           t    == (Tok("[") \o h) \o Tok("]")
<1>1. SDSResultJSON(mj) = Plain(<<a, b, c>>)
  BY DEF SDSResultJSON
<1>2. EnvoyServiceJSON(x) = h
  BY HostText
<1>3. bufs = <<h>>
  <2>1. bufs = <<EnvoyServiceJSON(x)>>
    OBVIOUS
  <2> QED BY <1>2, <2>1
<1>4. IsBuffer(h)
  <2>1. Calm(s)
    BY UntaggedCalm DEF CalmFields
  <2>2. IsBuffer(s) /\ IsBuffer(KeyText("tags"))
    BY <2>1, KeyIsCalm DEF Calm, NoBlanks
  <2> HIDE DEF s
  <2> QED BY <2>2, TokensAreBuffers, ConcatIsBuffer DEF Host
<1> HIDE DEF s, h
<1>5. b.buf = KeyText("hosts") \o t /\ Ready(b)
  <2>1. bufs = <<bufs[1]>> /\ bufs[1] = h
    BY <1>3
  <2> HIDE DEF bufs
  <2> QED BY <1>4, <2>1, OneInSlice
<1>6. Ready(a) /\ Ready(c)
  BY ScalarText
<1> HIDE DEF a, b, c, t
<1>7. AllReady(<<a>>) /\ Commas(Bufs(<<a>>)) = a.buf
  BY <1>6, ReadyOne
<1>0. <<a, b>> = Append(<<a>>, b) /\ <<a, b, c>> = Append(<<a, b>>, c)
  BY Tuples
<1>8. AllReady(<<a, b>>) /\ Commas(Bufs(<<a, b>>)) = a.buf \o (Tok(",") \o b.buf)
  BY <1>0, <1>5, <1>7, ReadyMore
<1>9. AllReady(<<a, b, c>>)
      /\ Commas(Bufs(<<a, b, c>>)) = (a.buf \o (Tok(",") \o b.buf)) \o (Tok(",") \o c.buf)
  BY <1>0, <1>6, <1>8, ReadyMore, ZenonT(40)
<1>10. Plain(<<a, b, c>>)
         = Shut(Tok("{") \o ((a.buf \o (Tok(",") \o b.buf)) \o (Tok(",") \o c.buf)))
  BY <1>9, PlainText
<1> QED BY <1>1, <1>5, <1>10 DEF HostAnswer, a, c, s, h, t

\* The parts of a text that is put together of two.
LEMMA PartsOfTwo ==
  ASSUME NEW p, IsBuffer(p), NEW v, IsBuffer(v)
  PROVE  Len(p) \in 1..Len(p \o v) =>
           SubSeq(p \o v, 1, Len(p)) = p /\ SubSeq(p \o v, Len(p) + 1, Len(p \o v)) = v
<1> DEFINE m == Len(p)
           n == Len(v)
           w == p \o v
           l == Len(w)
           a == SubSeq(w, 1, m)
           b == SubSeq(w, m + 1, l)
<1>2. Len(p) = m /\ Len(v) = n /\ Len(w) = l /\ w = p \o v
  OBVIOUS
<1>0. SUFFICES ASSUME m \in 1..l PROVE a = p /\ b = v
  OBVIOUS
<1> HIDE DEF m, n, w, l
<1>1. /\ m \in Nat /\ n \in Nat /\ IsBuffer(w) /\ Len(w) = m + n
      /\ (\A j \in 1..m : w[j] = p[j])
      /\ \A j \in (m + 1)..(m + n) : w[j] = v[j - m]
  <2>0. m \in Nat /\ n \in Nat
    BY <1>2, ConcatFacts
  <2>1. IsBuffer(w)
    BY <1>2, ConcatFacts
  <2>4. Len(w) = m + n
    BY <1>2, <2>0, ConcatFacts, SMTT(40)
  <2>2. \A j \in 1..m : w[j] = p[j]
    BY <1>2, ConcatFacts
  <2>3. \A j \in (m + 1)..(m + n) : w[j] = v[j - m]
    BY <1>2, ConcatFacts
  <2> QED BY <2>0, <2>1, <2>2, <2>3, <2>4
<1>3. /\ IsBuffer(a) /\ Len(a) = m /\ (\A j \in 1..m : a[j] = w[j])
      /\ IsBuffer(b) /\ Len(b) = l - m /\ (\A j \in 1..(l - m) : b[j] = w[m + j])
  <2>1. IsBuffer(a) /\ Len(a) = m
    BY <1>0, <1>1, <1>2, PartsFacts, ZenonT(40)
  <2>2. IsBuffer(b)
    BY <1>0, <1>1, <1>2, PartsFacts
  <2>5. Len(b) = l - m
    BY <1>0, <1>1, <1>2, PartsFacts
  <2>3. \A j \in 1..m : a[j] = w[j]
    BY <1>0, <1>1, <1>2, PartsFacts
  <2>4. \A j \in 1..(l - m) : b[j] = w[m + j]
    BY <1>0, <1>1, <1>2, PartsFacts, SMTT(40)
  <2> QED BY <2>1, <2>2, <2>3, <2>4, <2>5
<1> HIDE DEF a, b
<1>4. l - m = n /\ \A j \in 1..n : m + j \in (m + 1)..(m + n) /\ (m + j) - m = j
  BY <1>1, <1>2
<1>5. a = p
  BY <1>1, <1>2, <1>3, SameSequence
<1>6. b = v
  <2>1. \A j \in 1..Len(b) : b[j] = v[j]
    BY <1>1, <1>3, <1>4
  <2> QED BY <1>2, <1>3, <1>4, <2>1, SameSequence
<1> QED BY <1>5, <1>6

\* The one bracket that tags are put behind.
LEMMA TagsPut ==
  ASSUME NEW w, NEW p, NEW v, Parted(w, p, v), NEW m, IsBuffer(m),
         NEW d, d = Lexed(Shut(w)), NEW i \in DOMAIN d, OpensTags(d, i)
  PROVE  Insert(d, i, m) = Shut((p \o m) \o v)
<1> DEFINE l == Len(w)
<1>1. IsBuffer(p) /\ IsBuffer(v) /\ w = p \o v /\ NoBlanks(w)
  BY NoBlanksConcat DEF Parted, NoBlanks
<1>2. d = Shut(w)
  <2>1. NoBlanks(Shut(w))
    BY <1>1, SolidTokens, NoBlanksConcat DEF Shut
  <2> QED BY <2>1, LexedSame
<1>3. IsBuffer(w) /\ l \in Nat /\ DOMAIN w = 1..l
  <2>1. IsBuffer(w)
    BY <1>1 DEF NoBlanks
  <2>2. PICK S : w \in Seq(S)
    BY <2>1 DEF IsBuffer
  <2> QED BY <2>1, <2>2
<1>4. IsBuffer(d) /\ Len(d) = l + 1 /\ d[l + 1] = Brace /\ \A j \in 1..l : d[j] = w[j]
  BY <1>2, <1>3, ShutFacts
<1>5. DOMAIN d = 1..(l + 1)
  BY <1>4 DEF IsBuffer
<1>6. NoBracket(Brace)
  BY DEF NoBracket, Brace, Tok
<1> HIDE DEF l
<1>7. i \in 1..l /\ i - 1 \in 1..l
  <2>1. i # l + 1
    BY <1>4, <1>6 DEF OpensTags, NoBracket
  <2>2. i > 2
    BY DEF OpensTags
  <2> QED BY <1>3, <1>5, <2>1, <2>2
<1>8. Opening(w, i)
  <2>1. d[i] = w[i] /\ d[i - 1] = w[i - 1]
    BY <1>4, <1>7
  <2>2. i > 2 => i > 1
    BY <1>3, <1>7
  <2> QED BY <2>1, <2>2 DEF OpensTags, Opening
<1>9. i = Len(p)
  BY <1>3, <1>7, <1>8 DEF Parted
<1>10. SubSeq(w, 1, i) = p /\ SubSeq(w, i + 1, Len(w)) = v
  BY <1>1, <1>7, <1>9, PartsOfTwo DEF l
<1>11. Insert(Shut(w), i, m) = Shut(Inside(w, i, m))
  BY <1>3, <1>7, InsertShut DEF l
<1> QED BY <1>2, <1>10, <1>11 DEF Inside

-----------------------------------------------------------------------------
(***************************************************************************)
(* The decoder along an answer with tags.                                  *)
(***************************************************************************)

\* A service before its tags are read.
Bare(x) == [x EXCEPT !.tags = Nil]

\* With its tags it is the service again.
LEMMA BareFacts ==
  ASSUME NEW x, Whole("EnvoyService", x)
  PROVE  /\ Whole("EnvoyService", Bare(x)) /\ Bare(x)["tags"] = Nil
         /\ Untagged(x) = Untagged(Bare(x))
         /\ \A t : Filled(Bare(x), "tags", t) = [x EXCEPT !.tags = t]
         /\ \A t, u : Filled(Filled(Bare(x), "tags", t), "tags", u) = [x EXCEPT !.tags = u]
         /\ \A t : Filled(Bare(x), "tags", t)["tags"] = t
<1>1. x = [k \in Keys("EnvoyService") |-> x[k]]
      /\ Keys("EnvoyService") = {"ip_address", "last_check_in", "port", "revision", "service",
                                 "service_repo_name", "tags"}
  BY EnvoyServiceTable DEF Whole
<1>2. Whole("EnvoyService", Bare(x)) /\ Bare(x)["tags"] = Nil
  BY <1>1 DEF Whole, Bare
<1>3. \A t : Filled(Bare(x), "tags", t) = [x EXCEPT !.tags = t]
  BY <1>1 DEF Bare, Filled
<1>4. \A t, u : Filled(Filled(Bare(x), "tags", t), "tags", u) = [x EXCEPT !.tags = u]
  BY <1>1 DEF Bare, Filled
<1>5. \A t : Filled(Bare(x), "tags", t)["tags"] = t
  BY <1>1 DEF Bare, Filled
<1>6. Untagged(x) = Untagged(Bare(x))
  <2>1. /\ x.ip_address = Bare(x).ip_address /\ x.last_check_in = Bare(x).last_check_in
        /\ x.port = Bare(x).port /\ x.revision = Bare(x).revision
        /\ x.service = Bare(x).service /\ x.service_repo_name = Bare(x).service_repo_name
    BY <1>1 DEF Bare
  <2> QED BY <2>1 DEF Untagged
<1> QED BY <1>2, <1>3, <1>4, <1>5, <1>6

\* These fields are all that is written of it.
LEMMA UntaggedLists ==
  ASSUME NEW x, Whole("EnvoyService", x), x["tags"] = Nil
  PROVE  Lists(Untagged(x), "EnvoyService", x, Keys("EnvoyService")) /\ Len(Untagged(x)) = 6
<1> DEFINE T == "EnvoyService"
           a == Str("ip_address", x.ip_address)
           b == Str("last_check_in", x.last_check_in)
           c == Num("port", x.port)
           d == Str("revision", x.revision)
           e == Str("service", x.service)
           f == Str("service_repo_name", x.service_repo_name)
           S == {"ip_address", "last_check_in", "port", "revision", "service", "service_repo_name"}
           fs == <<a, b, c, d, e, f>>
<1>1. /\ Written(a, T, x, "ip_address") /\ Written(b, T, x, "last_check_in")
      /\ Written(c, T, x, "port") /\ Written(d, T, x, "revision")
      /\ Written(e, T, x, "service") /\ Written(f, T, x, "service_repo_name")
  BY EnvoyServiceTable, ScalarWritten
<1> HIDE DEF a, b, c, d, e, f
<1>2. Lists(fs, T, x, S)
  BY <1>1, ListsSix
<1>3. Lists(<< >>, T, x, {"tags"})
  <2>1. x["tags"] = ZeroOf(Fields[T]["tags"])
    BY EnvoyServiceTable DEF ZeroOf
  <2> QED BY <2>1, ListsNone
<1>4. S \cap {"tags"} = {} /\ S \cup {"tags"} = Keys(T)
  BY EnvoyServiceTable
<1>5. Len(fs) = 6
  OBVIOUS
<1>6. IsBuffer(fs)
  BY <1>2 DEF Lists
<1>7. fs \o << >> = fs
  BY <1>6, ConcatNothing
<1> HIDE DEF fs, S
<1>8. Lists(fs \o << >>, T, x, S \cup {"tags"})
  BY <1>2, <1>3, <1>4, ListsConcat
<1> QED BY <1>4, <1>5, <1>7, <1>8 DEF Untagged, a, b, c, d, e, f, fs

\* What is written of a service before its tags.
LEMMA UntaggedRuns ==
  ASSUME NEW x, Whole("EnvoyService", x), NEW base, IsBuffer(base)
  PROVE  \E key, wv :
           Runs(Commas(Bufs(Untagged(x))),
                Append(base, Frame("EnvoyService", Zero("EnvoyService"), "want_key")),
                Append(base, At("EnvoyService", Bare(x), "after_value", key, wv)))
<1> DEFINE T == "EnvoyService"
           y == Bare(x)
           fs == Untagged(y)
<1>1. Whole(T, y) /\ Untagged(x) = fs /\ Lists(fs, T, y, Keys(T)) /\ Len(fs) = 6
  BY BareFacts, UntaggedLists
<1>2. y = [k \in Keys(T) |-> y[k]]
  BY <1>1 DEF Whole
<1> HIDE DEF y, fs
<1>0. T \in Structs
  BY EnvoyServiceTable
<1> HIDE DEF T
<1>3. PICK h : /\ Runs(Commas(Bufs(fs)), Append(base, Frame(T, Zero(T), "want_key")), Append(base, h))
               /\ h.state \in {"want_key", "after_value"} /\ h.obj = y
               /\ AtEnd(fs, T, y, h)
  BY <1>0, <1>1, <1>2, CommasRun
<1>4. \E key, wv : h = At(T, y, "after_value", key, wv)
  BY <1>1, <1>3 DEF AtEnd
<1> QED BY <1>1, <1>3, <1>4 DEF y, T

\* The call for a service, at its tags and at name n among them.
Pairing(o, state, wv, n) ==
  [T |-> "EnvoyService", obj |-> o, state |-> state, key |-> "tags", wantVal |-> wv,
   k |-> n, depth |-> 0]

\* The handler of the tags, and where it is at first.
LEMMA PairingFacts ==
  ASSUME NEW o, NEW state, NEW wv, NEW n
  PROVE  /\ Pairing(o, state, wv, n).state = state /\ Pairing(o, state, wv, n).wantVal = wv
         /\ Pairing(o, state, wv, n).obj = o /\ KindOf(Pairing(o, state, wv, n)) = "map"
         /\ Pairing(o, state, wv, << >>) = At("EnvoyService", o, state, "tags", wv)
<1> DEFINE f == Pairing(o, state, wv, n)
<1>1. f.state = state /\ f.wantVal = wv /\ f.obj = o /\ f.key = "tags" /\ f.T = "EnvoyService"
  BY DEF Pairing
<1>2. Pairing(o, state, wv, << >>) = At("EnvoyService", o, state, "tags", wv)
  BY DEF Pairing, At
<1> HIDE DEF f
<1>3. KindOf(f) = "map"
  BY <1>1, EnvoyServiceTable DEF KindOf
<1> QED BY <1>1, <1>2, <1>3 DEF f

\* The call after each kind of token.
LEMMA PairingChanges ==
  ASSUME NEW o, NEW state, NEW wv, NEW n
  PROVE  /\ \A st : Gone(Pairing(o, state, wv, n), st) = Pairing(o, st, wv, n)
         /\ \A v : Named(Pairing(o, state, wv, n), v) = Pairing(o, "pair_colon", Yes, v)
         /\ \A v : Paired(Pairing(o, state, wv, n), v)
                     = Pairing(Filled(o, "tags", Put(o["tags"], n, v)), "pairs", No, n)
<1>1. ASSUME NEW p, NEW b, NEW st, NEW m PROVE Gone(Pairing(p, state, b, m), st) = Pairing(p, st, b, m)
  BY DEF Pairing, Gone
<1>2. ASSUME NEW v PROVE Named(Pairing(o, state, wv, n), v) = Pairing(o, "pair_colon", Yes, v)
  <2> DEFINE f == Pairing(o, state, wv, n)
             f1 == [f EXCEPT !.k = v]
             f2 == [f1 EXCEPT !.wantVal = Yes]
  <2>1. Named(f, v) = Gone(f2, "pair_colon")
    BY DEF Named, Gone
  <2>2. f1 = Pairing(o, state, wv, v)
    BY DEF Pairing
  <2> HIDE DEF f, f1
  <2>3. f2 = Pairing(o, state, Yes, v)
    BY <2>2 DEF Pairing
  <2> HIDE DEF f2
  <2>4. Gone(Pairing(o, state, Yes, v), "pair_colon") = Pairing(o, "pair_colon", Yes, v)
    BY <1>1
  <2>5. Named(f, v) = Pairing(o, "pair_colon", Yes, v)
    BY <2>1, <2>3, <2>4, Zenon
  <2> QED BY <2>5 DEF f
<1>3. ASSUME NEW v
      PROVE  Paired(Pairing(o, state, wv, n), v)
               = Pairing(Filled(o, "tags", Put(o["tags"], n, v)), "pairs", No, n)
  <2> DEFINE f == Pairing(o, state, wv, n)
             u == Put(o["tags"], n, v)
             q == Filled(o, "tags", u)
             p == Put(f.obj[f.key], f.k, v)
             f1 == [f EXCEPT !.obj[f.key] = p]
             f2 == [f1 EXCEPT !.wantVal = No]
  <2>0. f.obj = o /\ f.key = "tags" /\ f.k = n
    BY DEF Pairing
  <2>1. Paired(f, v) = Gone(f2, "pairs")
    BY DEF Paired, Gone
  <2>2. p = u
    BY <2>0
  <2> HIDE DEF u, p
  <2>3. f1 = Pairing(q, state, wv, n)
    BY <2>2 DEF Pairing, Filled
  <2> HIDE DEF q, f1
  <2>4. f2 = Pairing(q, state, No, n)
    BY <2>3 DEF Pairing
  <2> HIDE DEF f, f2
  <2>5. Gone(Pairing(q, state, No, n), "pairs") = Pairing(q, "pairs", No, n)
    BY <1>1
  <2>6. Paired(f, v) = Pairing(q, "pairs", No, n)
    BY <2>1, <2>4, <2>5, Zenon
  <2> QED BY <2>6 DEF f, q, u
<1> QED BY <1>1, <1>2, <1>3

\* One member of the tags more.
LEMMA PairGoes ==
  ASSUME NEW base, IsBuffer(base), NEW w, NEW a, NEW o, NEW wv, NEW m,
         Goes(w, a, Append(base, Pairing(o, "pairs", wv, m))), NEW n, NEW v
  PROVE  Goes(((w \o WriteString(n)) \o Tok(":")) \o WriteString(v), a,
              Append(base, Pairing(Filled(o, "tags", Put(o["tags"], n, v)), "pairs", No, n)))
<1> DEFINE f == Pairing(o, "pairs", wv, m)
           g == Pairing(o, "pair_colon", Yes, n)
           h == Pairing(o, "pair_value", Yes, n)
           e == Pairing(Filled(o, "tags", Put(o["tags"], n, v)), "pairs", No, n)
           x == Token("string", n)
           c == Token(":", << >>)
           y == Token("string", v)
<1>1. f.state = "pairs" /\ g.state = "pair_colon" /\ h.state = "pair_value"
  BY PairingFacts
<1>2. g = Named(f, n) /\ h = Gone(g, "pair_value") /\ e = Paired(h, v)
  BY PairingChanges
<1>3. x.t = "string" /\ x.v = n /\ c.t = ":" /\ y.t = "string" /\ y.v = v
  BY DEF Token
<1>4. WriteString(n) = <<x>> /\ Tok(":") = <<c>> /\ WriteString(v) = <<y>>
  BY DEF WriteString, Tok, Token
<1> HIDE DEF f, g, h, e, x, c, y
<1>5. Also(f, x, g)
  BY <1>1, <1>2, <1>3 DEF Also, AlsoIn
<1>6. Also(g, c, h)
  BY <1>1, <1>2, <1>3 DEF Also, AlsoIn
<1>7. Also(h, y, e)
  BY <1>1, <1>2, <1>3 DEF Also, AlsoIn
<1> DEFINE w1 == w \o <<x>>
           w2 == w1 \o <<c>>
           w3 == w2 \o <<y>>
<1>8. Goes(w1, a, Append(base, g))
  BY <1>5, GoesFurther DEF f
<1> HIDE DEF w1
<1>9. Goes(w2, a, Append(base, h))
  BY <1>6, <1>8, GoesFurther
<1> HIDE DEF w2
<1>10. Goes(w3, a, Append(base, e))
  BY <1>7, <1>9, GoesFurther
<1> QED BY <1>4, <1>10 DEF w1, w2, e

\* The two tags, in the order of the text.
LEMMA TagsAre ==
  Put(Put(<< >>, <<"a">>, <<"new">>), <<"b">>, <<"new">>) = Tags
<1> DEFINE a == <<"a">>
           b == <<"b">>
           v == <<"new">>
           e == << >>
<1>1. DOMAIN e = {} /\ Tags = [q \in {a, b} |-> v]
  BY DEF Tags
<1> HIDE DEF a, b, v, e
<1>2. Put(e, a, v) = [q \in {a} |-> v]
  BY <1>1 DEF Put
<1>3. Put([q \in {a} |-> v], b, v) = [q \in {a, b} |-> v]
  <2> DEFINE g == [q \in {a} |-> v]
  <2>1. DOMAIN g = {a} /\ g[a] = v
    OBVIOUS
  <2> HIDE DEF g
  <2>2. Put(g, b, v) = [q \in {a, b} |-> v]
    BY <2>1 DEF Put
  <2> QED BY <2>2 DEF g
<1> QED BY <1>1, <1>2, <1>3 DEF a, b, v, e

\* The decoder along the members of the tags.
LEMMA PairsGo ==
  ASSUME NEW base, IsBuffer(base), NEW y, Whole("EnvoyService", y), y["tags"] = << >>, NEW wv
  PROVE  \E n : Goes(Pairs, Append(base, At("EnvoyService", y, "pairs", "tags", wv)),
                     Append(base, Pairing(Filled(y, "tags", Tags), "pairs", No, n)))
<1> DEFINE s  == Append(base, Pairing(y, "pairs", wv, << >>))
           a  == <<"a">>
           b  == <<"b">>
           v  == <<"new">>
           t1 == Put(<< >>, a, v)
           t2 == Put(t1, b, v)
           o1 == Filled(y, "tags", t1)
           w1 == ((<< >> \o WriteString(a)) \o Tok(":")) \o WriteString(v)
           w2 == w1 \o Tok(",")
           w3 == ((w2 \o WriteString(b)) \o Tok(":")) \o WriteString(v)
<1>0. << >> \o WriteString(a) = WriteString(a)
  BY TokensAreBuffers, ConcatNothing
<1>1. w3 = Pairs
  BY <1>0 DEF Pairs
<1>2. s = Append(base, At("EnvoyService", y, "pairs", "tags", wv)) /\ t2 = Tags
  BY PairingFacts, TagsAre
<1>3. Goes(<< >>, s, s)
  BY RunsNone, RunsGoes
<1>4. y = [k \in Keys("EnvoyService") |-> y[k]] /\ "tags" \in Keys("EnvoyService")
  BY EnvoyServiceTable DEF Whole
<1> HIDE DEF a, b, v, t1, t2
<1>5. o1["tags"] = t1 /\ Filled(o1, "tags", t2) = Filled(y, "tags", t2)
  BY <1>4 DEF Filled
<1> HIDE DEF o1
<1>6. Goes(w1, s, Append(base, Pairing(o1, "pairs", No, a)))
  <2> DEFINE e == << >>
  <2>1. y["tags"] = e /\ Goes(e, s, Append(base, Pairing(y, "pairs", wv, e)))
    BY <1>3
  <2> HIDE DEF s, e
  <2>2. Goes(((e \o WriteString(a)) \o Tok(":")) \o WriteString(v), s,
             Append(base, Pairing(Filled(y, "tags", Put(y["tags"], a, v)), "pairs", No, a)))
    BY <2>1, PairGoes
  <2> QED BY <2>1, <2>2 DEF e, o1, t1
<1> HIDE DEF w1, s
<1>7. Goes(w2, s, Append(base, Pairing(o1, "pairs", No, a)))
  <2> DEFINE f == Pairing(o1, "pairs", No, a)
             c == Token(",", << >>)
  <2>1. f.state = "pairs" /\ f.wantVal = No
    BY PairingFacts
  <2>2. c.t = "," /\ Tok(",") = <<c>>
    BY DEF Token, Tok
  <2> HIDE DEF f, c
  <2>3. Also(f, c, f)
    BY <2>1, <2>2 DEF Also, AlsoIn
  <2>4. Goes(w1 \o <<c>>, s, Append(base, f))
    BY <1>6, <2>3, GoesFurther DEF f
  <2> QED BY <2>2, <2>4 DEF f
<1> HIDE DEF w2
<1>8. Goes(w3, s, Append(base, Pairing(Filled(o1, "tags", Put(o1["tags"], b, v)), "pairs", No, b)))
  BY <1>7, PairGoes
<1> HIDE DEF w3
<1>9. Filled(o1, "tags", Put(o1["tags"], b, v)) = Filled(y, "tags", Tags)
  BY <1>2, <1>5 DEF t2
<1> QED BY <1>1, <1>2, <1>8, <1>9

\* A token by itself that the innermost call reads.
LEMMA TokGoes ==
  ASSUME NEW base, IsBuffer(base), NEW f, NEW g, NEW c, Turns(f, Token(c, << >>), g)
  PROVE  Goes(Tok(c), Append(base, f), Append(base, g))
<1>1. Tok(c) = <<Token(c, << >>)>>
  BY DEF Tok, Token
<1>2. Runs(<<Token(c, << >>)>>, Append(base, f), Append(base, g))
  BY TurnRuns
<1> QED BY <1>1, <1>2, RunsGoes

\* The comma behind a value; the bracket behind a map; those of a slice of structs.
LEMMA CommaGoes ==
  ASSUME NEW base, IsBuffer(base), NEW T, NEW o, NEW key, NEW wv
  PROVE  Goes(Tok(","), Append(base, At(T, o, "after_value", key, wv)),
              Append(base, At(T, o, "want_key", key, wv)))
<1> DEFINE f == At(T, o, "after_value", key, wv)
           g == At(T, o, "want_key", key, wv)
<1>1. f.state = "after_value" /\ g = Gone(f, "want_key") /\ Token(",", << >>).t = ","
  BY AtFacts, AtChanges DEF Token
<1> HIDE DEF f, g
<1>2. Turns(f, Token(",", << >>), g)
  BY <1>1 DEF Turns, TurnsIn
<1> QED BY <1>2, TokGoes DEF f, g

\* The bracket behind the tags.
LEMMA PairsClose ==
  ASSUME NEW base, IsBuffer(base), NEW o, NEW wv, NEW n
  PROVE  Goes(Tok("}"), Append(base, Pairing(o, "pairs", wv, n)),
              Append(base, Pairing(o, "after_value", wv, n)))
<1> DEFINE f == Pairing(o, "pairs", wv, n)
           g == Pairing(o, "after_value", wv, n)
<1>1. f.state = "pairs" /\ g = Gone(f, "after_value") /\ Token("}", << >>).t = "}"
  BY PairingFacts, PairingChanges DEF Token
<1> HIDE DEF f, g
<1>2. Turns(f, Token("}", << >>), g)
  BY <1>1 DEF Turns, TurnsIn
<1> QED BY <1>2, TokGoes DEF f, g

\* The bracket before a slice of structs.
LEMMA SliceOpens ==
  ASSUME NEW base, IsBuffer(base), NEW T \in Structs, NEW k \in Keys(T), NEW o, NEW wv,
         Fields[T][k].kind = "ptrs"
  PROVE  Goes(Tok("["), Append(base, At(T, o, "want_value", k, wv)),
              Append(base, At(T, Filled(o, k, << >>), "elements", k, Yes)))
<1> DEFINE f == At(T, o, "want_value", k, wv)
           g == At(T, Filled(o, k, << >>), "elements", k, Yes)
<1>1. f.state = "want_value" /\ g = Opened(f, "elements") /\ Token("[", << >>).t = "["
  BY AtFacts, AtChanges DEF Token
<1>2. KindOf(f) = "ptrs"
  BY AtKind
<1> HIDE DEF f, g
<1>3. Turns(f, Token("[", << >>), g)
  BY <1>1, <1>2 DEF Turns, TurnsIn
<1> QED BY <1>3, TokGoes DEF f, g

\* The bracket behind it.
LEMMA SliceCloses ==
  ASSUME NEW base, IsBuffer(base), NEW T \in Structs, NEW k \in Keys(T), NEW o, NEW wv,
         Fields[T][k].kind = "ptrs"
  PROVE  Goes(Tok("]"), Append(base, At(T, o, "elements", k, wv)),
              Append(base, At(T, o, "after_value", k, wv)))
<1> DEFINE f == At(T, o, "elements", k, wv)
           g == At(T, o, "after_value", k, wv)
<1>1. f.state = "elements" /\ g = Gone(f, "after_value") /\ Token("]", << >>).t = "]"
  BY AtFacts, AtChanges DEF Token
<1>2. KindOf(f) = "ptrs"
  BY AtKind
<1> HIDE DEF f, g
<1>3. Turns(f, Token("]", << >>), g)
  BY <1>1, <1>2 DEF Turns, TurnsIn
<1> QED BY <1>3, TokGoes DEF f, g

\* The bracket of the tags; that of the text.
LEMMA TagsOpen ==
  ASSUME NEW base, IsBuffer(base), NEW o, NEW wv
  PROVE  Goes(Tok("{"), Append(base, At("EnvoyService", o, "want_value", "tags", wv)),
              Append(base, At("EnvoyService", Filled(o, "tags", << >>), "pairs", "tags", Yes)))
<1> DEFINE f == At("EnvoyService", o, "want_value", "tags", wv)
           g == At("EnvoyService", Filled(o, "tags", << >>), "pairs", "tags", Yes)
<1>1. f.state = "want_value" /\ g = Opened(f, "pairs") /\ Token("{", << >>).t = "{"
  BY AtFacts, AtChanges DEF Token
<1>2. KindOf(f) = "map"
  BY AtKind, EnvoyServiceTable
<1> HIDE DEF f, g
<1>3. Turns(f, Token("{", << >>), g)
  BY <1>1, <1>2 DEF Turns, TurnsIn
<1> QED BY <1>3, TokGoes DEF f, g

\* The first bracket of a text.
LEMMA TextOpens ==
  ASSUME NEW base, IsBuffer(base), NEW T
  PROVE  Goes(Tok("{"), Append(base, Frame(T, Zero(T), "map_start")),
              Append(base, At(T, Zero(T), "want_key", "no_such_key", Yes)))
<1> DEFINE f == Frame(T, Zero(T), "map_start")
           g == At(T, Zero(T), "want_key", "no_such_key", Yes)
<1>1. f.state = "map_start" /\ g = Gone(f, "want_key") /\ Token("{", << >>).t = "{"
  BY FrameIsAt, AtFacts, AtChanges DEF Token
<1> HIDE DEF f, g
<1>2. Turns(f, Token("{", << >>), g)
  BY <1>1 DEF Turns, TurnsIn
<1> QED BY <1>2, TokGoes DEF f, g

\* An element of a slice of structs: the call for it, and what comes of it.
LEMMA ElementOpens ==
  ASSUME NEW base, IsBuffer(base), NEW T \in Structs, NEW k \in Keys(T), NEW o, NEW wv,
         Fields[T][k].kind = "ptrs", NEW U, U = Fields[T][k].of
  PROVE  Goes(Tok("{"), Append(base, At(T, o, "elements", k, wv)),
              Append(Append(base, At(T, o, "elements", k, wv)), Frame(U, Zero(U), "want_key")))
<1> DEFINE f == At(T, o, "elements", k, wv)
           h == Frame(U, Zero(U), "want_key")
<1>1. f.state = "elements" /\ f.T = T /\ f.key = k /\ Token("{", << >>).t = "{"
      /\ Tok("{") = <<Token("{", << >>)>>
  BY AtFacts DEF Token, Tok
<1>2. KindOf(f) = "ptrs"
  BY AtKind
<1>3. h = Frame(Fields[f.T][f.key].of, Zero(Fields[f.T][f.key].of), "want_key")
  BY <1>1
<1> HIDE DEF f, h
<1>4. Enters(f, Token("{", << >>), h)
  BY <1>1, <1>2, <1>3 DEF Enters, Waits
<1>5. Runs(Tok("{"), Append(base, f), Append(Append(base, f), h))
  BY <1>1, <1>4, EnterRuns
<1> QED BY <1>5, RunsGoes DEF f, h

\* The end of that call: its object is appended to the slice.
LEMMA ElementCloses ==
  ASSUME NEW base, IsBuffer(base), NEW T, NEW k, NEW o, NEW wv, NEW h, h.state = "after_value"
  PROVE  Goes(Tok("}"), Append(Append(base, At(T, o, "elements", k, wv)), h),
              Append(base, At(T, Filled(o, k, Append(o[k], h.obj)), "elements", k, No)))
<1> DEFINE f == At(T, o, "elements", k, wv)
           g == At(T, Filled(o, k, Append(o[k], h.obj)), "elements", k, No)
<1>1. f.state = "elements" /\ g = Extended(f, h.obj) /\ Token("}", << >>).t = "}"
      /\ Tok("}") = <<Token("}", << >>)>>
  BY AtFacts, AtChanges DEF Token, Tok
<1> HIDE DEF f, g
<1>2. Returns(f, h, Token("}", << >>), g)
  BY <1>1 DEF Returns
<1>3. Runs(Tok("}"), Append(Append(base, f), h), Append(base, g))
  BY <1>1, <1>2, ReturnRuns
<1> QED BY <1>3, RunsGoes DEF f, g

\* Three and more texts, one after the other.
LEMMA GoesThree ==
  ASSUME NEW a, NEW b, NEW c, NEW d, NEW u, NEW v, NEW w,
         Goes(u, a, b), Goes(v, b, c), Goes(w, c, d)
  PROVE  Goes(u \o (v \o w), a, d)
BY GoesOn

\* A key and its colon.
LEMMA KeyGoes ==
  ASSUME NEW T \in Structs, NEW k \in Keys(T), NEW base, IsBuffer(base), NEW o, NEW key, NEW wv
  PROVE  Goes(KeyText(k), Append(base, At(T, o, "want_key", key, wv)),
              Append(base, At(T, o, "want_value", k, wv)))
BY KeyRuns, RunsGoes DEF KeyText

\* A service up to the bracket of its tags.
LEMMA HostBegins ==
  ASSUME NEW x, Whole("EnvoyService", x), NEW base, IsBuffer(base),
         NEW s, s = Commas(Bufs(Untagged(x)))
  PROVE  Goes(s \o (Tok(",") \o (KeyText("tags") \o Tok("{"))),
              Append(base, Frame("EnvoyService", Zero("EnvoyService"), "want_key")),
              Append(base, At("EnvoyService", Filled(Bare(x), "tags", << >>), "pairs", "tags", Yes)))
<1> DEFINE T == "EnvoyService"
           y == Bare(x)
           k == "tags"
           f == Frame(T, Zero(T), "want_key")
           z == At(T, Filled(y, k, << >>), "pairs", k, Yes)
<1>1. PICK key, wv : Runs(Commas(Bufs(Untagged(x))), Append(base, Frame("EnvoyService", Zero("EnvoyService"), "want_key")),
                          Append(base, At("EnvoyService", Bare(x), "after_value", key, wv)))
  BY UntaggedRuns
<1>2. Goes(s, Append(base, f), Append(base, At(T, y, "after_value", key, wv)))
  BY <1>1, RunsGoes
<1>3. T \in Structs /\ k \in Keys(T)
  BY EnvoyServiceTable
<1>4. Goes(Tok("{"), Append(base, At(T, y, "want_value", k, wv)), Append(base, z))
  BY TagsOpen
<1> HIDE DEF T, y, k, f, z
<1>5. Goes(Tok(","), Append(base, At(T, y, "after_value", key, wv)),
           Append(base, At(T, y, "want_key", key, wv)))
  BY CommaGoes
<1>6. Goes(KeyText(k), Append(base, At(T, y, "want_key", key, wv)),
           Append(base, At(T, y, "want_value", k, wv)))
  BY <1>3, KeyGoes
<1> DEFINE b == Tok("{")
           c == Tok(",")
           kt == KeyText(k)
<1> HIDE DEF b, c, kt
<1>7. Goes(c \o (kt \o b), Append(base, At(T, y, "after_value", key, wv)), Append(base, z))
  BY <1>4, <1>5, <1>6, GoesThree DEF b, c, kt
<1>8. Goes(s \o (c \o (kt \o b)), Append(base, f), Append(base, z))
  BY <1>2, <1>7, GoesOn
<1> QED BY <1>8 DEF T, y, k, f, z, b, c, kt

\* Some fields of an answer, and the other.
Envs    == {"env"}
AndHosts == Envs \cup {"hosts"}
All == AndHosts \cup {"service"}

\* An answer up to the bracket of the tags of its host.
LEMMA AnswerBegins ==
  ASSUME NEW x, Whole("EnvoyService", x), NEW s, s = Commas(Bufs(Untagged(x))),
         NEW mj, NEW e, e = Str("env", mj["env"]).buf, NEW base, IsBuffer(base)
  PROVE  
         Goes(Before(e, s), Append(base, Frame("SDSResult", Zero("SDSResult"), "map_start")),
              Append(Append(base, At("SDSResult", Filled(Part("SDSResult", mj, Envs), "hosts", << >>),
                                     "elements", "hosts", Yes)),
                     At("EnvoyService", Filled(Bare(x), "tags", << >>), "pairs", "tags", Yes)))
<1> DEFINE T == "SDSResult"
           U == "EnvoyService"
           h == "hosts"
           k0 == "no_such_key"
           o0 == Zero(T)
           o1 == Part(T, mj, Envs)
           o2 == Filled(o1, h, << >>)
           f0 == Append(base, Frame(T, o0, "map_start"))
           b2 == Append(base, At(T, o2, "elements", h, Yes))
           z  == Append(b2, At(U, Filled(Bare(x), "tags", << >>), "pairs", "tags", Yes))
           ob == Tok("{")
           os == Tok("[")
           c  == Tok(",")
           kh == KeyText(h)
           w  == s \o (c \o (KeyText("tags") \o ob))
<1>1. Goes(ob, f0, Append(base, At(T, o0, "want_key", k0, Yes)))
  BY TextOpens
<1>2. /\ T \in Structs /\ h \in Keys(T) /\ "env" \in Keys(T)
      /\ Fields[T][h].kind = "ptrs" /\ Fields[T][h].of = U /\ Fields[T]["env"].kind = "string"
  BY ResultTables
<1>3. o0 = Part(T, mj, {})
  BY <1>2, PartFacts
<1>4. PICK wv : Goes(e, Append(base, At(T, o0, "want_key", k0, Yes)),
                     Append(base, At(T, o1, "after_value", "env", wv)))
  <2> DEFINE N == {}
             ke == "env"
  <2>1. Writes(e, T, mj, ke) /\ ke \notin N /\ N \cup {ke} = Envs
    BY <1>2, ScalarWritten DEF Written, Envs
  <2>2. o0 = Part(T, mj, N) /\ o1 = Part(T, mj, Envs)
    BY <1>3
  <2> HIDE DEF N, ke, T, o0, o1, k0
  <2>3. PICK wv : Runs(e, Append(base, At(T, Part(T, mj, N), "want_key", k0, Yes)),
                       Append(base, At(T, Part(T, mj, N \cup {ke}), "after_value", ke, wv)))
    BY <2>1 DEF Writes
  <2>4. Runs(e, Append(base, At(T, o0, "want_key", k0, Yes)),
             Append(base, At(T, o1, "after_value", ke, wv)))
    BY <2>1, <2>2, <2>3
  <2> QED BY <2>4, RunsGoes DEF ke
<1> DEFINE a1 == Append(base, At(T, o1, "after_value", "env", wv))
           a2 == Append(base, At(T, o1, "want_key", "env", wv))
           a3 == Append(base, At(T, o1, "want_value", h, wv))
           a4 == Append(b2, Frame(U, Zero(U), "want_key"))
<1>5. Goes(c, a1, a2)
  BY CommaGoes
<1>6. Goes(kh, a2, a3)
  BY <1>2, KeyGoes
<1>7. Goes(os, a3, b2)
  BY <1>2, SliceOpens
<1>8. Goes(ob, b2, a4)
  BY <1>2, ElementOpens
<1>9. IsBuffer(b2)
  BY AppendIsBuffer
<1>10. Goes(w, a4, z)
  BY <1>9, HostBegins
<1>11. Before(e, s) = ob \o (e \o (c \o (kh \o (os \o (ob \o w)))))
  BY DEF Before
<1> DEFINE a0 == Append(base, At(T, o0, "want_key", k0, Yes))
<1> HIDE DEF ob, os, c, kh, w, f0, b2, z, a0, a1, a2, a3, a4
<1>12. Goes(os \o (ob \o w), a3, z)
  BY <1>7, <1>8, <1>10, GoesThree
<1> DEFINE w1 == os \o (ob \o w)
<1> HIDE DEF w1
<1>13. Goes(c \o (kh \o w1), a1, z)
  BY <1>5, <1>6, <1>12, GoesThree DEF w1
<1> DEFINE w2 == c \o (kh \o w1)
<1> HIDE DEF w2
<1>14. Goes(ob \o (e \o w2), f0, z)
  BY <1>1, <1>4, <1>13, GoesThree, SMTT(40) DEF w2, a0, a1
<1>15. Before(e, s) = ob \o (e \o w2)
  BY <1>11 DEF w1, w2
<1> QED BY <1>14, <1>15 DEF f0, z, b2

\* The object of an answer when its one host is read, and at the end.
LEMMA HostFills ==
  ASSUME NEW mj, NEW x, mj["hosts"] = <<x>>, NEW o1, o1 = Part("SDSResult", mj, Envs),
         NEW o2, o2 = Filled(o1, "hosts", << >>)
  PROVE  Filled(o2, "hosts", Append(o2["hosts"], x)) = Part("SDSResult", mj, AndHosts)
<1> DEFINE T == "SDSResult"
           h == "hosts"
           e == << >>
<1>1. h \in Keys(T)
  BY ResultTables
<1>2. Append(e, x) = <<x>>
  BY TokensAreBuffers
<1>7. o1 = Part(T, mj, Envs) /\ AndHosts = Envs \cup {h}
  BY DEF AndHosts
<1> HIDE DEF T, h, e
<1>3. o2[h] = e
  BY <1>1, FilledHas DEF T, h, e
<1>4. Filled(o2, h, mj[h]) = Filled(o1, h, mj[h])
  BY <1>1, FilledTwice DEF T, h, e
<1>5. Filled(o1, h, mj[h]) = Part(T, mj, AndHosts)
  BY <1>1, <1>7, PartGrows
<1>6. mj[h] = Append(o2[h], x)
  BY <1>2, <1>3 DEF h
<1> QED BY <1>4, <1>5, <1>6 DEF T, h

\* An answer from the bracket behind the tags of its host.
LEMMA AnswerEnds ==
  ASSUME NEW x, NEW mj, Whole("SDSResult", mj), mj["hosts"] = <<x>>,
         NEW v, v = Str("service", mj["service"]).buf, NEW base, IsBuffer(base), NEW n,
         NEW o2, o2 = Filled(Part("SDSResult", mj, Envs), "hosts", << >>)
  PROVE  \E wv :
         Goes(Behind(v),
              Append(Append(base, At("SDSResult", o2, "elements", "hosts", Yes)),
                     Pairing(x, "pairs", No, n)),
              Append(base, At("SDSResult", mj, "after_value", "service", wv)))
<1> DEFINE T  == "SDSResult"
           h  == "hosts"
           ks == "service"
           o3 == Part(T, mj, AndHosts)
           b2 == Append(base, At(T, o2, "elements", h, Yes))
           p  == Pairing(x, "after_value", No, n)
           a0 == Append(b2, Pairing(x, "pairs", No, n))
           a1 == Append(b2, p)
           a2 == Append(base, At(T, o3, "elements", h, No))
           a3 == Append(base, At(T, o3, "after_value", h, No))
           a4 == Append(base, At(T, o3, "want_key", h, No))
           cb == Tok("}")
           cs == Tok("]")
           c  == Tok(",")
<1>1. /\ T \in Structs /\ h \in Keys(T) /\ ks \in Keys(T) /\ Keys(T) = All
      /\ Fields[T][h].kind = "ptrs" /\ Fields[T][ks].kind = "string"
  BY ResultTables DEF All, AndHosts, Envs
<1>2. IsBuffer(b2)
  BY AppendIsBuffer
<1>3. Goes(cb, a0, a1)
  BY <1>2, PairsClose
<1>4. p.state = "after_value" /\ p.obj = x
  BY PairingFacts
<1>5. Filled(o2, h, Append(o2[h], x)) = o3
  BY HostFills
<1> HIDE DEF p
<1>6. Goes(cb, a1, a2)
  <2>1. Goes(cb, Append(Append(base, At(T, o2, "elements", h, Yes)), p),
             Append(base, At(T, Filled(o2, h, Append(o2[h], p.obj)), "elements", h, No)))
    BY <1>4, ElementCloses
  <2> QED BY <1>4, <1>5, <2>1
<1>7. Goes(cs, a2, a3)
  BY <1>1, SliceCloses
<1>8. Goes(c, a3, a4)
  BY CommaGoes
<1>9. Writes(v, T, mj, ks) /\ ks \notin AndHosts /\ AndHosts \cup {ks} = All
  BY <1>1, ScalarWritten DEF Written, All, AndHosts, Envs
<1>10. Part(T, mj, All) = mj
  BY <1>1 DEF Part, Whole
<1>11. Behind(v) = ((cb \o cb) \o cs) \o (c \o v)
  BY DEF Behind
<1> HIDE DEF T, h, ks, cb, cs, c, a0, a1, a2, a3
<1>12. PICK wv : Runs(v, Append(base, At(T, Part(T, mj, AndHosts), "want_key", h, No)),
                     Append(base, At(T, Part(T, mj, AndHosts \cup {ks}), "after_value", ks, wv)))
  BY <1>9 DEF Writes
<1> DEFINE a5 == Append(base, At(T, mj, "after_value", ks, wv))
<1>13. Runs(v, a4, a5)
  BY <1>9, <1>10, <1>12
<1> HIDE DEF a4, a5
<1>14. Goes(v, a4, a5)
  BY <1>13, RunsGoes
<1>15. Goes(cb \o cb, a0, a2)
  BY <1>3, <1>6, GoesOn
<1> DEFINE w1 == cb \o cb
<1> HIDE DEF w1
<1>16. Goes(w1 \o cs, a0, a3)
  BY <1>7, <1>15, GoesOn DEF w1
<1>17. Goes(c \o v, a3, a5)
  BY <1>8, <1>14, GoesOn
<1> DEFINE w2 == w1 \o cs
           w3 == c \o v
<1> HIDE DEF w2, w3
<1>18. Goes(w2 \o w3, a0, a5)
  BY <1>16, <1>17, GoesOn DEF w2, w3
<1>19. Goes(Behind(v), a0, a5)
  BY <1>11, <1>18 DEF w1, w2, w3
<1> QED BY <1>19 DEF a0, a5, b2, T, h, ks

\* The answer of a version that has tags.
Tagged(mj) == [mj EXCEPT !.hosts[1].tags = Tags]

\* It is the same answer but for the tags of its host.
LEMMA TaggedFacts ==
  ASSUME NEW x, NEW n, NEW mj, mj = [env |-> << >>, service |-> n, hosts |-> <<x>>]
  PROVE  /\ Whole("SDSResult", Tagged(mj)) /\ Tagged(mj)["hosts"] = <<[x EXCEPT !.tags = Tags]>>
         /\ Tagged(mj)["env"] = << >> /\ Tagged(mj)["service"] = n
<1> DEFINE y == [x EXCEPT !.tags = Tags]
           m == [env |-> << >>, service |-> n, hosts |-> <<y>>]
<1>1. Tagged(mj) = [mj EXCEPT !.hosts = [mj.hosts EXCEPT ![1] = [mj.hosts[1] EXCEPT !.tags = Tags]]]
  BY DEF Tagged
<1>2. mj.hosts = <<x>> /\ mj.hosts[1] = x
  OBVIOUS
<1> HIDE DEF y
<1>3. [<<x>> EXCEPT ![1] = y] = <<y>>
  OBVIOUS
<1>4. [mj EXCEPT !.hosts = <<y>>] = m
  OBVIOUS
<1>5. Tagged(mj) = m
  BY <1>1, <1>2, <1>3, <1>4 DEF y
<1>6. /\ m["hosts"] = <<y>> /\ m["env"] = << >> /\ m["service"] = n
      /\ DOMAIN m = {"env", "service", "hosts"} /\ m = [k \in DOMAIN m |-> m[k]]
  OBVIOUS
<1> HIDE DEF m
<1>7. Whole("SDSResult", m)
  <2>1. Keys("SDSResult") = DOMAIN m
    BY <1>6, ResultTables
  <2> QED BY <1>6, <2>1 DEF Whole
<1> QED BY <1>5, <1>6, <1>7 DEF y

\* w is a text without its last bracket that is read as an answer mj.
IsRead(w, mj) ==
  \E h : /\ Goes(w, <<Frame("SDSResult", Zero("SDSResult"), "map_start")>>, <<h>>)
         /\ h.state = "after_value" /\ h.obj = mj

\* It is read as that: with the tags behind their bracket.
LEMMA TaggedGoes ==
  ASSUME NEW x, Whole("EnvoyService", x),
         NEW n, NEW mj, mj = [env |-> << >>, service |-> n, hosts |-> <<x>>],
         NEW e, e = Str("env", << >>).buf, NEW s, s = Commas(Bufs(Untagged(x))),
         NEW v, v = Str("service", n).buf
  PROVE  IsRead((Before(e, s) \o Pairs) \o Behind(v), Tagged(mj))
<1> DEFINE mt == Tagged(mj)
           xt == [x EXCEPT !.tags = Tags]
           y  == Filled(Bare(x), "tags", << >>)
           o2 == Filled(Part("SDSResult", mt, Envs), "hosts", << >>)
           b  == << >>
           b2 == Append(b, At("SDSResult", o2, "elements", "hosts", Yes))
           a0 == Append(b, Frame("SDSResult", Zero("SDSResult"), "map_start"))
           a1 == Append(b2, At("EnvoyService", y, "pairs", "tags", Yes))
<1>1. Whole("SDSResult", mt) /\ mt["hosts"] = <<xt>> /\ mt["env"] = << >> /\ mt["service"] = n
  BY TaggedFacts
<1>2. IsBuffer(b) /\ \A f : Append(b, f) = <<f>>
  BY TokensAreBuffers
<1>3. IsBuffer(b2)
  BY <1>2, AppendIsBuffer
<1>4. Whole("EnvoyService", y) /\ y["tags"] = << >> /\ Filled(y, "tags", Tags) = xt
  <2>1. y["tags"] = << >> /\ Filled(y, "tags", Tags) = xt
    BY BareFacts
  <2>2. Whole("EnvoyService", Bare(x))
    BY BareFacts
  <2>3. Whole("EnvoyService", y)
    BY <2>2 DEF Whole, Filled
  <2> QED BY <2>1, <2>3
<1> HIDE DEF mt, b, xt, y
<1>5. Goes(Before(e, s), a0, a1)
  BY <1>1, <1>2, AnswerBegins DEF y
<1>6. PICK q : Goes(Pairs, Append(b2, At("EnvoyService", y, "pairs", "tags", Yes)),
                    Append(b2, Pairing(Filled(y, "tags", Tags), "pairs", No, q)))
  BY <1>3, <1>4, PairsGo
<1> DEFINE a2 == Append(b2, Pairing(xt, "pairs", No, q))
<1>7. Goes(Pairs, a1, a2)
  BY <1>4, <1>6
<1>8. PICK wv : Goes(Behind(v),
              Append(Append(b, At("SDSResult", o2, "elements", "hosts", Yes)),
                     Pairing(xt, "pairs", No, q)),
              Append(b, At("SDSResult", mt, "after_value", "service", wv)))
  BY <1>1, <1>2, AnswerEnds
<1> DEFINE h  == At("SDSResult", mt, "after_value", "service", wv)
           p  == Before(e, s)
           r  == Behind(v)
<1>9. h.state = "after_value" /\ h.obj = mt
  BY AtFacts
<1>10. Append(b, h) = <<h>> /\ a0 = <<Frame("SDSResult", Zero("SDSResult"), "map_start")>>
  BY <1>2
<1>11. Goes(r, a2, <<h>>)
  BY <1>8, <1>10
<1> HIDE DEF a0, a1, a2, h, p, r, b2
<1>12. Goes(p \o Pairs, a0, a2)
  BY <1>5, <1>7, GoesOn DEF p
<1> DEFINE w == p \o Pairs
<1> HIDE DEF w
<1>13. Goes(w \o r, a0, <<h>>)
  BY <1>11, <1>12, GoesOn DEF w
<1>14. Goes((Before(e, s) \o Pairs) \o Behind(v), a0, <<h>>)
  BY <1>13 DEF w, p, r
<1> QED BY <1>9, <1>10, <1>14 DEF mt, IsRead

\* The tags have no blanks.
LEMMA PairsNoBlanks == NoBlanks(Pairs)
<1>1. \A v : NoBlanks(WriteString(v))
  BY SolidTokens
<1>2. NoBlanks(Tok(":")) /\ NoBlanks(Tok(","))
  BY SolidTokens
<1> DEFINE a == WriteString(<<"a">>)
           b == WriteString(<<"b">>)
           v == WriteString(<<"new">>)
           c == Tok(":")
           d == Tok(",")
<1>3. NoBlanks(a) /\ NoBlanks(b) /\ NoBlanks(c) /\ NoBlanks(d) /\ NoBlanks(v)
  BY <1>1, <1>2
<1>4. Pairs = (((((a \o c) \o v) \o d) \o b) \o c) \o v
  BY DEF Pairs
<1> HIDE DEF a, b, c, d, v
<1> DEFINE w1 == a \o c
           w2 == w1 \o v
           w3 == w2 \o d
           w4 == w3 \o b
           w5 == w4 \o c
           w6 == w5 \o v
<1>5. NoBlanks(w1)
  BY <1>3, NoBlanksConcat
<1> HIDE DEF w1
<1>6. NoBlanks(w2)
  BY <1>3, <1>5, NoBlanksConcat
<1> HIDE DEF w2
<1>7. NoBlanks(w3)
  BY <1>3, <1>6, NoBlanksConcat
<1> HIDE DEF w3
<1>8. NoBlanks(w4)
  BY <1>3, <1>7, NoBlanksConcat
<1> HIDE DEF w4
<1>9. NoBlanks(w5)
  BY <1>3, <1>8, NoBlanksConcat
<1> HIDE DEF w5
<1>10. NoBlanks(w6)
  BY <1>3, <1>9, NoBlanksConcat
<1> QED BY <1>4, <1>10 DEF w1, w2, w3, w4, w5, w6

\* The body of an answer with one host, and what a version with tags makes of it.
LEMMA TagsGo ==
  ASSUME NEW x, Whole("EnvoyService", x), x # Nil, <<x>> # Nil, x.tags = << >>, << >> # Nil,
         NEW n, NEW mj, mj = [env |-> << >>, service |-> n, hosts |-> <<x>>],
         NEW d, d = Lexed(SDSResultJSON(mj)), NEW i \in DOMAIN d, OpensTags(d, i)
  PROVE  \E u, h : Going(Insert(d, i, Pairs), u, h, "SDSResult", Tagged(mj))
<1> DEFINE e == Str("env", << >>).buf
           s == Commas(Bufs(Untagged(x)))
           v == Str("service", n).buf
           p == Before(e, s)
           r == Behind(v)
           w == HostAnswer(e, s, v)
           m == Pairs
<1>1. Calm(e) /\ Calm(v) /\ Calm(s)
  BY ScalarText, UntaggedCalm DEF CalmFields
<1>2. SDSResultJSON(mj) = Shut(w)
  BY AnswerText
<1>0. e = Str("env", << >>).buf /\ s = Commas(Bufs(Untagged(x))) /\ v = Str("service", n).buf
  OBVIOUS
<1>4. NoBlanks(m) /\ IsBuffer(m)
  BY PairsNoBlanks DEF NoBlanks
<1> HIDE DEF e, s, v, p, r, w
<1>3. IsRead((Before(e, s) \o Pairs) \o Behind(v), Tagged(mj))
  BY <1>0, TaggedGoes
<1>5. Parted(w, p, r)
  BY <1>1, HostParted DEF w, p, r
<1> DEFINE u == (p \o m) \o r
<1>6. PICK h : /\ Goes(u, <<Frame("SDSResult", Zero("SDSResult"), "map_start")>>, <<h>>)
               /\ h.state = "after_value" /\ h.obj = Tagged(mj)
  BY <1>3 DEF p, r, IsRead
<1> HIDE DEF m
<1>7. Insert(d, i, m) = Shut(u)
  BY <1>2, <1>4, <1>5, TagsPut
<1>8. NoBlanks(p) /\ NoBlanks(r)
  BY <1>5 DEF Parted
<1>9. NoBlanks(p \o m)
  BY <1>4, <1>8, NoBlanksConcat
<1> DEFINE q == p \o m
<1> HIDE DEF q
<1>10. NoBlanks(q \o r)
  BY <1>8, <1>9, NoBlanksConcat DEF q
<1>11. NoBlanks(u)
  BY <1>10 DEF q
<1> HIDE DEF u
<1>12. Going(Insert(d, i, m), u, h, "SDSResult", Tagged(mj))
  BY <1>6, <1>7, <1>11 DEF Going, Shut
<1> QED BY <1>12 DEF m

\* The other answers have no tags to come.
LEMMA NoTagsElsewhere ==
  ASSUME NEW T \in Hostless, NEW w, NEW s, Along(T, w, s), NEW d, d = Shut(w),
         NEW i \in DOMAIN d, OpensTags(d, i)
  PROVE  FALSE
<1>1. IsBuffer(w)
  BY DEF Along, NoBlanks
<1>2. PICK n : n = Len(w)
  OBVIOUS
<1>3. n \in Nat
  BY <1>1, <1>2, BracketFacts
<1>4. Len(d) = n + 1 /\ DOMAIN d = 1..(n + 1)
  BY <1>1, <1>2, ShutFacts, LastBracket DEF Shut
<1>5. \A j \in 1..n : d[j] = w[j]
  BY <1>1, <1>2, ShutFacts
<1>6. i > 2 /\ d[i - 1].t = ":" /\ d[i - 2].v = <<"tags">>
  BY DEF OpensTags
<1>7. i \in 1..(n + 1) /\ i > 2
  BY <1>4, <1>6
<1>8. PICK j \in 1..n : j = i - 2
  BY <1>3, <1>7
<1>9. j + 1 \in 1..n /\ i - 1 = j + 1
  BY <1>3, <1>7, <1>8
<1>10. w[j + 1].t = ":" /\ w[j].v = <<"tags">>
  BY <1>5, <1>6, <1>8, <1>9
<1>11. Closed(Hostless)
  BY ClosedAre
<1>12. IsKey(Hostless, w, s, j)
  <2>1. j \in 1..Len(w) /\ j + 1 \in 1..Len(w)
    BY <1>2, <1>9
  <2> QED BY <1>10, <1>11, <2>1, ColonAfterKey
<1> DEFINE f == Inner(s[j - 1])
<1>13. Knows(f, w[j], Inner(s[j])) /\ IsCall(Hostless, f)
  BY <1>12 DEF IsKey
<1> HIDE DEF f
<1>14. f.T \in Hostless
  BY <1>13 DEF IsCall
<1>15. PICK k \in Keys(f.T) : w[j] = [t |-> "string", v |-> <<k>>]
  BY <1>13 DEF Knows
<1>16. k = "tags"
  BY <1>10, <1>15
<1>17. f.T = "EnvoyService"
  <2>1. f.T \in Structs
    BY <1>14 DEF Hostless
  <2> QED BY <1>15, <1>16, <2>1, HostsAre
<1> QED BY <1>14, <1>17 DEF Hostless

\* What a body says, given what the handler built.
MeantBy(e, value) == IF e = "tags" THEN Tagged(value) ELSE value

\* A body with tags is the answer to a request for hosts.
LEMMA TagsAreRead ==
  ASSUME NEW m \in Maps, NEW a \in Answers(m), a.status = 200, NEW w, NEW s, Along(a.T, w, s),
         NEW d, d = Lexed(a.body), d = Shut(w), NEW i \in DOMAIN d, OpensTags(d, i)
  PROVE  \E u, h : Going(Insert(d, i, Pairs), u, h, a.T, Tagged(a.value))
<1>1. IsMap(m) /\ a.value # Nil
  BY MapFacts, NilAssumption
<1>2. (IsSDS(m, a) \/ IsCDS(m, a) \/ IsLDS(m, a)) /\ a.body = MarshalJSON(a.T, a.value)
  BY <1>1, AnswerFacts
<1>3. IsSDS(m, a)
  <2>1. "CDSResult" \in Hostless /\ "LDSResult" \in Hostless
    BY StructsAre DEF Hostless
  <2>2. a.T \notin Hostless
    BY NoTagsElsewhere
  <2> QED BY <1>2, <2>1, <2>2 DEF IsCDS, IsLDS
<1>4. PICK n \in DOMAIN m :
        a.value = [env |-> << >>, service |-> n, hosts |-> <<EnvoyServiceFromEntry(m[n])>>]
  BY <1>3 DEF IsSDS
<1> DEFINE x == EnvoyServiceFromEntry(m[n])
<1>5. m[n] \in Registered /\ m[n] # Nil
  BY <1>1, RegisteredAssumption DEF IsMap
<1>6. Whole("EnvoyService", x) /\ x.tags = << >>
  BY <1>5, EnvoyServiceTable DEF EnvoyServiceFromEntry, Whole
<1>7. Nil \notin Objects(m[n])
  BY <1>5, NilAssumption
<1>8. Nil \notin {x, <<x>>, x.tags}
  BY <1>7 DEF Objects
<1>9. a.T = "SDSResult" /\ a.body = SDSResultJSON(a.value)
  BY <1>2, <1>3 DEF IsSDS, MarshalJSON
<1> DEFINE mj == a.value
<1>10. mj = [env |-> << >>, service |-> n, hosts |-> <<x>>] /\ d = Lexed(SDSResultJSON(mj))
  BY <1>4, <1>9
<1> HIDE DEF x, mj
<1>11. x # Nil /\ <<x>> # Nil /\ << >> # Nil
  BY <1>6, <1>8
<1>12. \E u, h : Going(Insert(d, i, Pairs), u, h, "SDSResult", Tagged(mj))
  BY <1>6, <1>10, <1>11, TagsGo
<1> QED BY <1>9, <1>12 DEF mj

\* Whatever becomes of the body but that it is cut short, the decoder goes through it
\* to what it says.
LEMMA BodiesGo ==
  ASSUME NEW m \in Maps, NEW a \in Answers(m), a.status = 200,
         NEW b \in Bodies(Lexed(a.body))
  PROVE  \E w, h : Going(b.doc, w, h, a.T, MeantBy(b.edit, a.value))
<1> DEFINE d == Lexed(a.body)
           T == a.T
           v == a.value
<1>1. Encodes(a.body, T, v)
  BY AnswerEncodes
<1>2. PICK w, h : Reading(d, w, h, T, v)
  BY <1>1, BodyRuns
<1>3. T \in Structs
  <2>1. IsMap(m)
    BY MapFacts
  <2> QED BY <2>1, AnswerFacts, StructsAre DEF IsSDS, IsCDS, IsLDS
<1>4. \/ b.edit = "whole" /\ b.doc = d
      \/ b.edit = "cased" /\ b.doc = Cased(d)
      \/ b.edit = "extra" /\ \E i \in DOMAIN d : OpensStruct(d, i) /\ b.doc = Insert(d, i, Member)
      \/ b.edit = "tags" /\ \E i \in DOMAIN d : OpensTags(d, i) /\ b.doc = Insert(d, i, Pairs)
  BY DEF Bodies
<1>5. d = Lexed(a.body)
  OBVIOUS
<1> HIDE DEF d, T, v
<1>6. Going(d, w, h, T, v)
  BY <1>2, ReadingIsAlong
<1>7. PICK s : Along(T, w, s) /\ s[Len(w)] = <<h>>
  BY <1>2, ReadingIsAlong
<1>8. d = Shut(w) /\ h.state \in {"want_key", "after_value"} /\ h.obj = v
  BY <1>6 DEF Going, Shut
<1>9. CASE b.edit = "whole" /\ b.doc = d
  BY <1>6, <1>9 DEF MeantBy, T, v
<1>10. CASE b.edit = "cased" /\ b.doc = Cased(d)
  <2>1. \E u : Going(Cased(d), u, h, T, h.obj)
    BY <1>3, <1>7, <1>8, CasedGoes
  <2> QED BY <1>8, <1>10, <2>1 DEF MeantBy, T, v
<1>11. ASSUME b.edit = "extra", NEW i \in DOMAIN d, OpensStruct(d, i), b.doc = Insert(d, i, Member)
       PROVE  \E u, g : Going(b.doc, u, g, a.T, MeantBy(b.edit, a.value))
  <2>1. \E u : Going(Insert(d, i, Member), u, h, T, h.obj)
    BY <1>3, <1>7, <1>8, <1>11, ExtraGoes
  <2> QED BY <1>8, <1>11, <2>1 DEF MeantBy, T, v
<1>12. ASSUME b.edit = "tags", NEW i \in DOMAIN d, OpensTags(d, i), b.doc = Insert(d, i, Pairs)
       PROVE  \E u, g : Going(b.doc, u, g, a.T, MeantBy(b.edit, a.value))
  <2>1. \E u, g : Going(Insert(d, i, Pairs), u, g, a.T, Tagged(a.value))
    BY <1>5, <1>7, <1>8, <1>12, TagsAreRead, ZenonT(90) DEF T
  <2> QED BY <1>12, <2>1 DEF MeantBy
<1> QED BY <1>4, <1>9, <1>10, <1>11, <1>12

-----------------------------------------------------------------------------
(***************************************************************************)
(* The decoder on its way through a body.                                  *)
(***************************************************************************)

\* w is the text without its last bracket, s the calls under way after each token of it.
Trip(w, s, h) ==
  /\ doc = w \o Tok("}") /\ NoBlanks(w)
  /\ \A i \in 1..Len(w) : Steps(s[i - 1], w[i], s[i])
  /\ s[Len(w)] = <<h>> /\ h.state \in {"want_key", "after_value"} /\ h.obj = Meant
  /\ \/ outcome = "parsing" /\ pos \in 1..Len(doc) /\ stack = s[pos - 1]
     \/ outcome = "done" /\ pos = Len(doc) + 1 /\ stack = <<h>>

TripInv == edit # "cut" => \E w, s, h : Trip(w, s, h)

\* The text that is decoded is one that the decoder goes through.
LEMMA TripBegins == Init => TripInv
<1> SUFFICES ASSUME Init PROVE \E w, s, h : Trip(w, s, h)
  BY DEF TripInv
<1>1. entries \in Maps /\ sent \in Answers(entries) /\ sent.status = 200
  BY DEF Init
<1>2. PICK b \in Bodies(Lexed(sent.body)) : edit = b.edit /\ Start(sent.T, b.doc)
  BY DEF Init
<1>3. PICK w, h : Going(b.doc, w, h, sent.T, MeantBy(b.edit, sent.value))
  BY <1>1, BodiesGo
<1> DEFINE f == Frame(sent.T, Zero(sent.T), "map_start")
<1>4. doc = b.doc /\ pos = 1 /\ outcome = "parsing" /\ stack = <<f>>
  BY <1>2 DEF Start
<1>5. MeantBy(b.edit, sent.value) = Meant
  BY <1>2 DEF MeantBy, Meant, Tagged
<1>6. PICK s : s[0] = <<f>> /\ s[Len(w)] = <<h>> /\ \A i \in 1..Len(w) : Steps(s[i - 1], w[i], s[i])
  BY <1>3 DEF Going, Goes
<1>7. doc = w \o Tok("}") /\ NoBlanks(w) /\ h.state \in {"want_key", "after_value"}
      /\ h.obj = Meant
  BY <1>3, <1>4, <1>5 DEF Going
<1>8. pos \in 1..Len(doc) /\ pos - 1 = 0
  <2>1. Len(doc) = Len(w) + 1 /\ Len(w) \in Nat
    BY <1>7, BracketFacts DEF NoBlanks
  <2> QED BY <1>4, <2>1
<1> HIDE DEF f
<1>9. Trip(w, s, h)
  BY <1>4, <1>6, <1>7, <1>8 DEF Trip
<1> QED BY <1>9

\* And it goes through it token by token.
LEMMA TripGoesOn == ASSUME TripInv, Next PROVE TripInv'
<1>1. CASE Break
  BY <1>1 DEF Break, TripInv
<1>2. CASE Returned
  BY <1>2, ZenonT(90) DEF Returned, TripInv, Trip, Meant, vars, NoBlanks
<1>3. CASE Decode
  <2>1. Parse /\ UNCHANGED <<entries, sent, edit>>
    BY <1>3 DEF Decode
  <2> SUFFICES ASSUME edit # "cut" PROVE (\E w, s, h : Trip(w, s, h))'
    BY <2>1 DEF TripInv
  <2>2. PICK w, s, h : Trip(w, s, h)
    BY DEF TripInv
  <2>3. outcome = "parsing"
    BY <2>1, ParseIsParsing
  <2> DEFINE n == Len(w)
  <2>4. /\ doc = w \o Tok("}") /\ NoBlanks(w) /\ pos \in 1..Len(doc) /\ stack = s[pos - 1]
        /\ \A i \in 1..n : Steps(s[i - 1], w[i], s[i])
        /\ s[n] = <<h>> /\ h.state \in {"want_key", "after_value"} /\ h.obj = Meant
    BY <2>2, <2>3 DEF Trip
  <2>5. /\ n \in Nat /\ Len(doc) = n + 1 /\ DOMAIN w = 1..n
        /\ (\A i \in 1..n : doc[i] = w[i]) /\ doc[n + 1].t = "}"
    BY <2>4, BracketFacts DEF NoBlanks
  <2>6. pos \in 1..(n + 1) /\ n \in Nat /\ Len(doc) = n + 1
    BY <2>4, <2>5
  <2> HIDE DEF n
  <2>7. pos \in Nat /\ pos <= Len(doc) /\ (pos \in 1..n \/ pos = n + 1)
    BY <2>6
  <2>8. TokenLeft
    BY <2>3, <2>7 DEF TokenLeft
  <2>9. CASE pos \in 1..n
    <3>1. doc[pos] = w[pos] /\ Solid(doc[pos])
      BY <2>4, <2>5, <2>9 DEF NoBlanks, Solid
    <3>2. Steps(stack, doc[pos], s[pos])
      <4>1. Steps(s[pos - 1], w[pos], s[pos])
        BY <2>4, <2>9
      <4> QED BY <2>4, <3>1, <4>1
    <3>3. Proceeds(s[pos])
      BY <2>1, <2>8, <3>1, <3>2, Follows
    <3>4. stack' = s[pos] /\ outcome' = "parsing" /\ pos' = pos + 1 /\ doc' = doc
      BY <3>3 DEF Proceeds
    <3>5. pos' \in 1..Len(doc') /\ stack' = s[pos' - 1]
      <4>1. pos + 1 \in 1..Len(doc) /\ (pos + 1) - 1 = pos
        BY <2>6, <2>9
      <4> QED BY <3>4, <4>1
    <3>6. Trip(w, s, h)'
      BY <2>1, <2>4, <3>4, <3>5 DEF Trip, Meant, n
    <3> QED BY <3>6
  <2>10. CASE pos = n + 1
    <3>1. stack = <<h>> /\ doc[pos].t = "}"
      <4>1. pos - 1 = n
        BY <2>6, <2>10
      <4> QED BY <2>4, <2>5, <2>10, <4>1
    <3>2. outcome' = "done" /\ pos' = pos + 1 /\ UNCHANGED <<doc, stack>>
      BY <2>1, <2>4, <2>8, <3>1, Finishes
    <3>3. pos' = Len(doc') + 1 /\ stack' = <<h>>
      BY <2>5, <2>10, <3>1, <3>2
    <3>4. Trip(w, s, h)'
      BY <2>1, <2>4, <3>2, <3>3 DEF Trip, Meant, n
    <3> QED BY <3>4
  <2> QED BY <2>7, <2>9, <2>10
<1> QED BY <1>1, <1>2, <1>3 DEF Next

\* In each step, and at the end.
LEMMA TripStays == TripInv /\ [Next]_vars => TripInv'
<1>1. CASE UNCHANGED vars
  BY <1>1 DEF vars, TripInv, Trip, Meant
<1> QED BY <1>1, TripGoesOn

\* Behind the last token the decoder has what the body says.
LEMMA TripEnds ==
  ASSUME TripInv, edit # "cut", outcome # "parsing"
  PROVE  outcome = "done" /\ pos = Len(doc) + 1 /\ Decoded = Meant
<1>1. PICK w, s, h : Trip(w, s, h)
  BY DEF TripInv
<1>2. outcome = "done" /\ pos = Len(doc) + 1 /\ stack = <<h>> /\ h.obj = Meant
  BY <1>1 DEF Trip
<1> QED BY <1>2 DEF Decoded

(***************************************************************************)
(* Whatever the map holds, a body that arrives whole is decoded to its     *)
(* last token, into the object that the handler built (marshal and         *)
(* UnmarshalJSON of envoy_api_objects_ffjson.go agree).                    *)
(***************************************************************************)
THEOREM ApiJsonRoundTrip == Spec => []RoundTrip
<1>1. TripInv => RoundTrip
  BY TripEnds DEF RoundTrip, Meant
<1> QED BY <1>1, TripBegins, TripStays, PTL DEF Spec

(***************************************************************************)
(* Whatever the map holds, a body as another version of the server would   *)
(* write it is decoded into what it says: keys are taken in any case, a    *)
(* member that the struct does not have is skipped to its end, wherever it *)
(* stands, and tags are read where this version writes none.               *)
(***************************************************************************)
THEOREM ApiJsonOtherVersionsAreRead == Spec => []OtherVersionsAreRead
<1>1. TripInv => OtherVersionsAreRead
  BY TripEnds DEF OtherVersionsAreRead
<1> QED BY <1>1, TripBegins, TripStays, PTL DEF Spec

-----------------------------------------------------------------------------
(***************************************************************************)
(* The objects of an answer, and what EnvoyXds says that the API answers.  *)
(***************************************************************************)
LEMMA SameNames ==
  ASSUME NEW e
  PROVE  /\ X!SvcName(e) = SvcName(e)
         /\ \A ip : X!IPString(ip) = IPString(ip)
BY DEF X!SvcName, SvcName, X!Dash, Dash, X!IPString, IPString

LEMMA ListenerOfEntry ==
  ASSUME NEW e \in Registered
  PROVE  ListenerOf(EnvoyListenerFromEntry(e)) = X!EnvoyListenerFromEntry(e)
<1> DEFINE l == EnvoyListenerFromEntry(e)
           x == X!EnvoyListenerFromEntry(e)
           filter == l.filters[1]
<1>1. /\ l.name = SvcName(e)
      /\ l.address[2] = IPString(e.FrontendAddr.IP) /\ l.address[4] = e.FrontendAddr.Port
      /\ filter = IF e.ProxyMode = "http" THEN HttpFilter(e) ELSE TcpFilter(e)
  BY DEF EnvoyListenerFromEntry, ListenerAddress
<1>2. x = [Name |-> SvcName(e), Port |-> e.FrontendAddr.Port,
           IPAddress |-> IPString(e.FrontendAddr.IP),
           Filter |-> IF e.ProxyMode = "http" THEN "http" ELSE "tcp", Cluster |-> SvcName(e)]
  BY SameNames DEF X!EnvoyListenerFromEntry
<1> DEFINE config == filter.config
           kind == IF filter.name = <<"envoy.tcp_proxy">> THEN "tcp" ELSE "http"
           cluster == IF config.route_config.routes # Nil
                      THEN config.route_config.routes[1].cluster
                      ELSE config.route_config.virtual_hosts[1].routes[1].cluster
<1>3. ListenerOf(l) = [Name |-> l.name, IPAddress |-> l.address[2], Port |-> l.address[4],
                       Filter |-> kind, Cluster |-> cluster]
  BY DEF ListenerOf
<1> HIDE DEF l, filter
<1>4. CASE e.ProxyMode = "http"
  <2>1. filter.name # <<"envoy.tcp_proxy">>
    <3>1. filter.name = <<"envoy.http_connection_manager">>
      BY <1>1, <1>4 DEF HttpFilter
    <3> QED BY <3>1
  <2>2. /\ config.route_config.routes = Nil
        /\ config.route_config.virtual_hosts[1].routes[1].cluster = SvcName(e)
    BY <1>1, <1>4 DEF HttpFilter, FilterConfig
  <2>3. kind = "http" /\ cluster = SvcName(e)
    BY <2>1, <2>2
  <2> HIDE DEF kind, cluster
  <2> QED BY <1>1, <1>2, <1>3, <1>4, <2>3 DEF l
<1>5. CASE e.ProxyMode # "http"
  <2>1. filter = TcpFilter(e) /\ config.route_config.routes # Nil
    BY <1>1, <1>5, RegisteredAssumption
  <2>2. filter.name = <<"envoy.tcp_proxy">> /\ config.route_config.routes[1].cluster = SvcName(e)
    BY <2>1 DEF TcpFilter, FilterConfig
  <2>3. kind = "tcp" /\ cluster = SvcName(e)
    BY <2>1, <2>2
  <2> HIDE DEF kind, cluster
  <2> QED BY <1>1, <1>2, <1>3, <1>5, <2>3 DEF l
<1> QED BY <1>4, <1>5

LEMMA HostOfEntry ==
  ASSUME NEW e \in Registered
  PROVE  HostOf(EnvoyServiceFromEntry(e)) = X!EnvoyServiceFromEntry(e)
<1>1. e # Nil
  BY RegisteredAssumption
<1>2. X!EnvoyServiceFromEntry(e)
        = [IPAddress |-> IPString(e.BackendAddr.IP), Port |-> e.BackendAddr.Port,
           Service |-> SvcName(e)]
  BY SameNames DEF X!EnvoyServiceFromEntry
<1> QED BY <1>1, <1>2 DEF HostOf, EnvoyServiceFromEntry

\* What an answer with status 200 says of the map, as EnvoyXds has it.
SaysEnvoyXds(a) ==
  CASE a.T = "LDSResult" ->
         {ListenerOf(l) : l \in Range(a.value.listeners)} = X!EnvoyListenersFromRegistrar
    [] a.T = "CDSResult" ->
         {c.service_name : c \in Range(a.value.clusters)} = X!EnvoyClustersFromRegistrar
    [] a.T = "SDSResult" ->
         {HostOf(h) : h \in Range(a.value.hosts)} = X!Registration(a.value.service).hosts

LEMMA AnswerSaysEnvoyXds ==
  ASSUME IsMap(entries), NEW a \in Answers(entries), a.status = 200
  PROVE  SaysEnvoyXds(a)
<1>1. CASE IsLDS(entries, a)
  <2>1. PICK order \in SetToSeqs(DOMAIN entries) :
          a.value = [listeners |-> [i \in DOMAIN order |-> EnvoyListenerFromEntry(entries[order[i]])]]
    BY <1>1 DEF IsLDS
  <2>2. {order[i] : i \in DOMAIN order} = DOMAIN entries
    BY OrderFacts
  <2>3. Range(a.value.listeners) = {EnvoyListenerFromEntry(entries[n]) : n \in DOMAIN entries}
    BY <2>1, <2>2 DEF Range
  <2>4. \A n \in DOMAIN entries :
          ListenerOf(EnvoyListenerFromEntry(entries[n])) = X!EnvoyListenerFromEntry(entries[n])
    BY ListenerOfEntry DEF IsMap
  <2>5. {ListenerOf(l) : l \in Range(a.value.listeners)} = X!EnvoyListenersFromRegistrar
    BY <2>3, <2>4 DEF X!EnvoyListenersFromRegistrar
  <2> QED BY <1>1, <2>5 DEF IsLDS, SaysEnvoyXds
<1>2. CASE IsCDS(entries, a)
  <2>1. PICK order \in SetToSeqs(DOMAIN entries) :
          a.value = [clusters |-> [i \in DOMAIN order |-> EnvoyClusterFromEntry(entries[order[i]])]]
    BY <1>2 DEF IsCDS
  <2>2. {order[i] : i \in DOMAIN order} = DOMAIN entries
    BY OrderFacts
  <2>3. Range(a.value.clusters) = {EnvoyClusterFromEntry(entries[n]) : n \in DOMAIN entries}
    BY <2>1, <2>2 DEF Range
  <2>4. \A n \in DOMAIN entries :
          EnvoyClusterFromEntry(entries[n]).service_name = X!EnvoyClusterFromEntry(entries[n])
    BY SameNames DEF EnvoyClusterFromEntry, X!EnvoyClusterFromEntry
  <2>5. {c.service_name : c \in Range(a.value.clusters)} = X!EnvoyClustersFromRegistrar
    BY <2>3, <2>4 DEF X!EnvoyClustersFromRegistrar
  <2> QED BY <1>2, <2>5 DEF IsCDS, SaysEnvoyXds
<1>3. CASE IsSDS(entries, a)
  <2>1. PICK n \in DOMAIN entries :
          a.value = [env |-> << >>, service |-> n, hosts |-> <<EnvoyServiceFromEntry(entries[n])>>]
    BY <1>3 DEF IsSDS
  <2>2. a.value.service = n /\ a.value.hosts = <<EnvoyServiceFromEntry(entries[n])>>
    BY <2>1
  <2>3. Range(a.value.hosts) = {EnvoyServiceFromEntry(entries[n])}
    BY <2>2 DEF Range
  <2>4. HostOf(EnvoyServiceFromEntry(entries[n])) = X!EnvoyServiceFromEntry(entries[n])
    BY HostOfEntry DEF IsMap
  <2>5. {HostOf(h) : h \in Range(a.value.hosts)} = X!Registration(a.value.service).hosts
    BY <2>2, <2>3, <2>4 DEF X!Registration
  <2> QED BY <1>3, <2>5 DEF IsSDS, SaysEnvoyXds
<1> QED BY <1>1, <1>2, <1>3, AnswerFacts

\* Every cluster of an answer is listed under the name of its entry.
LEMMA ListedHaveEntries ==
  ASSUME IsMap(entries), NEW a \in Answers(entries), a.status = 200, a.T = "CDSResult",
         NEW c \in Range(a.value.clusters)
  PROVE  LET answer == HttpMux(entries, "registration", c.service_name, << >>) IN
         IF Segment(c.service_name)
         THEN /\ answer.status = 200
              /\ answer.value.hosts = <<EnvoyServiceFromEntry(entries[c.name])>>
         ELSE answer.status = 404
<1>1. PICK order \in SetToSeqs(DOMAIN entries) :
        a.value = [clusters |-> [i \in DOMAIN order |-> EnvoyClusterFromEntry(entries[order[i]])]]
  <2>1. IsCDS(entries, a)
    <3>1. ~IsLDS(entries, a) /\ ~IsSDS(entries, a)
      BY DEF IsLDS, IsSDS
    <3> QED BY <3>1, AnswerFacts
  <2> QED BY <2>1 DEF IsCDS
<1>2. {order[i] : i \in DOMAIN order} = DOMAIN entries
  BY OrderFacts
<1>3. PICK n \in DOMAIN entries : c = EnvoyClusterFromEntry(entries[n])
  BY <1>1, <1>2 DEF Range
<1>4. entries[n] \in Registered /\ SvcName(entries[n]) = n
  BY DEF IsMap
<1>5. c.name = n /\ c.service_name = n
  BY <1>3, <1>4 DEF EnvoyClusterFromEntry
<1>6. Lookup(entries, n) = entries[n] /\ entries[n] # Nil
  BY <1>4, RegisteredAssumption DEF Lookup
<1> DEFINE value == [env |-> << >>, service |-> n, hosts |-> <<EnvoyServiceFromEntry(Lookup(entries, n))>>]
           answer == HttpMux(entries, "registration", n, << >>)
<1>7. CASE Segment(n)
  <2>1. answer = Answer(200, "SDSResult", value)
    BY <1>6, <1>7 DEF HttpMux, registrationHandler
  <2>2. value.hosts = <<EnvoyServiceFromEntry(entries[n])>>
    BY <1>6
  <2> HIDE DEF value, answer
  <2>3. answer.status = 200 /\ answer.value = value
    BY <2>1 DEF Answer
  <2> QED BY <1>5, <1>7, <2>2, <2>3 DEF answer
<1>8. CASE ~Segment(n)
  <2>1. answer = Error(404)
    BY <1>8 DEF HttpMux
  <2> HIDE DEF answer
  <2>2. answer.status = 404
    BY <2>1 DEF Error, Answer
  <2> QED BY <1>5, <1>8, <2>2 DEF answer
<1> QED BY <1>7, <1>8

\* The map and the answer stay what they were when the request was handled.
SentInv == IsMap(entries) /\ sent \in Answers(entries) /\ sent.status = 200

LEMMA SentStays ==
  /\ Init => SentInv
  /\ SentInv /\ [Next]_vars => SentInv'
<1>1. Init => SentInv
  BY MapFacts DEF Init, SentInv
<1>2. [Next]_vars => entries' = entries /\ sent' = sent
  BY DEF Next, Break, Decode, Returned, vars
<1>3. SentInv /\ [Next]_vars => SentInv'
  <2> SUFFICES ASSUME SentInv, entries' = entries, sent' = sent PROVE SentInv'
    BY <1>2
  <2> QED BY DEF SentInv, Answers, HttpMux
<1> QED BY <1>1, <1>3

(***************************************************************************)
(* What the handlers answer and the client decodes is for every map the    *)
(* answer that EnvoyXds reasons about.                                     *)
(***************************************************************************)
THEOREM ApiJsonReadsEnvoyXds == Spec => []ReadsEnvoyXds
<1>1. SentInv /\ RoundTrip => ReadsEnvoyXds
  <2> SUFFICES ASSUME SentInv, RoundTrip, edit = "whole", outcome = "done" PROVE ReadsEnvoyXds
    BY DEF ReadsEnvoyXds
  <2>1. Decoded = sent.value
    BY DEF RoundTrip
  <2>2. SaysEnvoyXds(sent)
    BY AnswerSaysEnvoyXds DEF SentInv
  <2> QED BY <2>1, <2>2 DEF ReadsEnvoyXds, SaysEnvoyXds
<1> QED BY <1>1, SentStays, ApiJsonRoundTrip, PTL DEF Spec

(***************************************************************************)
(* Every cluster that a client reads out of the list has an answer with    *)
(* the backend of its entry, unless the router cannot take its name for    *)
(* one segment.                                                            *)
(***************************************************************************)
THEOREM ApiJsonListedIsAnswered == Spec => []ListedIsAnswered
<1>1. SentInv /\ RoundTrip => ListedIsAnswered
  <2> SUFFICES ASSUME SentInv, RoundTrip, edit = "whole", outcome = "done", sent.T = "CDSResult"
               PROVE  ListedIsAnswered
    BY DEF ListedIsAnswered
  <2>1. Decoded = sent.value
    BY DEF RoundTrip
  <2> QED BY <2>1, ListedHaveEntries DEF ListedIsAnswered, SentInv
<1> QED BY <1>1, SentStays, ApiJsonRoundTrip, PTL DEF Spec
=============================================================================
