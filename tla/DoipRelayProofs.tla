-------------------------- MODULE DoipRelayProofs --------------------------
(***************************************************************************)
(* Proofs about DoipRelay, for any number of datagrams: its safety         *)
(* properties, and that it implements Identification.                      *)
(***************************************************************************)
EXTENDS DoipRelay, FiniteSetTheorems, TLAPS

-----------------------------------------------------------------------------
(* The type invariant and the places of datagrams, action by action.       *)

LEMMA NobodyIsNone ==
  /\ Nobody \notin Datagram /\ Nobody \notin Ident
  /\ Ident \subseteq Datagram /\ Echo \in Ignored /\ Ignored \subseteq Datagram
  BY RelayAssumption

LEMMA AskKeeps ==
  ASSUME TypeOK, Places, NEW d \in Datagram, Ask(d) PROVE TypeOK' /\ Places'
  BY NobodyIsNone DEF TypeOK, Places, Ask, ecuVars, Outstanding, Used

LEMMA ArriveKeeps ==
  ASSUME TypeOK, Places, NEW d \in Datagram, Arrive(d) PROVE TypeOK' /\ Places'
  BY NobodyIsNone DEF TypeOK, Places, Arrive, Outstanding, Used

LEMMA LoseKeeps ==
  ASSUME TypeOK, Places, NEW d \in Datagram, Lose(d) PROVE TypeOK' /\ Places'
  BY NobodyIsNone DEF TypeOK, Places, Lose, Outstanding, Used

LEMMA EcuKeeps ==
  ASSUME TypeOK, Places,
         EcuFails \/ EcuRestarts \/ \E d \in Datagram : EcuServes(d)
  PROVE  TypeOK' /\ Places'
<1>1. CASE EcuFails
  BY <1>1 DEF TypeOK, Places, EcuFails, Outstanding, Used
<1>2. CASE EcuRestarts
  BY <1>2 DEF TypeOK, Places, EcuRestarts, Outstanding, Used
<1>3. ASSUME NEW d \in Datagram, EcuServes(d) PROVE TypeOK' /\ Places'
  BY <1>3, NobodyIsNone DEF TypeOK, Places, EcuServes, Outstanding, Used
<1> QED  BY <1>1, <1>2, <1>3

LEMMA ReceiveKeeps ==
  ASSUME TypeOK, Places, NEW d \in Datagram, Receive(d) \/ Ignore(d)
  PROVE  TypeOK' /\ Places'
<1>1. CASE Ignore(d)
  BY <1>1 DEF TypeOK, Places, Ignore, ecuVars, Outstanding, Used
<1>2. CASE Receive(d)
  BY <1>2, NobodyIsNone DEF TypeOK, Places, Receive, Forward, Outstanding, Used
<1> QED  BY <1>1, <1>2

LEMMA RespondKeeps ==
  ASSUME TypeOK, Places, NEW a \in Datagram, Respond(a) PROVE TypeOK' /\ Places'
  BY NobodyIsNone DEF TypeOK, Places, Respond, ecuVars, Outstanding, Used

LEMMA TimeoutKeeps ==
  ASSUME TypeOK, Places, Timeout PROVE TypeOK' /\ Places'
  BY NobodyIsNone DEF TypeOK, Places, Timeout, ecuVars, Outstanding, Used

LEMMA PlacesKept ==
  ASSUME TypeOK, Places, [Next]_vars PROVE TypeOK' /\ Places'
<1>1. CASE Relay
  BY <1>1, TimeoutKeeps, ReceiveKeeps, RespondKeeps DEF Relay
<1>2. CASE EcuFails \/ EcuRestarts \/ \E d \in Datagram : EcuServes(d)
  BY <1>2, EcuKeeps
<1>3. CASE \E d \in Datagram : Ask(d) \/ Arrive(d) \/ Lose(d)
  BY <1>3, AskKeeps, ArriveKeeps, LoseKeeps
<1>4. CASE UNCHANGED vars
  BY <1>4 DEF TypeOK, Places, vars, ecuVars, Outstanding, Used
<1> QED  BY <1>1, <1>2, <1>3, <1>4 DEF Next

-----------------------------------------------------------------------------
(* Counting what is late.                                                  *)

Late == Outstanding \ {asker}

(* Steps that leave nothing more behind.                                   *)
LEMMA NoneAdded ==
  ASSUME Bounded, Backlog, gaveUp' = gaveUp, IsFiniteSet(Outstanding'), Late' \subseteq Late
  PROVE  Bounded' /\ Backlog'
<1>1. IsFiniteSet(Late)
  BY FS_Subset DEF Bounded, Late
<1>2. Cardinality(Late') <= Cardinality(Late)
  BY <1>1, FS_Subset
<1>3. /\ Cardinality(Late) \in Nat /\ Cardinality(Late') \in Nat
      /\ Cardinality(gaveUp) \in Nat
  BY <1>1, FS_Subset, FS_CardinalityType DEF Bounded
<1> QED  BY <1>2, <1>3 DEF Bounded, Backlog, Late

(* A wait that times out leaves its request behind, and is reported.       *)
LEMMA OneAdded ==
  ASSUME TypeOK, Places, Bounded, Backlog, Timeout PROVE Bounded' /\ Backlog'
<1>1. /\ gaveUp' = gaveUp \cup {asker} /\ asker' = Nobody
      /\ Outstanding' = Outstanding /\ asker \notin gaveUp
  BY DEF Timeout, ecuVars, Outstanding, Places
<1>2. IsFiniteSet(Late) /\ IsFiniteSet(gaveUp) /\ IsFiniteSet(Outstanding)
  BY FS_Subset DEF Bounded, Late
<1>3. /\ IsFiniteSet(gaveUp') /\ Cardinality(gaveUp') = Cardinality(gaveUp) + 1
  BY <1>1, <1>2, FS_AddElement
<1>4. /\ IsFiniteSet(Late \cup {asker})
      /\ Cardinality(Late \cup {asker}) = Cardinality(Late) + 1
  BY <1>2, FS_AddElement DEF Late
<1>5. Late' \subseteq Late \cup {asker}
  BY <1>1 DEF Late
<1>6. Cardinality(Late') <= Cardinality(Late) + 1 /\ Cardinality(Late') \in Nat
  BY <1>4, <1>5, FS_Subset, FS_CardinalityType
<1>7. Cardinality(Late) \in Nat /\ Cardinality(gaveUp) \in Nat
  BY <1>2, FS_CardinalityType
<1>8. Cardinality(Late) <= Cardinality(gaveUp)
  BY DEF Backlog, Late
<1>9. Cardinality(Late') <= Cardinality(gaveUp')
  BY <1>3, <1>6, <1>7, <1>8
<1> QED  BY <1>1, <1>2, <1>3, <1>9 DEF Bounded, Backlog, Late

(* An answer to another request takes the place of the own one.            *)
LEMMA OneReplaced ==
  ASSUME TypeOK, Places, Bounded, Backlog, NEW a \in Datagram, Respond(a)
  PROVE  Bounded' /\ Backlog'
<1>1. /\ gaveUp' = gaveUp /\ asker' = Nobody
      /\ a \in Outstanding /\ Outstanding' = Outstanding \ {a}
  BY DEF Respond, ecuVars, Outstanding, Places
<1>2. IsFiniteSet(Late) /\ IsFiniteSet(Outstanding) /\ IsFiniteSet(Outstanding')
  BY <1>1, FS_Subset DEF Bounded, Late
<1>3. CASE a = asker
  <2>1. Late' \subseteq Late
    BY <1>1, <1>3 DEF Late
  <2> QED  BY <1>1, <1>2, <2>1, NoneAdded
<1>4. CASE a # asker
  <2> DEFINE rest == Late \ {a}
  <2>1. a \in Late /\ asker \notin rest
    BY <1>1, <1>4 DEF Late
  <2>2. IsFiniteSet(rest) /\ Cardinality(rest) = Cardinality(Late) - 1
    BY <1>2, <2>1, FS_RemoveElement
  <2>3. Late' \subseteq rest \cup {asker}
    BY <1>1 DEF Late
  <2> HIDE DEF rest
  <2>4. /\ IsFiniteSet(rest \cup {asker})
        /\ Cardinality(rest \cup {asker}) = Cardinality(rest) + 1
    BY <2>1, <2>2, FS_AddElement
  <2>5. Cardinality(Late') <= Cardinality(rest \cup {asker}) /\ Cardinality(Late') \in Nat
    BY <2>3, <2>4, FS_Subset, FS_CardinalityType
  <2>6. Cardinality(Late) \in Nat /\ Cardinality(gaveUp) \in Nat
    BY <1>2, FS_CardinalityType DEF Bounded
  <2>7. Cardinality(Late') <= Cardinality(Late)
    BY <2>2, <2>4, <2>5, <2>6
  <2>8. Cardinality(Late) <= Cardinality(gaveUp)
    BY DEF Backlog, Late
  <2>9. Cardinality(Late') <= Cardinality(gaveUp)
    BY <2>5, <2>6, <2>7, <2>8
  <2> QED  BY <1>1, <1>2, <2>9 DEF Bounded, Backlog, Late
<1> QED  BY <1>3, <1>4

LEMMA BacklogKept ==
  ASSUME TypeOK, Places, Bounded, Backlog, [Next]_vars PROVE Bounded' /\ Backlog'
<1>1. IsFiniteSet(Outstanding)
  BY DEF Bounded
<1>2. CASE Timeout
  BY <1>2, OneAdded
<1>3. CASE \E d \in Datagram : Respond(d)
  BY <1>3, OneReplaced
<1>4. CASE \E d \in Datagram : Receive(d)
  <2>1. PICK d \in Datagram : Receive(d)
    BY <1>4
  <2>2. /\ gaveUp' = gaveUp /\ Late' \subseteq Late
        /\ Outstanding' \subseteq Outstanding \cup {d}
    BY <2>1, NobodyIsNone DEF Receive, Forward, Late, Outstanding, TypeOK, Places
  <2>3. IsFiniteSet(Outstanding')
    BY <1>1, <2>2, FS_AddElement, FS_Subset
  <2> QED  BY <2>2, <2>3, NoneAdded
<1>5. ASSUME gaveUp' = gaveUp, asker' = asker, Outstanding' \subseteq Outstanding
      PROVE  Bounded' /\ Backlog'
  <2>1. IsFiniteSet(Outstanding') /\ Late' \subseteq Late
    BY <1>1, <1>5, FS_Subset DEF Late
  <2> QED  BY <1>5, <2>1, NoneAdded
<1>6. CASE EcuFails \/ EcuRestarts \/ UNCHANGED vars
  BY <1>5, <1>6 DEF EcuFails, EcuRestarts, vars, ecuVars, Outstanding
<1>7. CASE \E d \in Datagram : Ignore(d) \/ Ask(d) \/ Arrive(d) \/ Lose(d) \/ EcuServes(d)
  <2>1. PICK d \in Datagram : Ignore(d) \/ Ask(d) \/ Arrive(d) \/ Lose(d) \/ EcuServes(d)
    BY <1>7
  <2>2. gaveUp' = gaveUp /\ asker' = asker /\ Outstanding' \subseteq Outstanding
    BY <2>1 DEF Ignore, Ask, Arrive, Lose, EcuServes, ecuVars, Outstanding
  <2> QED  BY <1>5, <2>2
<1> QED  BY <1>2, <1>3, <1>4, <1>6, <1>7 DEF Next, Relay

(* Without a timeout nothing is late, and the answer found is the own one. *)
LEMMA OwnAnswerKept ==
  ASSUME TypeOK, Places, Bounded, Backlog, OwnAnswer, [Next]_vars PROVE OwnAnswer'
<1> SUFFICES ASSUME gaveUp' = {}, NEW d \in Datagram
             PROVE  reply'[d] \in {d, Nobody}
  BY DEF OwnAnswer
<1>1. CASE UNCHANGED <<reply, gaveUp>>
  BY <1>1 DEF OwnAnswer
<1>2. CASE Timeout
  BY <1>2 DEF Timeout
<1>3. CASE \E a \in Datagram : Respond(a)
  <2>1. PICK a \in Datagram : Respond(a)
    BY <1>3
  <2>2. gaveUp = {}
    BY <2>1 DEF Respond
  <2>3. a = asker
    <3>1. IsFiniteSet(Late)
      BY FS_Subset DEF Bounded, Late
    <3>2. Cardinality(Late) \in Nat /\ Cardinality(Late) <= 0
      BY <2>2, <3>1, FS_CardinalityType, FS_EmptySet DEF Backlog, Late
    <3>3. Late = {}
      BY <3>1, <3>2, FS_EmptySet
    <3> QED  BY <2>1, <3>3 DEF Respond, Late, Outstanding
  <2> QED  BY <2>1, <2>2, <2>3 DEF Respond, OwnAnswer, TypeOK
<1> QED  BY <1>1, <1>2, <1>3 DEF Next, Relay, vars, ecuVars,
         EcuFails, EcuRestarts, Ask, Arrive, Lose, EcuServes, Receive, Forward, Ignore

-----------------------------------------------------------------------------
(* The theorems.                                                           *)

(* The inductive invariant: it says where a datagram can be at a time.     *)
THEOREM Invariance == Spec => []IndInv
<1>1. Init => IndInv
  <2> SUFFICES ASSUME Init PROVE IndInv
    OBVIOUS
  <2>1. TypeOK
    BY NobodyIsNone DEF Init, TypeOK
  <2>2. Outstanding = {} /\ Used = {} /\ OwnAnswer
    BY DEF Init, Outstanding, Used, OwnAnswer
  <2>3. Places
    BY <2>2, NobodyIsNone DEF Init, Places, Outstanding
  <2>4. Bounded
    BY <2>2, FS_EmptySet DEF Init, Bounded
  <2>5. Outstanding \ {asker} = {} /\ gaveUp = {}
    BY <2>2 DEF Init
  <2>6. Backlog
    BY <2>5, FS_EmptySet DEF Backlog
  <2> QED  BY <2>1, <2>2, <2>3, <2>4, <2>6 DEF IndInv
<1>2. IndInv /\ [Next]_vars => IndInv'
  BY PlacesKept, BacklogKept, OwnAnswerKept DEF IndInv
<1> QED  BY <1>1, <1>2, PTL DEF Spec

(* Every variable keeps its type; in particular the relay never waits for  *)
(* a datagram that it has to ignore.                                       *)
THEOREM TypeCorrect == Spec => []TypeOK
  BY Invariance, PTL DEF IndInv

(* As long as no wait has timed out, every tester gets its own answer.     *)
THEOREM OwnAnswers == Spec => []OwnAnswer
  BY Invariance, PTL DEF IndInv

(* There are no more late requests and answers than reported timeouts.     *)
THEOREM BacklogIsBounded == Spec => []Backlog
  BY Invariance, PTL DEF IndInv

(* Relay and ECU implement Identification.                                 *)
THEOREM RelayImplementsIdentification == Spec => IdentificationSpec
<1>1. Init => Service!Init
  BY DEF Init, Service!Init
<1>2. IndInv /\ [Next]_vars => [Service!Next]_<<asked, reply>>
  <2> SUFFICES ASSUME IndInv, [Next]_vars PROVE [Service!Next]_<<asked, reply>>
    OBVIOUS
  <2>1. CASE UNCHANGED <<asked, reply>>
    BY <2>1
  <2>2. CASE \E d \in Datagram : Ask(d)
    BY <2>2 DEF Ask, Service!Next, Service!Ask
  <2>3. CASE \E a \in Datagram : Respond(a)
    <3>1. PICK a \in Datagram : Respond(a)
      BY <2>3
    <3>2. asker \in Datagram /\ asker \in asked /\ reply[asker] = Nobody
      BY <3>1 DEF IndInv, TypeOK, Places, Respond
    <3>3. a \in asked \cap Ident /\ \A e \in Datagram : reply[e] # a
      BY <3>1, NobodyIsNone DEF IndInv, TypeOK, Places, Respond, Outstanding, Used
    <3> QED  BY <2>1, <3>1, <3>2, <3>3 DEF Respond, Service!Next, Service!Announce
  <2> QED  BY <2>1, <2>2, <2>3 DEF Next, Relay, vars, ecuVars, Timeout,
           EcuFails, EcuRestarts, Arrive, Lose, EcuServes, Receive, Forward, Ignore
<1> QED  BY <1>1, <1>2, Invariance, PTL DEF Spec, IdentificationSpec, Service!Spec
=============================================================================
