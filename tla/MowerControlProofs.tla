------------------------- MODULE MowerControlProofs -------------------------
(***************************************************************************)
(* Proofs about MowerControl.                                              *)
(*   Sound(n, held): no caller of mower_control is ever lost or answered   *)
(*     twice; held is the set of callers it owes an answer or just         *)
(*     answered.                                                           *)
(*   Reasoned(n): a blade test that drives the session without a motion    *)
(*     demand has a reason, and an arm session has an owner.               *)
(*   Orderly(n, ask, X): the waiting callers agree on a direction, and the *)
(*     callers of X, called off or too late, are never answered a success. *)
(*   Tidy(n): the blade is demanded ON only while it is permitted, and     *)
(*     nobody waits for a settled blade.                                   *)
(*   Truthful(n): what a success says is so.                               *)
(* Each says what is true of a bridge record, and each handler preserves   *)
(* it.  Truthful alone may fail between the stages of one handler: there   *)
(* Told, Clear, Backed and Promised say what has to survive the rest of it.*)
(***************************************************************************)
EXTENDS MowerControl, FiniteSetTheorems, FunctionTheorems, TLAPS

Held(n) == Waiting(n) \cup Answered(n)

Small(entries) == IsFiniteSet(entries) /\ Cardinality(entries) <= Capacity

Sound(n, held) ==
  /\ n \in Nodes /\ Once(n) /\ Held(n) = held
  /\ Small(n.starts) /\ Small(n.replies)

Outcomes == [broken : BOOLEAN, ready : BOOLEAN, failed : BOOLEAN]
Entries == [caller : Callers, late : BOOLEAN]

-----------------------------------------------------------------------------
(* The blade. *)

LEMMA BladeTypes ==
  ASSUME NEW b \in Blades, NEW allowed \in BOOLEAN, NEW trouble
  PROVE  /\ ForceOff(b) \in Blades
         /\ Fail(b) \in Blades
         /\ Permission(b, allowed) \in Blades
         /\ Ticked(b, trouble) \in Blades
<1>0. b.revision + 1 \in Nat /\ "Off" \in Demands
  BY DEF Blades, Demands
<1>1. ForceOff(b) \in Blades /\ Fail(b) \in Blades
  BY <1>0 DEF ForceOff, Fail, Blades
<1>2. Permission(b, allowed) \in Blades
  BY <1>1 DEF Permission, Blades
<1>3. Ticked(b, trouble) \in Blades
  BY <1>1 DEF Ticked
<1>4. QED
  BY <1>1, <1>2, <1>3

LEMMA RequestedType ==
  ASSUME NEW n \in Nodes, NEW d \in Demands, NEW trouble
  PROVE  Requested(n, d, trouble) \in Blades
<1>1. n.blade \in Blades
  BY DEF Nodes
<1>2. n.blade.revision + 1 \in Nat
  BY <1>1 DEF Blades
<1>4. [n.blade EXCEPT !.revision = @ + 1, !.requested = d, !.satisfied = FALSE] \in Blades
  BY <1>1, <1>2 DEF Blades
<1>3. QED
  BY <1>1, <1>4 DEF Requested

-----------------------------------------------------------------------------
(* Finite sets. *)

LEMMA CapacityInNat == Capacity \in Nat /\ Capacity > 0
  BY MowerControlAssumption

LEMMA SmallSubset ==
  ASSUME NEW S, Small(S), NEW T \in SUBSET S
  PROVE  Small(T)
<1>1. Cardinality(S) \in Nat /\ Cardinality(T) \in Nat
  BY FS_Subset, FS_CardinalityType DEF Small
<1>2. QED
  BY <1>1, FS_Subset, CapacityInNat DEF Small

\* A set has subsets of every smaller size.
LEMMA SubsetOfSize ==
  ASSUME NEW S, IsFiniteSet(S), NEW k \in Nat, k <= Cardinality(S)
  PROVE  \E T \in SUBSET S : Cardinality(T) = k
<1>1. Cardinality(S) \in Nat /\ ExistsBijection(1..Cardinality(S), S)
  BY FS_CardinalityType
<1>2. PICK f : f \in Bijection(1..Cardinality(S), S)
  BY <1>1, Fun_ExistsBij
<1>3. /\ f \in [1..Cardinality(S) -> S]
      /\ \A a, b \in 1..Cardinality(S) : f[a] = f[b] => a = b
  BY <1>2, Fun_BijectionProperties
<1> DEFINE T == {f[i] : i \in 1..k}
           g == [i \in 1..k |-> f[i]]
<1>4. 1..k \subseteq 1..Cardinality(S)
  BY <1>1
<1>5. T \in SUBSET S
  BY <1>3, <1>4
<1>6. g \in [1..k -> T]
  OBVIOUS
<1>7. \A a, b \in 1..k : g[a] = g[b] => a = b
  BY <1>3, <1>4
<1>8. \A t \in T : \E i \in 1..k : g[i] = t
  OBVIOUS
<1>9. g \in Bijection(1..k, T)
  BY <1>6, <1>7, <1>8, Fun_IsBij
<1>10. ExistsBijection(1..k, T)
  BY <1>9, Fun_ExistsBij
<1>11. Cardinality(T) = k
  BY <1>10, FS_CountingElements
<1>12. QED
  BY <1>5, <1>11

-----------------------------------------------------------------------------
(* The lists. *)

\* What does not touch the lists keeps every caller.
LEMMA ListsUntouched ==
  ASSUME NEW held, NEW n, Sound(n, held), NEW m \in Nodes,
         m.starts = n.starts, m.replies = n.replies, m.told = n.told
  PROVE  Sound(m, held)
  BY DEF Sound, Once, Held, Waiting, Answered

\* Refusing some of those who wait for the session.
LEMMA SomeRefused ==
  ASSUME NEW held, NEW n, Sound(n, held), NEW lost \in SUBSET n.starts, NEW m,
         m.starts = n.starts \ lost, m.replies = n.replies,
         m.told = n.told \cup Refusals(lost), m \in Nodes
  PROVE  Sound(m, held)
<1> n \in Nodes /\ Once(n) /\ Held(n) = held
  BY DEF Sound
<1>1. \A t \in Refusals(lost) : \E s \in lost : t = Response(s.caller, s.direction, FALSE, FALSE)
  BY DEF Refusals
<1>2. \A t \in Refusals(lost) : \E s \in lost : t.caller = s.caller
  BY <1>1 DEF Response
<1>3. \A s \in lost : \E t \in Refusals(lost) : t.caller = s.caller
  <2>1. ASSUME NEW s \in lost PROVE \E t \in Refusals(lost) : t.caller = s.caller
    <3>1. Response(s.caller, s.direction, FALSE, FALSE) \in Refusals(lost)
      BY DEF Refusals
    <3>2. Response(s.caller, s.direction, FALSE, FALSE).caller = s.caller
      BY DEF Response
    <3>3. QED
      BY <3>1, <3>2
  <2>2. QED
    BY <2>1
<1>4. Distinct(Refusals(lost))
  <2> SUFFICES ASSUME NEW t \in Refusals(lost), NEW u \in Refusals(lost), t.caller = u.caller
               PROVE  t = u
    BY DEF Distinct
  <2>1. PICK s \in lost : t = Response(s.caller, s.direction, FALSE, FALSE)
    BY <1>1
  <2>2. PICK v \in lost : u = Response(v.caller, v.direction, FALSE, FALSE)
    BY <1>1
  <2>3. s = v
    BY <2>1, <2>2 DEF Once, Distinct, Response
  <2>4. QED
    BY <2>1, <2>2, <2>3
<1>5. Distinct(m.starts) /\ Distinct(m.replies)
  BY DEF Once, Distinct
<1>6. Distinct(m.told)
  BY <1>2, <1>4 DEF Once, Distinct, Waiting
<1>7. \A t \in m.told : t.caller \notin Waiting(m)
  <2> SUFFICES ASSUME NEW t \in m.told PROVE t.caller \notin Waiting(m)
    OBVIOUS
  <2>1. CASE t \in n.told
    BY <2>1 DEF Once, Waiting
  <2>2. CASE t \in Refusals(lost)
    <3>1. PICK s \in lost : t.caller = s.caller
      BY <2>2, <1>2
    <3>2. \A u \in n.starts \ lost : u.caller # s.caller
      BY DEF Once, Distinct
    <3>3. \A r \in n.replies : r.caller # s.caller
      BY DEF Once
    <3>4. QED
      BY <3>1, <3>2, <3>3 DEF Waiting
  <2>3. QED
    BY <2>1, <2>2
<1>8. Once(m)
  BY <1>5, <1>6, <1>7 DEF Once
<1>9. Held(m) = Held(n)
  BY <1>2, <1>3 DEF Held, Waiting, Answered
<1>10. Small(m.starts) /\ Small(m.replies)
  BY SmallSubset DEF Sound
<1>11. QED
  BY <1>8, <1>9, <1>10 DEF Sound

LEMMA ResponseType ==
  ASSUME NEW c \in Callers, NEW d \in Demands, NEW success \in BOOLEAN, NEW achieved \in BOOLEAN
  PROVE  Response(c, d, success, achieved) \in Responses
<1>1. PICK told \in BOOLEAN : told = (success /\ achieved)
  OBVIOUS
<1>2. Response(c, d, success, achieved)
        = [caller |-> c, direction |-> d, success |-> success, achieved |-> told]
  BY <1>1 DEF Response
<1>3. QED
  BY <1>2 DEF Responses

\* What a response says.
LEMMA ResponseFields ==
  ASSUME NEW c, NEW d, NEW success \in BOOLEAN, NEW achieved \in BOOLEAN,
         NEW t, t = Response(c, d, success, achieved)
  PROVE  /\ t.caller = c /\ t.direction = d /\ t.success = success
         /\ t.success /\ achieved => t.achieved
<1>1. PICK told \in BOOLEAN : told = (success /\ achieved)
  OBVIOUS
<1>2. t = [caller |-> c, direction |-> d, success |-> success, achieved |-> told]
  BY <1>1 DEF Response
<1>3. t.caller = c /\ t.direction = d /\ t.success = success /\ t.achieved = told
  BY <1>2
<1>4. QED
  BY <1>1, <1>3

LEMMA AchievedType ==
  ASSUME NEW n \in Nodes, NEW d
  PROVE  Achieved(n.blade, d) \in BOOLEAN
<1>1. n.blade.satisfied \in BOOLEAN
  BY DEF Nodes, Blades
<1>2. QED
  BY <1>1 DEF Achieved

LEMMA RefusalsType ==
  ASSUME NEW n \in Nodes, NEW lost \in SUBSET n.starts
  PROVE  Refusals(lost) \subseteq Responses
<1>1. ASSUME NEW s \in lost PROVE Response(s.caller, s.direction, FALSE, FALSE) \in Responses
  <2>1. s.caller \in Callers /\ s.direction \in Demands
    BY DEF Nodes, Starts, Demands
  <2>2. QED
    BY <2>1, ResponseType
<1>2. QED
  BY <1>1 DEF Refusals

LEMMA CancelSound ==
  ASSUME NEW held, NEW n, Sound(n, held)
  PROVE  Sound(CancelPendingStarts(n), held)
<1> DEFINE m == CancelPendingStarts(n)
<1>1. n \in Nodes
  BY DEF Sound
<1>2. /\ m.starts = n.starts \ n.starts /\ m.replies = n.replies
      /\ m.told = n.told \cup Refusals(n.starts)
      /\ m \in Nodes
  BY <1>1, RefusalsType DEF CancelPendingStarts, Nodes
<1>3. QED
  BY <1>2, SomeRefused

LEMMA DemandIdleSound ==
  ASSUME NEW held, NEW n, Sound(n, held), NEW outcome \in Outcomes
  PROVE  Sound(DemandIdle(n, outcome), held)
<1> DEFINE m == DemandIdle(n, outcome)
<1>1. n \in Nodes
  BY DEF Sound
<1>2. /\ m.starts = n.starts /\ m.replies = n.replies /\ m.told = n.told
      /\ m \in Nodes
  BY <1>1 DEF DemandIdle, Nodes, Sessions, Outcomes
<1>3. QED
  BY <1>2, ListsUntouched

LEMMA EndFailedBladeTestSound ==
  ASSUME NEW held, NEW n, Sound(n, held), NEW outcome \in Outcomes
  PROVE  Sound(EndFailedBladeTest(n, outcome), held)
<1> DEFINE c == CancelPendingStarts(n)
           m == [c EXCEPT !.test = FALSE, !.blade = ForceOff(n.blade)]
<1>1. Sound(c, held)
  BY CancelSound
<1>2. c \in Nodes /\ n.blade \in Blades
  BY <1>1 DEF Sound, Nodes
<1>3. ForceOff(n.blade) \in Blades
  BY <1>2, BladeTypes
<1> HIDE DEF c
<1>4. m.starts = c.starts /\ m.replies = c.replies /\ m.told = c.told /\ m \in Nodes
  BY <1>2, <1>3 DEF Nodes
<1>5. Sound(m, held)
  BY <1>1, <1>4, ListsUntouched
<1>6. Sound(DemandIdle(m, outcome), held)
  BY <1>5, DemandIdleSound
<1>7. QED
  BY <1>6 DEF EndFailedBladeTest, c

LEMMA EndIfSound ==
  ASSUME NEW held, NEW n, Sound(n, held), NEW outcome \in Outcomes, NEW condition
  PROVE  Sound(EndIf(condition, n, outcome), held)
  BY EndFailedBladeTestSound DEF EndIf

LEMMA DriveSessionSound ==
  ASSUME NEW held, NEW n, Sound(n, held), NEW outcome \in Outcomes
  PROVE  Sound(DriveSession(n, outcome), held)
<1> DEFINE m == [n EXCEPT
                   !.session = [arm |-> ~n.emergency /\ (n.motion \/ n.test),
                                ready |-> outcome.ready /\ n.connected,
                                failed |-> outcome.failed]]
<1>1. n \in Nodes
  BY DEF Sound
<1>2. /\ m.starts = n.starts /\ m.replies = n.replies /\ m.told = n.told
      /\ m \in Nodes
  BY <1>1 DEF Nodes, Sessions, Outcomes
<1>3. Sound(m, held)
  BY <1>2, ListsUntouched
<1>4. Sound(EndFailedBladeTest(m, outcome), held)
  BY <1>3, EndFailedBladeTestSound
<1>5. QED
  BY <1>3, <1>4 DEF DriveSession

-----------------------------------------------------------------------------
(* From one list to another: what counts are the callers of its entries. *)

CallersOf(entries) == {e.caller : e \in entries}

LEMMA OnceByCallers ==
  ASSUME NEW n
  PROVE  Once(n) <=> /\ Distinct(n.starts) /\ Distinct(n.replies) /\ Distinct(n.told)
                     /\ CallersOf(n.starts) \cap CallersOf(n.replies) = {}
                     /\ CallersOf(n.told) \cap CallersOf(n.starts) = {}
                     /\ CallersOf(n.told) \cap CallersOf(n.replies) = {}
  BY DEF Once, Waiting, CallersOf

LEMMA HeldByCallers ==
  ASSUME NEW n
  PROVE  Held(n) = CallersOf(n.starts) \cup CallersOf(n.replies) \cup CallersOf(n.told)
  BY DEF Held, Waiting, Answered, CallersOf

LEMMA CallersOfUnion ==
  ASSUME NEW S, NEW T
  PROVE  CallersOf(S \cup T) = CallersOf(S) \cup CallersOf(T)
  BY DEF CallersOf

LEMMA DistinctUnion ==
  ASSUME NEW S, NEW T, Distinct(S), Distinct(T), CallersOf(S) \cap CallersOf(T) = {}
  PROVE  Distinct(S \cup T)
  BY DEF CallersOf, Distinct

LEMMA CallersOfPart ==
  ASSUME NEW S, NEW T \in SUBSET S, Distinct(S)
  PROVE  /\ Distinct(T) /\ Distinct(S \ T)
         /\ CallersOf(S) = CallersOf(T) \cup CallersOf(S \ T)
         /\ CallersOf(T) \cap CallersOf(S \ T) = {}
  BY DEF CallersOf, Distinct

\* An entry that is rewritten keeps its caller.
LEMMA Rewritten ==
  ASSUME NEW S, NEW F, DOMAIN F = S, \A e \in S : F[e].caller = e.caller,
         NEW T, T = {F[e] : e \in S}
  PROVE  /\ Distinct(S) => Distinct(T)
         /\ CallersOf(T) = CallersOf(S)
         /\ IsFiniteSet(S) => /\ IsFiniteSet(T) /\ Cardinality(T) \in Nat
                              /\ Cardinality(T) <= Cardinality(S)
<1>1. Distinct(S) => Distinct(T)
  BY DEF Distinct
<1>2. CallersOf(T) = CallersOf(S)
  BY DEF CallersOf
<1>3. ASSUME IsFiniteSet(S)
      PROVE  /\ IsFiniteSet(T) /\ Cardinality(T) \in Nat
             /\ Cardinality(T) <= Cardinality(S)
  <2> DEFINE G == [e \in S |-> F[e]]
  <2>1. G \in [S -> T] /\ \A t \in T : \E e \in S : G[e] = t
    OBVIOUS
  <2>2. G \in Surjection(S, T)
    BY <2>1, Fun_IsSurj
  <2>3. IsFiniteSet(T) /\ Cardinality(T) <= Cardinality(S)
    BY <2>2, <1>3, FS_Surjection
  <2>4. QED
    BY <2>3, FS_CardinalityType
<1>4. QED
  BY <1>1, <1>2, <1>3

-----------------------------------------------------------------------------
(* The decision of the blade controller. *)

LEMMA KeptFits ==
  ASSUME NEW n, Small(n.replies), NEW entries, IsFiniteSet(entries)
  PROVE  /\ Kept(n, entries) \subseteq entries
         /\ IsFiniteSet(Kept(n, entries)) /\ Cardinality(Kept(n, entries)) \in Nat
         /\ Cardinality(n.replies) + Cardinality(Kept(n, entries)) <= Capacity
<1> DEFINE room == Capacity - Cardinality(n.replies)
<1>1. Cardinality(entries) \in Nat /\ Cardinality(n.replies) \in Nat
  BY FS_CardinalityType DEF Small
<1>2. room \in Nat
  BY <1>1, CapacityInNat DEF Small
<1>3. CASE Cardinality(entries) <= room
  <2>1. Kept(n, entries) = entries
    BY <1>3 DEF Kept
  <2>2. QED
    BY <2>1, <1>1, <1>2, <1>3, CapacityInNat
<1>4. CASE ~(Cardinality(entries) <= room)
  <2>1. room <= Cardinality(entries)
    BY <1>1, <1>2, <1>4
  <2>2. \E k \in SUBSET entries : Cardinality(k) = room
    BY <2>1, <1>2, SubsetOfSize
  <2>3. Kept(n, entries) = CHOOSE k \in SUBSET entries : Cardinality(k) = room
    BY <1>4 DEF Kept
  <2>4. Kept(n, entries) \in SUBSET entries /\ Cardinality(Kept(n, entries)) = room
    BY <2>2, <2>3
  <2>5. IsFiniteSet(Kept(n, entries))
    BY <2>4, FS_Subset
  <2>6. QED
    BY <2>4, <2>5, <1>1, <1>2, CapacityInNat
<1>5. QED
  BY <1>3, <1>4

\* Callers nobody holds yet are queued or answered.
LEMMA PushSound ==
  ASSUME NEW held, NEW n, Sound(n, held), NEW d \in Demands, NEW result,
         NEW entries, IsFiniteSet(entries), Distinct(entries),
         \A e \in entries : e.caller \in Callers /\ e.late \in BOOLEAN,
         CallersOf(entries) \cap held = {}
  PROVE  Sound(Push(n, entries, d, result), held \cup CallersOf(entries))
<1> DEFINE kept == IF result = "Pending" THEN Kept(n, entries) ELSE {}
           queued == [e \in kept |-> Queued(e, d, n.blade.revision)]
           answers == [e \in entries \ kept |->
                         Response(e.caller, d, result = "Confirmed", Achieved(n.blade, d))]
           q == {queued[e] : e \in kept}
           a == {answers[e] : e \in entries \ kept}
           m == Push(n, entries, d, result)
<1>1. n \in Nodes /\ Once(n) /\ Held(n) = held /\ Small(n.starts) /\ Small(n.replies)
  BY DEF Sound
<1>2. /\ kept \in SUBSET entries /\ IsFiniteSet(kept) /\ Cardinality(kept) \in Nat
      /\ Cardinality(n.replies) + Cardinality(kept) <= Capacity
  <2>1. CASE result = "Pending"
    BY <2>1, <1>1, KeptFits
  <2>2. CASE result # "Pending"
    <3>1. kept = {}
      BY <2>2
    <3>2. IsFiniteSet(kept) /\ Cardinality(kept) = 0 /\ Cardinality(n.replies) \in Nat
      BY <3>1, <1>1, FS_EmptySet, FS_CardinalityType DEF Small
    <3>3. QED
      BY <3>1, <3>2, <1>1, CapacityInNat DEF Small
  <2>3. QED
    BY <2>1, <2>2
<1> HIDE DEF kept
<1>3. n.blade.revision \in Int
  BY <1>1 DEF Nodes, Blades
<1>4. q \subseteq Replies
  BY <1>2, <1>3 DEF Queued, Replies
<1>5. a \subseteq Responses
  <2>1. (result = "Confirmed") \in BOOLEAN /\ Achieved(n.blade, d) \in BOOLEAN
    BY <1>1, AchievedType
  <2>2. \A e \in entries \ kept :
          Response(e.caller, d, result = "Confirmed", Achieved(n.blade, d)) \in Responses
    BY <2>1, ResponseType
  <2>3. QED
    BY <2>2
<1>6. /\ Distinct(q) /\ CallersOf(q) = CallersOf(kept)
      /\ IsFiniteSet(q) /\ Cardinality(q) \in Nat /\ Cardinality(q) <= Cardinality(kept)
  <2>1. \A e \in kept : queued[e].caller = e.caller
    BY DEF Queued
  <2>2. DOMAIN queued = kept /\ Distinct(kept)
    BY <1>2, CallersOfPart
  <2> HIDE DEF queued
  <2>3. QED
    BY <2>1, <2>2, <1>2, Rewritten
<1>7. Distinct(a) /\ CallersOf(a) = CallersOf(entries \ kept)
  <2>1. \A e \in entries \ kept : answers[e].caller = e.caller
    BY DEF Response
  <2>2. DOMAIN answers = entries \ kept /\ Distinct(entries \ kept)
    BY <1>2, CallersOfPart
  <2> HIDE DEF answers
  <2>3. QED
    BY <2>1, <2>2, Rewritten
<1>8. /\ m.replies = n.replies \cup q /\ m.told = n.told \cup a /\ m.starts = n.starts
      /\ m \in Nodes
  <2>1. m = [n EXCEPT !.replies = @ \cup q, !.told = @ \cup a]
    BY DEF Push, kept
  <2> HIDE DEF q, a, m
  <2>2. QED
    BY <2>1, <1>1, <1>4, <1>5 DEF Nodes
<1> HIDE DEF q, a, m
<1>9. /\ CallersOf(entries) = CallersOf(kept) \cup CallersOf(entries \ kept)
      /\ CallersOf(kept) \cap CallersOf(entries \ kept) = {}
  BY <1>2, CallersOfPart
<1>10. held = CallersOf(n.starts) \cup CallersOf(n.replies) \cup CallersOf(n.told)
  BY <1>1, HeldByCallers
<1>11. /\ Distinct(n.starts) /\ Distinct(n.replies) /\ Distinct(n.told)
       /\ CallersOf(n.starts) \cap CallersOf(n.replies) = {}
       /\ CallersOf(n.told) \cap CallersOf(n.starts) = {}
       /\ CallersOf(n.told) \cap CallersOf(n.replies) = {}
  BY <1>1, OnceByCallers
<1>12. /\ CallersOf(m.replies) = CallersOf(n.replies) \cup CallersOf(kept)
       /\ CallersOf(m.told) = CallersOf(n.told) \cup CallersOf(entries \ kept)
  BY <1>6, <1>7, <1>8, CallersOfUnion
<1>13. CallersOf(n.replies) \cap CallersOf(q) = {} /\ CallersOf(n.told) \cap CallersOf(a) = {}
  BY <1>6, <1>7, <1>9, <1>10
<1>14. Distinct(m.replies) /\ Distinct(m.told)
  <2>1. Distinct(n.replies) /\ Distinct(q) /\ Distinct(n.told) /\ Distinct(a)
    BY <1>6, <1>7, <1>11
  <2>2. Distinct(n.replies \cup q)
    BY <2>1, <1>13, DistinctUnion
  <2>3. Distinct(n.told \cup a)
    BY <2>1, <1>13, DistinctUnion
  <2>4. QED
    BY <2>2, <2>3, <1>8
<1>15. Once(m)
  <2>1. /\ CallersOf(m.starts) \cap CallersOf(m.replies) = {}
        /\ CallersOf(m.told) \cap CallersOf(m.starts) = {}
        /\ CallersOf(m.told) \cap CallersOf(m.replies) = {}
    BY <1>8, <1>9, <1>10, <1>11, <1>12
  <2>2. QED
    BY <2>1, <1>8, <1>11, <1>14, OnceByCallers
<1>16. Held(m) = held \cup CallersOf(entries)
  BY <1>8, <1>9, <1>10, <1>12, HeldByCallers
<1>17. Small(m.replies)
  <2>1. /\ IsFiniteSet(n.replies) /\ Cardinality(n.replies) \in Nat
        /\ Cardinality(n.replies \cap q) \in Nat
    BY <1>1, <1>6, FS_CardinalityType, FS_Subset DEF Small
  <2>2. /\ IsFiniteSet(n.replies \cup q)
        /\ Cardinality(n.replies \cup q)
             = Cardinality(n.replies) + Cardinality(q) - Cardinality(n.replies \cap q)
    BY <2>1, <1>6, FS_Union
  <2>3. QED
    BY <2>1, <2>2, <1>2, <1>6, <1>8, CapacityInNat DEF Small
<1>18. QED
  BY <1>1, <1>8, <1>15, <1>16, <1>17 DEF Sound, m

-----------------------------------------------------------------------------
(* drive_blade_locked. *)

\* A new blade state keeps every caller.
LEMMA BladeSound ==
  ASSUME NEW held, NEW n, Sound(n, held), NEW b \in Blades
  PROVE  Sound([n EXCEPT !.blade = b], held)
<1> DEFINE m == [n EXCEPT !.blade = b]
<1>1. n \in Nodes
  BY DEF Sound
<1>2. /\ m.starts = n.starts /\ m.replies = n.replies /\ m.told = n.told
      /\ m \in Nodes
  BY <1>1 DEF Nodes
<1>3. QED
  BY <1>2, ListsUntouched

LEMMA RefuseLostSound ==
  ASSUME NEW held, NEW n, Sound(n, held)
  PROVE  Sound(RefuseLost(n), held)
<1> DEFINE lost == {s \in n.starts : Lost(n, s)}
           m == RefuseLost(n)
<1>1. n \in Nodes /\ lost \in SUBSET n.starts
  BY DEF Sound
<1>2. m = [n EXCEPT !.starts = @ \ lost, !.told = @ \cup Refusals(lost)]
  BY DEF RefuseLost
<1>3. Refusals(lost) \subseteq Responses
  BY <1>1, RefusalsType
<1> HIDE DEF lost, m
<1>4. /\ m.starts = n.starts \ lost /\ m.replies = n.replies
      /\ m.told = n.told \cup Refusals(lost)
      /\ m \in Nodes
  BY <1>1, <1>2, <1>3 DEF Nodes
<1>5. Sound(m, held)
  BY <1>1, <1>4, SomeRefused
<1>6. QED
  BY <1>5 DEF m

LEMMA RequestStartsSound ==
  ASSUME NEW held, NEW n, Sound(n, held), n.starts # {}, NEW trouble
  PROVE  Sound(RequestStarts(n, trouble), held)
<1> DEFINE d == (CHOOSE s \in n.starts : TRUE).direction
           m == [n EXCEPT !.starts = {}, !.blade = Requested(n, d, trouble)]
           c == CallersOf(n.starts)
<1>1. /\ n \in Nodes /\ Once(n) /\ Held(n) = held
      /\ Small(n.starts) /\ Small(n.replies)
  BY DEF Sound
<1>2. d \in Demands
  <2>1. (CHOOSE s \in n.starts : TRUE) \in n.starts
    OBVIOUS
  <2>2. QED
    BY <2>1, <1>1 DEF Nodes, Starts, Demands
<1> HIDE DEF d
<1>3. Requested(n, d, trouble) \in Blades
  BY <1>1, <1>2, RequestedType
<1>4. m.starts = {} /\ m.replies = n.replies /\ m.told = n.told /\ m \in Nodes
  BY <1>1, <1>3 DEF Nodes
<1>5. /\ Distinct(n.starts) /\ Distinct(n.replies) /\ Distinct(n.told)
      /\ c \cap CallersOf(n.replies) = {}
      /\ CallersOf(n.told) \cap c = {}
      /\ CallersOf(n.told) \cap CallersOf(n.replies) = {}
  BY <1>1, OnceByCallers
<1>6. held = c \cup CallersOf(n.replies) \cup CallersOf(n.told)
  BY <1>1, HeldByCallers
<1>7. Distinct({}) /\ CallersOf({}) = {}
  BY DEF Distinct, CallersOf
<1>8. Once(m) /\ Held(m) = held \ c
  <2> HIDE DEF m, c
  <2>1. Once(m)
    BY <1>4, <1>5, <1>7, OnceByCallers
  <2>2. QED
    BY <2>1, <1>4, <1>5, <1>6, <1>7, HeldByCallers
<1>9. Small(m.starts)
  BY <1>4, FS_EmptySet, CapacityInNat DEF Small
<1>10. Sound(m, held \ c)
  BY <1>1, <1>4, <1>8, <1>9 DEF Sound
<1>11. /\ IsFiniteSet(n.starts) /\ c \cap (held \ c) = {}
       /\ \A e \in n.starts : e.caller \in Callers /\ e.late \in BOOLEAN
  BY <1>1 DEF Small, Nodes, Starts
<1>12. PICK result : result = RequestResult(n, d, trouble)
  OBVIOUS
<1> HIDE DEF m
<1>13. Sound(Push(m, n.starts, d, result), (held \ c) \cup c)
  BY <1>2, <1>5, <1>10, <1>11, PushSound
<1>14. (held \ c) \cup c = held
  BY <1>6
<1>15. QED
  BY <1>12, <1>13, <1>14 DEF RequestStarts, m, d

LEMMA ServeStartsSound ==
  ASSUME NEW held, NEW n, Sound(n, held), NEW trouble
  PROVE  Sound(ServeStarts(n, trouble), held)
  BY RefuseLostSound, RequestStartsSound DEF ServeStarts

LEMMA ServeDeadlineSound ==
  ASSUME NEW held, NEW n, Sound(n, held)
  PROVE  Sound(ServeDeadline(n), held)
<1>1. n.blade \in Blades
  BY DEF Sound, Nodes
<1>2. Fail(n.blade) \in Blades
  BY <1>1, BladeTypes
<1>3. Sound([n EXCEPT !.blade = Fail(n.blade)], held)
  BY <1>2, BladeSound
<1>4. QED
  BY <1>3 DEF ServeDeadline

LEMMA ServeRepliesSound ==
  ASSUME NEW held, NEW n, Sound(n, held)
  PROVE  Sound(ServeReplies(n), held)
<1> DEFINE done == {r \in n.replies : ~Valid(n, r) \/ n.blade.satisfied}
           answers == [r \in done |-> Response(r.caller, r.direction, Valid(n, r),
                                               Achieved(n.blade, r.direction))]
           a == {answers[r] : r \in done}
           m == ServeReplies(n)
<1>1. n \in Nodes /\ Once(n) /\ Held(n) = held /\ Small(n.starts) /\ Small(n.replies)
  BY DEF Sound
<1>2. done \in SUBSET n.replies
  OBVIOUS
<1>3. m = [n EXCEPT !.replies = @ \ done, !.told = @ \cup a]
  BY DEF ServeReplies
<1> HIDE DEF done, m
<1>4. a \subseteq Responses
  <2>1. ASSUME NEW r \in done
        PROVE  Response(r.caller, r.direction, Valid(n, r), Achieved(n.blade, r.direction))
                 \in Responses
    <3>1. Valid(n, r) \in BOOLEAN /\ Achieved(n.blade, r.direction) \in BOOLEAN
      BY <1>1, AchievedType DEF Valid
    <3>2. r.caller \in Callers /\ r.direction \in Demands
      BY <1>1, <1>2 DEF Nodes, Replies
    <3>3. QED
      BY <3>1, <3>2, ResponseType
  <2>2. QED
    BY <2>1
<1>5. Distinct(a) /\ CallersOf(a) = CallersOf(done)
  <2>1. \A r \in done : answers[r].caller = r.caller
    BY DEF Response
  <2>2. DOMAIN answers = done /\ Distinct(done)
    BY <1>1, <1>2, CallersOfPart DEF Once
  <2> HIDE DEF answers
  <2>3. QED
    BY <2>1, <2>2, Rewritten
<1> HIDE DEF a
<1>6. /\ m.replies = n.replies \ done /\ m.told = n.told \cup a /\ m.starts = n.starts
      /\ m \in Nodes
  BY <1>1, <1>3, <1>4 DEF Nodes
<1>7. /\ Distinct(n.starts) /\ Distinct(n.replies) /\ Distinct(n.told)
      /\ CallersOf(n.starts) \cap CallersOf(n.replies) = {}
      /\ CallersOf(n.told) \cap CallersOf(n.starts) = {}
      /\ CallersOf(n.told) \cap CallersOf(n.replies) = {}
  BY <1>1, OnceByCallers
<1>8. /\ Distinct(n.replies \ done)
      /\ CallersOf(n.replies) = CallersOf(done) \cup CallersOf(n.replies \ done)
      /\ CallersOf(done) \cap CallersOf(n.replies \ done) = {}
  BY <1>2, <1>7, CallersOfPart
<1>9. CallersOf(m.told) = CallersOf(n.told) \cup CallersOf(done)
  BY <1>5, <1>6, CallersOfUnion
<1>10. Distinct(m.told)
  <2>1. CallersOf(n.told) \cap CallersOf(a) = {}
    BY <1>5, <1>7, <1>8
  <2>2. Distinct(n.told \cup a)
    BY <2>1, <1>5, <1>7, DistinctUnion
  <2>3. QED
    BY <2>2, <1>6
<1>11. Once(m)
  <2>1. /\ CallersOf(m.starts) \cap CallersOf(m.replies) = {}
        /\ CallersOf(m.told) \cap CallersOf(m.starts) = {}
        /\ CallersOf(m.told) \cap CallersOf(m.replies) = {}
    BY <1>6, <1>7, <1>8, <1>9
  <2>2. QED
    BY <2>1, <1>6, <1>7, <1>8, <1>10, OnceByCallers
<1>12. Held(m) = held
  BY <1>1, <1>6, <1>8, <1>9, HeldByCallers
<1>13. Small(m.replies)
  BY <1>1, <1>6, SmallSubset
<1>14. Sound(m, held)
  BY <1>1, <1>6, <1>11, <1>12, <1>13 DEF Sound
<1>15. QED
  BY <1>14 DEF m

LEMMA AgedSound ==
  ASSUME NEW held, NEW n, Sound(n, held), NEW trouble, NEW outcome \in Outcomes
  PROVE  Sound(Aged(n, trouble, outcome), held)
<1>1. PICK alive : alive = EndIf(n.session.failed \/ ~n.connected, n, outcome)
  OBVIOUS
<1>2. Sound(alive, held)
  BY <1>1, EndIfSound
<1>3. PICK allowed \in BOOLEAN : allowed = BladeAllowed(alive, trouble)
  BY DEF BladeAllowed
<1>4. PICK b : b = Permission(alive.blade, allowed)
  OBVIOUS
<1>5. b \in Blades
  BY <1>2, <1>4, BladeTypes DEF Sound, Nodes
<1>6. Ticked(b, trouble) \in Blades
  BY <1>5, BladeTypes
<1>7. Sound([alive EXCEPT !.blade = Ticked(b, trouble)], held)
  BY <1>2, <1>6, BladeSound
<1>8. QED
  BY <1>1, <1>3, <1>4, <1>7 DEF Aged

LEMMA DispatchSound ==
  ASSUME NEW held, NEW n, Sound(n, held), NEW trouble
  PROVE  Sound(Dispatch(n, trouble), held)
<1>1. n.blade \in Blades
  BY DEF Sound, Nodes
<1>2. Fail(n.blade) \in Blades
  BY <1>1, BladeTypes
<1>3. Sound([n EXCEPT !.blade = Fail(n.blade)], held)
  BY <1>2, BladeSound
<1>4. QED
  BY <1>3 DEF Dispatch

LEMMA StagesSound ==
  ASSUME NEW held, NEW n, Sound(n, held), NEW outcome \in Outcomes
  PROVE  /\ Sound(Expired(n, outcome), held)
         /\ Sound(Owned(n, outcome), held)
  BY EndIfSound DEF Expired, Owned

LEMMA DriveBladeSound ==
  ASSUME NEW held, NEW n, Sound(n, held), NEW trouble, NEW outcome \in Outcomes
  PROVE  Sound(DriveBlade(n, trouble, outcome), held)
<1>1. PICK aged : aged = Aged(n, trouble, outcome)
  OBVIOUS
<1>2. PICK timely : timely = Expired(aged, outcome)
  OBVIOUS
<1>3. PICK started : started = ServeStarts(timely, trouble)
  OBVIOUS
<1>4. PICK expired : expired = ServeDeadline(started)
  OBVIOUS
<1>5. PICK served : served = ServeReplies(expired)
  OBVIOUS
<1>6. PICK owned : owned = Owned(served, outcome)
  OBVIOUS
<1>7. Sound(timely, held)
  BY <1>1, <1>2, AgedSound, StagesSound
<1>8. Sound(expired, held)
  BY <1>3, <1>4, <1>7, ServeStartsSound, ServeDeadlineSound
<1>9. Sound(owned, held)
  BY <1>5, <1>6, <1>8, ServeRepliesSound, StagesSound
<1>10. Sound(Dispatch(owned, trouble), held)
  BY <1>9, DispatchSound
<1>11. QED
  BY <1>1, <1>2, <1>3, <1>4, <1>5, <1>6, <1>10 DEF DriveBlade

-----------------------------------------------------------------------------
(* Requests. *)

LEMMA TestSound ==
  ASSUME NEW held, NEW n, Sound(n, held), NEW test \in BOOLEAN
  PROVE  Sound([n EXCEPT !.test = test], held)
<1> DEFINE m == [n EXCEPT !.test = test]
<1>1. n \in Nodes
  BY DEF Sound
<1>2. /\ m.starts = n.starts /\ m.replies = n.replies /\ m.told = n.told
      /\ m \in Nodes
  BY <1>1 DEF Nodes
<1>3. QED
  BY <1>2, ListsUntouched

LEMMA PermissionSound ==
  ASSUME NEW held, NEW n, Sound(n, held), NEW trouble
  PROVE  Sound([n EXCEPT !.blade = Permission(@, BladeAllowed(n, trouble))], held)
<1>1. PICK allowed \in BOOLEAN : allowed = BladeAllowed(n, trouble)
  BY DEF BladeAllowed
<1>2. Permission(n.blade, allowed) \in Blades
  BY BladeTypes DEF Sound, Nodes
<1>3. Sound([n EXCEPT !.blade = Permission(n.blade, allowed)], held)
  BY <1>2, BladeSound
<1>4. QED
  BY <1>1, <1>3

LEMMA RequestedSound ==
  ASSUME NEW held, NEW n, Sound(n, held), NEW d \in Demands, NEW trouble
  PROVE  Sound([n EXCEPT !.blade = Requested(n, d, trouble)], held)
<1>1. Requested(n, d, trouble) \in Blades
  BY RequestedType DEF Sound
<1>2. QED
  BY <1>1, BladeSound

LEMMA OneAsks ==
  ASSUME NEW caller \in Callers, NEW held, caller \notin held,
         NEW entries, entries = {[caller |-> caller, late |-> FALSE]}
  PROVE  /\ IsFiniteSet(entries) /\ Distinct(entries)
         /\ \A e \in entries : e.caller \in Callers /\ e.late \in BOOLEAN
         /\ CallersOf(entries) \cap held = {}
         /\ CallersOf(entries) = {caller}
<1>1. IsFiniteSet(entries)
  BY FS_Singleton
<1>2. QED
  BY <1>1 DEF Distinct, CallersOf

LEMMA PushOneSound ==
  ASSUME NEW caller \in Callers, NEW held, caller \notin held, NEW n, Sound(n, held),
         NEW d \in Demands, NEW result
  PROVE  Sound(Push(n, {[caller |-> caller, late |-> FALSE]}, d, result), held \cup {caller})
<1>1. PICK entries : entries = {[caller |-> caller, late |-> FALSE]}
  OBVIOUS
<1>2. /\ IsFiniteSet(entries) /\ Distinct(entries)
      /\ \A e \in entries : e.caller \in Callers /\ e.late \in BOOLEAN
      /\ CallersOf(entries) \cap held = {}
  BY <1>1, OneAsks
<1>3. CallersOf(entries) = {caller}
  BY <1>1, OneAsks
<1>4. Sound(Push(n, entries, d, result), held \cup CallersOf(entries))
  BY <1>2, PushSound
<1>5. QED
  BY <1>1, <1>3, <1>4

LEMMA RefuseSound ==
  ASSUME NEW caller \in Callers, NEW held, caller \notin held, NEW n, Sound(n, held),
         NEW d \in Demands
  PROVE  Sound(Refuse(n, caller, d), held \cup {caller})
<1> DEFINE a == {Response(caller, d, FALSE, FALSE)}
           m == Refuse(n, caller, d)
<1>1. /\ n \in Nodes /\ Once(n) /\ Held(n) = held
      /\ Small(n.starts) /\ Small(n.replies)
  BY DEF Sound
<1>2. a \subseteq Responses
  BY ResponseType
<1>3. Distinct(a) /\ CallersOf(a) = {caller}
  BY DEF Distinct, CallersOf, Response
<1>4. m = [n EXCEPT !.told = @ \cup a]
  BY DEF Refuse
<1> HIDE DEF a, m
<1>5. /\ m.starts = n.starts /\ m.replies = n.replies /\ m.told = n.told \cup a
      /\ m \in Nodes
  BY <1>1, <1>2, <1>4 DEF Nodes
<1>6. /\ Distinct(n.starts) /\ Distinct(n.replies) /\ Distinct(n.told)
      /\ CallersOf(n.starts) \cap CallersOf(n.replies) = {}
      /\ CallersOf(n.told) \cap CallersOf(n.starts) = {}
      /\ CallersOf(n.told) \cap CallersOf(n.replies) = {}
  BY <1>1, OnceByCallers
<1>7. held = CallersOf(n.starts) \cup CallersOf(n.replies) \cup CallersOf(n.told)
  BY <1>1, HeldByCallers
<1>8. CallersOf(m.told) = CallersOf(n.told) \cup {caller}
  BY <1>3, <1>5, CallersOfUnion
<1>9. Distinct(m.told)
  <2>1. CallersOf(n.told) \cap CallersOf(a) = {}
    BY <1>3, <1>7
  <2>2. Distinct(n.told \cup a)
    BY <2>1, <1>3, <1>6, DistinctUnion
  <2>3. QED
    BY <2>2, <1>5
<1>10. Once(m)
  <2>1. /\ CallersOf(m.told) \cap CallersOf(m.starts) = {}
        /\ CallersOf(m.told) \cap CallersOf(m.replies) = {}
    BY <1>5, <1>6, <1>7, <1>8
  <2>2. QED
    BY <2>1, <1>5, <1>6, <1>9, OnceByCallers
<1>11. Held(m) = held \cup {caller}
  BY <1>5, <1>7, <1>8, HeldByCallers
<1>12. QED
  BY <1>1, <1>5, <1>10, <1>11 DEF Sound, m

\* A caller who is to wait for the session.
LEMMA StartSound ==
  ASSUME NEW caller \in Callers, NEW held, caller \notin held, NEW n, Sound(n, held),
         NEW d \in Rotations, ~(Cardinality(n.starts) >= Capacity)
  PROVE  Sound([n EXCEPT
                  !.starts = @ \cup {[caller |-> caller, direction |-> d, late |-> FALSE]}],
               held \cup {caller})
<1> DEFINE x == [caller |-> caller, direction |-> d, late |-> FALSE]
           a == {x}
           m == [n EXCEPT !.starts = @ \cup {x}]
<1>1. /\ n \in Nodes /\ Once(n) /\ Held(n) = held
      /\ Small(n.starts) /\ Small(n.replies)
  BY DEF Sound
<1>2. x \in Starts
  BY DEF Starts
<1>3. Distinct(a) /\ CallersOf(a) = {caller}
  BY DEF Distinct, CallersOf
<1> HIDE DEF x
<1>5. /\ m.starts = n.starts \cup a /\ m.replies = n.replies /\ m.told = n.told
      /\ m \in Nodes
  BY <1>1, <1>2 DEF Nodes
<1>6. /\ Distinct(n.starts) /\ Distinct(n.replies) /\ Distinct(n.told)
      /\ CallersOf(n.starts) \cap CallersOf(n.replies) = {}
      /\ CallersOf(n.told) \cap CallersOf(n.starts) = {}
      /\ CallersOf(n.told) \cap CallersOf(n.replies) = {}
  BY <1>1, OnceByCallers
<1>7. held = CallersOf(n.starts) \cup CallersOf(n.replies) \cup CallersOf(n.told)
  BY <1>1, HeldByCallers
<1>8. Small(m.starts)
  <2>1. IsFiniteSet(n.starts) /\ Cardinality(n.starts) \in Nat
    BY <1>1, FS_CardinalityType DEF Small
  <2>2. /\ IsFiniteSet(n.starts \cup {x})
        /\ Cardinality(n.starts \cup {x}) \in {Cardinality(n.starts), Cardinality(n.starts) + 1}
    BY <2>1, FS_AddElement
  <2>3. QED
    BY <2>1, <2>2, <1>5, CapacityInNat DEF Small
<1> HIDE DEF a, m
<1>9. CallersOf(m.starts) = CallersOf(n.starts) \cup {caller}
  BY <1>3, <1>5, CallersOfUnion
<1>10. Distinct(m.starts)
  <2>1. CallersOf(n.starts) \cap CallersOf(a) = {}
    BY <1>3, <1>7
  <2>2. Distinct(n.starts \cup a)
    BY <2>1, <1>3, <1>6, DistinctUnion
  <2>3. QED
    BY <2>2, <1>5
<1>11. Once(m)
  <2>1. /\ CallersOf(m.starts) \cap CallersOf(m.replies) = {}
        /\ CallersOf(m.told) \cap CallersOf(m.starts) = {}
        /\ CallersOf(m.told) \cap CallersOf(m.replies) = {}
    BY <1>5, <1>6, <1>7, <1>9
  <2>2. QED
    BY <2>1, <1>5, <1>6, <1>10, OnceByCallers
<1>12. Held(m) = held \cup {caller}
  BY <1>5, <1>7, <1>9, HeldByCallers
<1>13. Sound(m, held \cup {caller})
  BY <1>1, <1>5, <1>8, <1>11, <1>12 DEF Sound
<1>14. QED
  BY <1>13 DEF m, x

LEMMA ForcedOffSound ==
  ASSUME NEW held, NEW n, Sound(n, held)
  PROVE  Sound([n EXCEPT !.blade = ForceOff(@)], held)
<1>1. ForceOff(n.blade) \in Blades
  BY BladeTypes DEF Sound, Nodes
<1>2. QED
  BY <1>1, BladeSound

LEMMA SafetyDisarmSound ==
  ASSUME NEW held, NEW n, Sound(n, held), NEW trouble, NEW outcome \in Outcomes
  PROVE  Sound(SafetyDisarm(n, trouble, outcome), held)
<1>1. PICK a : a = [n EXCEPT !.test = FALSE, !.blade = ForceOff(@)]
  OBVIOUS
<1>2. PICK b : b = CancelPendingStarts(a)
  OBVIOUS
<1>3. PICK c : c = DriveBlade(DemandIdle(b, outcome), trouble, outcome)
  OBVIOUS
<1>4. Sound(a, held)
  <2>1. /\ a.starts = n.starts /\ a.replies = n.replies /\ a.told = n.told
        /\ a \in Nodes
    BY <1>1, BladeTypes DEF Sound, Nodes
  <2>2. QED
    BY <2>1, ListsUntouched
<1>5. Sound(b, held)
  BY <1>2, <1>4, CancelSound
<1>6. Sound(c, held)
  BY <1>3, <1>5, DemandIdleSound, DriveBladeSound
<1>7. Sound(DriveSession(c, outcome), held)
  BY <1>6, DriveSessionSound
<1>8. QED
  BY <1>1, <1>2, <1>3, <1>7 DEF SafetyDisarm

LEMMA TurnOffSound ==
  ASSUME NEW caller \in Callers, NEW held, caller \notin held, NEW n, Sound(n, held),
         NEW trouble, NEW outcome \in Outcomes
  PROVE  Sound(TurnOff(n, caller, trouble, outcome), held \cup {caller})
<1>1. PICK cancelled : cancelled = [CancelPendingStarts(n) EXCEPT !.test = FALSE]
  OBVIOUS
<1>2. PICK idle : idle = DemandIdle(cancelled, outcome)
  OBVIOUS
<1>3. PICK settled :
        settled = IF n.motion THEN cancelled
                  ELSE [idle EXCEPT !.blade = Permission(@, BladeAllowed(idle, trouble))]
  OBVIOUS
<1>4. PICK taken : taken = [settled EXCEPT !.blade = Requested(settled, "Off", trouble)]
  OBVIOUS
<1>5. PICK result : result = IF "down" \in trouble THEN "Rejected"
                             ELSE RequestResult(settled, "Off", trouble)
  OBVIOUS
<1>6. PICK queued : queued = Push(taken, {[caller |-> caller, late |-> FALSE]}, "Off", result)
  OBVIOUS
<1>7. PICK driven : driven = DriveBlade(queued, trouble, outcome)
  OBVIOUS
<1>8. Sound(cancelled, held)
  BY <1>1, CancelSound, TestSound
<1>9. Sound(idle, held)
  BY <1>2, <1>8, DemandIdleSound
<1>10. Sound(settled, held)
  BY <1>3, <1>8, <1>9, PermissionSound
<1>11. "Off" \in Demands
  BY DEF Demands
<1>12. Sound(taken, held)
  BY <1>4, <1>10, <1>11, RequestedSound
<1>13. Sound(queued, held \cup {caller})
  BY <1>6, <1>11, <1>12, PushOneSound
<1>14. Sound(driven, held \cup {caller})
  BY <1>7, <1>13, DriveBladeSound
<1>15. Sound(DriveSession(driven, outcome), held \cup {caller})
  BY <1>14, DriveSessionSound
<1>16. QED
  BY <1>1, <1>2, <1>3, <1>4, <1>5, <1>6, <1>7, <1>15 DEF TurnOff

LEMMA PreparedSound ==
  ASSUME NEW held, NEW n, Sound(n, held), NEW d, NEW trouble, NEW outcome \in Outcomes
  PROVE  Sound(Prepared(n, d, trouble, outcome), held)
<1>1. PICK same :
        same = IF \E s \in n.starts : s.direction # d THEN CancelPendingStarts(n) ELSE n
  OBVIOUS
<1>2. Sound(same, held)
  BY <1>1, CancelSound
<1>3. Sound(DriveBlade(DriveSession(same, outcome), trouble, outcome), held)
  BY <1>2, DriveSessionSound, DriveBladeSound
<1>4. QED
  BY <1>1, <1>3 DEF Prepared

LEMMA SecondDriveType ==
  ASSUME NEW n \in Nodes
  PROVE  SecondDrive(n) \subseteq Outcomes
  BY MowerControlAssumption DEF SecondDrive, Nodes, Sessions, Outcomes

LEMMA TurnOnSound ==
  ASSUME NEW caller \in Callers, NEW held, caller \notin held,
         NEW driven, Sound(driven, held), NEW d \in Rotations,
         NEW trouble, NEW second \in Outcomes
  PROVE  Sound(TurnOn(driven, caller, d, trouble, second), held \cup {caller})
<1>1. PICK test \in BOOLEAN : test <=> driven.test \/ ~driven.motion
  OBVIOUS
<1>2. driven.test \in BOOLEAN /\ driven.motion \in BOOLEAN
  BY DEF Sound, Nodes
<1>3. test = (driven.test \/ ~driven.motion)
  BY <1>1, <1>2
<1>4. PICK opened : opened = DriveSession([driven EXCEPT !.test = @ \/ ~driven.motion], second)
  OBVIOUS
<1>5. PICK permitted :
        permitted = [opened EXCEPT !.blade = Permission(@, BladeAllowed(opened, trouble))]
  OBVIOUS
<1>6. PICK taken : taken = [permitted EXCEPT !.blade = Requested(permitted, d, trouble)]
  OBVIOUS
<1>7. d \in Demands
  BY DEF Demands
<1>8. Sound([driven EXCEPT !.test = test], held)
  BY TestSound
<1>9. Sound(opened, held)
  BY <1>3, <1>4, <1>8, DriveSessionSound
<1>10. Sound(taken, held)
  BY <1>5, <1>6, <1>7, <1>9, PermissionSound, RequestedSound
<1>11. Sound(Refuse(driven, caller, d), held \cup {caller})
  BY <1>7, RefuseSound
<1>12. Sound(Refuse(EndFailedBladeTest(opened, second), caller, d), held \cup {caller})
  BY <1>7, <1>9, EndFailedBladeTestSound, RefuseSound
<1>13. Sound(Refuse(opened, caller, d), held \cup {caller})
  BY <1>7, <1>9, RefuseSound
<1>14. ASSUME ~(Cardinality(opened.starts) >= Capacity)
       PROVE  Sound([opened EXCEPT
                       !.starts = @ \cup {[caller |-> caller, direction |-> d, late |-> FALSE]}],
                    held \cup {caller})
  BY <1>9, <1>14, StartSound
<1>15. PICK result : result = RequestResult(permitted, d, trouble)
  OBVIOUS
<1>16. Sound(Push(taken, {[caller |-> caller, late |-> FALSE]}, d, result), held \cup {caller})
  BY <1>7, <1>10, PushOneSound
<1>17. Sound(DriveBlade(Push(taken, {[caller |-> caller, late |-> FALSE]}, d, result),
                        trouble, second), held \cup {caller})
  BY <1>16, DriveBladeSound
<1>18. QED
  BY <1>4, <1>5, <1>6, <1>11, <1>12, <1>13, <1>14, <1>15, <1>17 DEF TurnOn

-----------------------------------------------------------------------------
(* The invariant, and the frame of every handler. *)

Owed == {c \in Callers : clients[c].direction # "None"}

MowerInv == Sound(node, Owed) /\ clients \in [Callers -> Calls]

LEMMA FreshSound ==
  ASSUME MowerInv
  PROVE  Sound(Fresh, Waiting(node))
<1> DEFINE m == Fresh
<1>1. /\ node \in Nodes /\ Once(node) /\ Small(node.starts) /\ Small(node.replies)
  BY DEF MowerInv, Sound
<1>2. m.starts = node.starts /\ m.replies = node.replies /\ m.told = {} /\ m \in Nodes
  BY <1>1 DEF Nodes, Fresh
<1> HIDE DEF m
<1>3. Once(m)
  BY <1>1, <1>2 DEF Once, Waiting, Distinct
<1>4. Held(m) = Waiting(node)
  BY <1>2 DEF Held, Waiting, Answered
<1>5. QED
  BY <1>1, <1>2, <1>3, <1>4 DEF Sound, m

LEMMA RenumberedSound ==
  ASSUME NEW held, NEW n, Sound(n, held)
  PROVE  Sound(Renumbered(n), held)
<1> DEFINE F == [r \in n.replies |->
                   [r EXCEPT !.revision = IF @ = n.blade.revision THEN 0 ELSE -1]]
           q == {F[r] : r \in n.replies}
           b == [n.blade EXCEPT !.revision = 0]
           m == Renumbered(n)
<1>1. /\ n \in Nodes /\ Once(n) /\ Held(n) = held
      /\ Small(n.starts) /\ Small(n.replies)
  BY DEF Sound
<1>2. b \in Blades
  BY <1>1 DEF Nodes, Blades
<1>3. \A r \in n.replies : F[r] \in Replies /\ F[r].caller = r.caller
  BY <1>1 DEF Nodes, Replies
<1>4. m = [n EXCEPT !.blade = b, !.replies = q]
  BY <1>1 DEF Renumbered, Nodes
<1>5. Distinct(n.replies) /\ IsFiniteSet(n.replies) /\ DOMAIN F = n.replies
  BY <1>1 DEF Once, Small
<1> HIDE DEF F
<1>6. /\ Distinct(q) /\ CallersOf(q) = CallersOf(n.replies)
      /\ IsFiniteSet(q) /\ Cardinality(q) \in Nat
      /\ Cardinality(q) <= Cardinality(n.replies)
  BY <1>3, <1>5, Rewritten
<1>7. q \subseteq Replies
  BY <1>3
<1> HIDE DEF q, b, m
<1>8. /\ m.starts = n.starts /\ m.replies = q /\ m.told = n.told
      /\ m \in Nodes
  BY <1>1, <1>2, <1>4, <1>7 DEF Nodes
<1>9. Once(m)
  BY <1>1, <1>6, <1>8, OnceByCallers
<1>10. Held(m) = held
  BY <1>1, <1>6, <1>8, HeldByCallers
<1>11. Small(m.replies)
  <2>1. Cardinality(n.replies) \in Nat
    BY <1>5, FS_CardinalityType
  <2>2. QED
    BY <2>1, <1>1, <1>6, <1>8, CapacityInNat DEF Small
<1>12. QED
  BY <1>1, <1>8, <1>9, <1>10, <1>11 DEF Sound, m

LEMMA HandlerKeeps ==
  ASSUME MowerInv, NEW after, Sound(after, Waiting(node)), NEW calledOff,
         Handler(after, calledOff)
  PROVE  MowerInv'
<1>1. Sound(node', Waiting(node))
  BY RenumberedSound DEF Handler
<1>2. clients' \in [Callers -> Calls]
  <2>1. NoCall \in Calls
    BY DEF NoCall, Calls
  <2>2. ASSUME NEW c \in Callers
        PROVE  [clients[c] EXCEPT
                  !.off = @ \/ (calledOff /\ clients[c].direction \in Rotations)] \in Calls
    <3>1. clients[c] \in Calls
      BY DEF MowerInv
    <3>2. PICK off \in BOOLEAN :
            off = (clients[c].off \/ (calledOff /\ clients[c].direction \in Rotations))
      OBVIOUS
    <3>3. [clients[c] EXCEPT !.off = off] \in Calls
      BY <3>1 DEF Calls
    <3>4. QED
      BY <3>2, <3>3
  <2>3. QED
    BY <2>1, <2>2 DEF Handler, Later
<1>3. Owed' = Waiting(node)
  <2>1. /\ Waiting(node) \cup Answered(node) = Owed
        /\ Waiting(node) \cap Answered(node) = {}
    BY DEF MowerInv, Sound, Held, Once, Answered
  <2>2. ASSUME NEW c \in Callers
        PROVE  clients'[c].direction # "None" <=> c \in Owed /\ c \notin Answered(node)
    <3>1. CASE c \in Answered(node)
      BY <3>1 DEF Handler, Later, NoCall
    <3>2. CASE c \notin Answered(node)
      <4>1. clients'[c].direction = clients[c].direction
        BY <3>2 DEF Handler, Later, MowerInv, Calls
      <4>2. QED
        BY <4>1, <3>2 DEF Owed
    <3>3. QED
      BY <3>1, <3>2
  <2>3. QED
    BY <2>1, <2>2 DEF Owed
<1>4. QED
  BY <1>1, <1>2, <1>3 DEF MowerInv

LEMMA RequestKeeps ==
  ASSUME MowerInv, NEW caller \in Callers, NEW d \in Demands,
         NEW after, Sound(after, Waiting(node) \cup {caller}), Request(caller, d, after)
  PROVE  MowerInv'
<1>1. Sound(node', Waiting(node) \cup {caller})
  BY RenumberedSound DEF Request
<1>2. clients' \in [Callers -> Calls]
  <2>1. NoCall \in Calls /\ [direction |-> d, off |-> FALSE] \in Calls
    BY DEF NoCall, Calls
  <2>2. ASSUME NEW c \in Callers
        PROVE  [clients[c] EXCEPT
                  !.off = @ \/ (d = "Off" /\ clients[c].direction \in Rotations)] \in Calls
    <3>1. clients[c] \in Calls
      BY DEF MowerInv
    <3>2. PICK off \in BOOLEAN :
            off = (clients[c].off \/ (d = "Off" /\ clients[c].direction \in Rotations))
      OBVIOUS
    <3>3. [clients[c] EXCEPT !.off = off] \in Calls
      BY <3>1 DEF Calls
    <3>4. QED
      BY <3>2, <3>3
  <2>3. QED
    BY <2>1, <2>2 DEF Request
<1>3. Owed' = Waiting(node) \cup {caller}
  <2>1. /\ Waiting(node) \cup Answered(node) = Owed
        /\ Waiting(node) \cap Answered(node) = {}
    BY DEF MowerInv, Sound, Held, Once, Answered
  <2>2. ASSUME NEW c \in Callers
        PROVE  clients'[c].direction # "None"
                 <=> c = caller \/ (c \in Owed /\ c \notin Answered(node))
    <3>1. CASE c = caller
      <4>1. clients'[c].direction = d
        BY <3>1 DEF Request
      <4>2. QED
        BY <4>1, <3>1 DEF Demands, Rotations
    <3>2. CASE c # caller /\ c \in Answered(node)
      BY <3>2 DEF Request, NoCall
    <3>3. CASE c # caller /\ c \notin Answered(node)
      <4>1. clients'[c].direction = clients[c].direction
        BY <3>3 DEF Request, MowerInv, Calls
      <4>2. QED
        BY <4>1, <3>3 DEF Owed
    <3>4. QED
      BY <3>1, <3>2, <3>3
  <2>3. QED
    BY <2>1, <2>2 DEF Owed
<1>4. QED
  BY <1>1, <1>2, <1>3 DEF MowerInv

-----------------------------------------------------------------------------
(* One lemma per handler. *)

LEMMA InitInv == Init => MowerInv
<1> SUFFICES ASSUME Init PROVE MowerInv
  OBVIOUS
<1>1. node \in Nodes
  BY DEF Init, Nodes, Sessions, Blades, Demands
<1>2. node.starts = {} /\ node.replies = {} /\ node.told = {}
  BY DEF Init
<1>3. Once(node) /\ Held(node) = {}
  BY <1>2 DEF Once, Distinct, Held, Waiting, Answered
<1>4. Small({})
  BY FS_EmptySet, CapacityInNat DEF Small
<1>5. clients \in [Callers -> Calls] /\ Owed = {}
  BY DEF Init, NoCall, Calls, Owed
<1>6. QED
  BY <1>1, <1>2, <1>3, <1>4, <1>5 DEF MowerInv, Sound

LEMMA RequestInv ==
  ASSUME MowerInv, NEW caller \in Callers, NEW d \in Demands,
         NEW trouble, NEW outcome \in Outcomes,
         MowerRequest(caller, d, trouble, outcome)
  PROVE  MowerInv'
<1>1. Sound(Fresh, Waiting(node)) /\ caller \notin Waiting(node)
  BY FreshSound DEF MowerRequest
<1>2. CASE d = "Off"
  <2>1. PICK after : after = TurnOff(Fresh, caller, trouble, outcome)
    OBVIOUS
  <2>2. Sound(after, Waiting(node) \cup {caller})
    BY <1>1, <2>1, TurnOffSound
  <2>3. Request(caller, d, after)
    BY <1>2, <2>1 DEF MowerRequest
  <2>4. QED
    BY <2>2, <2>3, RequestKeeps
<1>3. CASE d # "Off"
  <2>1. d \in Rotations
    BY <1>3 DEF Demands
  <2>2. PICK driven : driven = Prepared(Fresh, d, trouble, outcome)
    OBVIOUS
  <2>3. Sound(driven, Waiting(node))
    BY <1>1, <2>2, PreparedSound
  <2>7. PICK second \in SecondDrive(driven) :
          Request(caller, d, TurnOn(driven, caller, d, trouble, second))
    BY <1>3, <2>2, Zenon DEF MowerRequest
  <2>4. second \in Outcomes
    BY <2>7, <2>3, SecondDriveType DEF Sound
  <2>5. Sound(TurnOn(driven, caller, d, trouble, second), Waiting(node) \cup {caller})
    BY <1>1, <2>1, <2>3, <2>4, TurnOnSound
  <2>6. QED
    BY <2>7, <2>5, RequestKeeps
<1>4. QED
  BY <1>2, <1>3

LEMMA DriveBoth ==
  ASSUME NEW held, NEW n, Sound(n, held), NEW trouble, NEW outcome \in Outcomes
  PROVE  Sound(DriveBlade(DriveSession(n, outcome), trouble, outcome), held)
  BY DriveSessionSound, DriveBladeSound

LEMMA TimerInv ==
  ASSUME MowerInv, NEW outcome \in Outcomes, Timer(outcome)
  PROVE  MowerInv'
<1>1. PICK trouble, driven, aged, timely, started, served, owned :
        /\ driven = DriveSession(Fresh, outcome)
        /\ aged = Aged(driven, trouble, outcome)
        /\ timely = Expired(aged, outcome)
        /\ started = ServeStarts(timely, trouble)
        /\ served = ServeReplies(ServeDeadline(started))
        /\ owned = Owned(served, outcome)
        /\ Handler(Dispatch(owned, trouble), FALSE)
  BY Zenon DEF Timer, Handler
<1>2. Dispatch(owned, trouble) = DriveBlade(DriveSession(Fresh, outcome), trouble, outcome)
  BY <1>1, Zenon DEF DriveBlade
<1>3. Sound(Dispatch(owned, trouble), Waiting(node))
  BY <1>2, FreshSound, DriveBoth
<1>4. QED
  BY <1>1, <1>3, HandlerKeeps

LEMMA CommandVelocityInv ==
  ASSUME MowerInv, NEW outcome \in Outcomes, CommandVelocity(outcome)
  PROVE  MowerInv'
<1>1. Sound(DriveSession(Fresh, outcome), Waiting(node))
  BY FreshSound, DriveSessionSound
<1>2. QED
  BY <1>1, HandlerKeeps DEF CommandVelocity

LEMMA HighLevelStatusInv ==
  ASSUME MowerInv, NEW motion \in BOOLEAN, NEW trouble, NEW outcome \in Outcomes,
         HighLevelStatus(motion, trouble, outcome)
  PROVE  MowerInv'
<1>1. PICK ends : ends = (node.motion /\ ~motion)
  OBVIOUS
<1>2. PICK status : status = [Fresh EXCEPT !.motion = motion]
  OBVIOUS
<1>3. PICK cancelled : cancelled = CancelPendingStarts([status EXCEPT !.test = FALSE])
  OBVIOUS
<1>4. PICK off : off = [cancelled EXCEPT !.blade = ForceOff(@)]
  OBVIOUS
<1>5. PICK left : left = IF ends THEN DriveBlade(off, trouble, outcome) ELSE status
  OBVIOUS
<1>6. Sound(status, Waiting(node))
  <2>1. Sound(Fresh, Waiting(node))
    BY FreshSound
  <2>2. /\ status.starts = Fresh.starts /\ status.replies = Fresh.replies
        /\ status.told = Fresh.told /\ status \in Nodes
    BY <1>2, <2>1 DEF Sound, Nodes
  <2>3. QED
    BY <2>1, <2>2, ListsUntouched
<1>7. Sound(cancelled, Waiting(node))
  BY <1>3, <1>6, TestSound, CancelSound
<1>8. Sound(off, Waiting(node))
  BY <1>4, <1>7, ForcedOffSound
<1>9. Sound(left, Waiting(node))
  BY <1>5, <1>6, <1>8, DriveBladeSound
<1>10. Sound(DriveBlade(DriveSession(left, outcome), trouble, outcome), Waiting(node))
  BY <1>9, DriveBoth
<1>11. Handler(DriveBlade(DriveSession(left, outcome), trouble, outcome), ends)
  BY <1>1, <1>2, <1>3, <1>4, <1>5, Zenon DEF HighLevelStatus
<1>12. QED
  BY <1>10, <1>11, HandlerKeeps

LEMMA MavrosStateInv ==
  ASSUME MowerInv, NEW connected \in BOOLEAN, NEW emergency \in BOOLEAN, NEW trouble,
         NEW outcome \in Outcomes, MavrosState(connected, emergency, trouble, outcome)
  PROVE  MowerInv'
<1>1. PICK changes : changes = (node.connected # connected)
  OBVIOUS
<1>2. PICK state : state = [Fresh EXCEPT
                              !.connected = connected,
                              !.released = @ /\ connected,
                              !.emergency = emergency,
                              !.blade = IF changes THEN ForceOff(@) ELSE @]
  OBVIOUS
<1>3. PICK left : left = IF changes /\ ~connected THEN CancelPendingStarts(state) ELSE state
  OBVIOUS
<1>4. Sound(state, Waiting(node))
  <2>1. Sound(Fresh, Waiting(node))
    BY FreshSound
  <2>2. Fresh \in Nodes /\ Fresh.blade \in Blades /\ (Fresh.released /\ connected) \in BOOLEAN
    BY <2>1 DEF Sound, Nodes
  <2>3. (IF changes THEN ForceOff(Fresh.blade) ELSE Fresh.blade) \in Blades
    BY <2>2, BladeTypes
  <2>4. /\ state.starts = Fresh.starts /\ state.replies = Fresh.replies
        /\ state.told = Fresh.told /\ state \in Nodes
    BY ZenonT(40), <1>2, <2>2, <2>3 DEF Nodes
  <2>5. QED
    BY <2>1, <2>4, ListsUntouched
<1>5. Sound(left, Waiting(node))
  BY <1>3, <1>4, CancelSound
<1>6. Sound(DriveBlade(DriveSession(left, outcome), trouble, outcome), Waiting(node))
  BY <1>5, DriveBoth
<1>7. Handler(DriveBlade(DriveSession(left, outcome), trouble, outcome), changes)
  BY <1>1, <1>2, <1>3, Zenon DEF MavrosState
<1>8. QED
  BY <1>6, <1>7, HandlerKeeps

\* New values of the safety inputs.
LEMMA SafetySound ==
  ASSUME MowerInv, NEW emergency \in BOOLEAN, NEW released \in BOOLEAN
  PROVE  Sound([Fresh EXCEPT !.emergency = emergency, !.released = released], Waiting(node))
<1> DEFINE m == [Fresh EXCEPT !.emergency = emergency, !.released = released]
<1>1. Sound(Fresh, Waiting(node))
  BY FreshSound
<1>2. /\ m.starts = Fresh.starts /\ m.replies = Fresh.replies
      /\ m.told = Fresh.told /\ m \in Nodes
  BY <1>1 DEF Sound, Nodes
<1>3. QED
  BY <1>1, <1>2, ListsUntouched

LEMMA SafetyInv ==
  ASSUME MowerInv, NEW emergency \in BOOLEAN, NEW released \in BOOLEAN,
         NEW trouble, NEW outcome \in Outcomes,
         \/ SafetyRequest(released, trouble, outcome)
         \/ SafetyInput(emergency, released)
  PROVE  MowerInv'
<1>1. CASE SafetyRequest(released, trouble, outcome)
  <2>1. Sound([Fresh EXCEPT !.emergency = TRUE, !.released = released], Waiting(node))
    BY SafetySound
  <2>2. Sound(SafetyDisarm([Fresh EXCEPT !.emergency = TRUE, !.released = released],
                           trouble, outcome), Waiting(node))
    BY <2>1, SafetyDisarmSound
  <2>3. QED
    BY <1>1, <2>2, HandlerKeeps DEF SafetyRequest
<1>2. CASE SafetyInput(emergency, released)
  BY <1>2, SafetySound, HandlerKeeps DEF SafetyInput
<1>3. QED
  BY <1>1, <1>2

LEMMA EmergencyReleasedInv ==
  ASSUME MowerInv, NEW emergency \in BOOLEAN, NEW trouble, NEW outcome \in Outcomes,
         EmergencyReleased(emergency, trouble, outcome)
  PROVE  MowerInv'
<1>1. PICK n : n = [Fresh EXCEPT !.emergency = emergency]
  OBVIOUS
<1>2. Sound(Fresh, Waiting(node))
  BY FreshSound
<1>3. /\ n.starts = Fresh.starts /\ n.replies = Fresh.replies /\ n.told = Fresh.told
      /\ n \in Nodes
  BY <1>1, <1>2 DEF Sound, Nodes
<1>4. Sound(n, Waiting(node))
  BY <1>2, <1>3, ListsUntouched
<1>5. Sound(DriveBlade(DriveSession(n, outcome), trouble, outcome), Waiting(node))
  BY <1>4, DriveBoth
<1>6. QED
  BY <1>1, <1>5, HandlerKeeps DEF EmergencyReleased

LEMMA BladeInv ==
  ASSUME MowerInv, NEW trouble, NEW outcome \in Outcomes,
         \/ BladeObserved(trouble, outcome)
         \/ BladeSettles(trouble, outcome)
         \/ BladeRefuses(trouble, outcome)
         \/ BladeDisturbed(trouble, outcome)
  PROVE  MowerInv'
<1>1. Sound(Fresh, Waiting(node)) /\ Fresh.blade \in Blades
  BY FreshSound DEF Sound, Nodes
<1>2. PICK settled : settled = [Fresh.blade EXCEPT !.satisfied = TRUE]
  OBVIOUS
<1>3. settled \in Blades /\ Fail(Fresh.blade) \in Blades /\ ForceOff(Fresh.blade) \in Blades
  BY <1>1, <1>2, BladeTypes DEF Blades
<1>4. ASSUME NEW b \in Blades
      PROVE  Sound(DriveBlade([Fresh EXCEPT !.blade = b], trouble, outcome), Waiting(node))
  BY <1>1, BladeSound, DriveBladeSound
<1>5. CASE BladeSettles(trouble, outcome)
  <2>1. [Fresh EXCEPT !.blade.satisfied = TRUE] = [Fresh EXCEPT !.blade = settled]
    BY <1>2
  <2>2. Handler(DriveBlade([Fresh EXCEPT !.blade = settled], trouble, outcome), FALSE)
    BY <1>5, <2>1, Zenon DEF BladeSettles
  <2>3. QED
    BY <1>3, <1>4, <2>2, HandlerKeeps
<1>6. CASE BladeRefuses(trouble, outcome)
  BY <1>3, <1>4, <1>6, HandlerKeeps DEF BladeRefuses
<1>7. CASE BladeDisturbed(trouble, outcome)
  BY <1>3, <1>4, <1>7, HandlerKeeps DEF BladeDisturbed
<1>8. CASE BladeObserved(trouble, outcome)
  <2>1. Sound(DriveBlade(Fresh, trouble, outcome), Waiting(node))
    BY <1>1, DriveBladeSound
  <2>2. QED
    BY <1>8, <2>1, HandlerKeeps DEF BladeObserved
<1>9. QED
  BY <1>5, <1>6, <1>7, <1>8

LEMMA DeadlineInv ==
  ASSUME MowerInv, NEW caller \in Callers, DeadlinePasses(caller)
  PROVE  MowerInv'
<1> DEFINE F == [s \in node.starts |-> IF s.caller = caller THEN [s EXCEPT !.late = TRUE] ELSE s]
           G == [r \in node.replies |-> IF r.caller = caller THEN [r EXCEPT !.late = TRUE] ELSE r]
           S == {F[s] : s \in node.starts}
           R == {G[r] : r \in node.replies}
           m == [Fresh EXCEPT !.starts = S, !.replies = R]
<1>1. Sound(Fresh, Waiting(node))
  BY FreshSound
<1>2. /\ Fresh \in Nodes /\ Once(Fresh) /\ Held(Fresh) = Waiting(node)
      /\ Small(Fresh.starts) /\ Small(Fresh.replies)
      /\ Fresh.starts = node.starts /\ Fresh.replies = node.replies
  BY <1>1 DEF Sound, Fresh, MowerInv, Nodes
<1>3. \A s \in node.starts : F[s] \in Starts /\ F[s].caller = s.caller
  <2> TAKE s \in node.starts
  <2>1. s \in Starts
    BY <1>2 DEF Nodes
  <2>2. PICK t : t = [s EXCEPT !.late = TRUE]
    OBVIOUS
  <2>3. t \in Starts /\ t.caller = s.caller
    BY <2>1, <2>2 DEF Starts
  <2>4. F[s] = s \/ F[s] = t
    BY <2>2
  <2>5. QED
    BY <2>1, <2>3, <2>4
<1>4. \A r \in node.replies : G[r] \in Replies /\ G[r].caller = r.caller
  <2> TAKE r \in node.replies
  <2>1. r \in Replies
    BY <1>2 DEF Nodes
  <2>2. PICK t : t = [r EXCEPT !.late = TRUE]
    OBVIOUS
  <2>3. t \in Replies /\ t.caller = r.caller
    BY <2>1, <2>2 DEF Replies
  <2>4. G[r] = r \/ G[r] = t
    BY <2>2
  <2>5. QED
    BY <2>1, <2>3, <2>4
<1>5. DOMAIN F = node.starts /\ DOMAIN G = node.replies
  OBVIOUS
<1>6. Handler(m, FALSE)
  BY DEF DeadlinePasses
<1> HIDE DEF F, G
<1>7. /\ Distinct(node.starts) /\ IsFiniteSet(node.starts)
      /\ Distinct(node.replies) /\ IsFiniteSet(node.replies)
      /\ Cardinality(node.starts) \in Nat /\ Cardinality(node.replies) \in Nat
  BY <1>2, FS_CardinalityType DEF Once, Small
<1>8. /\ Distinct(S) /\ CallersOf(S) = CallersOf(node.starts)
      /\ IsFiniteSet(S) /\ Cardinality(S) \in Nat
      /\ Cardinality(S) <= Cardinality(node.starts)
  BY <1>3, <1>5, <1>7, Rewritten
<1>9. /\ Distinct(R) /\ CallersOf(R) = CallersOf(node.replies)
      /\ IsFiniteSet(R) /\ Cardinality(R) \in Nat
      /\ Cardinality(R) <= Cardinality(node.replies)
  BY <1>4, <1>5, <1>7, Rewritten
<1>10. S \subseteq Starts /\ R \subseteq Replies
  BY <1>3, <1>4
<1> HIDE DEF S, R, m
<1>11. m.starts = S /\ m.replies = R /\ m.told = Fresh.told /\ m \in Nodes
  BY <1>2, <1>10 DEF Nodes, m
<1>12. Once(m)
  BY <1>2, <1>8, <1>9, <1>11, OnceByCallers
<1>13. Held(m) = Waiting(node)
  BY <1>2, <1>8, <1>9, <1>11, HeldByCallers
<1>14. Small(m.starts) /\ Small(m.replies)
  BY <1>2, <1>7, <1>8, <1>9, <1>11, CapacityInNat DEF Small
<1>15. Sound(m, Waiting(node))
  BY <1>11, <1>12, <1>13, <1>14 DEF Sound
<1>16. QED
  BY <1>6, <1>15, HandlerKeeps

LEMMA NextInv == MowerInv /\ [Next]_vars => MowerInv'
<1> SUFFICES ASSUME MowerInv, [Next]_vars PROVE MowerInv'
  OBVIOUS
<1>1. SessionOutcomes \subseteq Outcomes
  BY MowerControlAssumption DEF Outcomes
<1>2. ASSUME NEW c \in Callers, DeadlinePasses(c) PROVE MowerInv'
  BY <1>2, DeadlineInv
<1>3. ASSUME NEW e \in BOOLEAN, NEW r \in BOOLEAN, SafetyInput(e, r) PROVE MowerInv'
  <2>1. [broken |-> FALSE, ready |-> FALSE, failed |-> FALSE] \in Outcomes
    BY DEF Outcomes
  <2>2. QED
    BY <1>3, <2>1, SafetyInv
<1>4. ASSUME NEW o \in SessionOutcomes, CommandVelocity(o) \/ Timer(o) PROVE MowerInv'
  BY <1>1, <1>4, CommandVelocityInv, TimerInv
<1>5. ASSUME NEW o \in SessionOutcomes, NEW t \in Troubles,
             \/ BladeObserved(t, o) \/ BladeSettles(t, o)
             \/ BladeRefuses(t, o) \/ BladeDisturbed(t, o)
      PROVE  MowerInv'
  BY <1>1, <1>5, BladeInv
<1>6. ASSUME NEW o \in SessionOutcomes, NEW t \in Troubles, NEW c \in Callers,
             NEW d \in Demands, MowerRequest(c, d, t, o)
      PROVE  MowerInv'
  BY <1>1, <1>6, RequestInv
<1>7. ASSUME NEW o \in SessionOutcomes, NEW t \in Troubles, NEW b \in BOOLEAN,
             \/ HighLevelStatus(b, t, o) \/ SafetyRequest(b, t, o)
             \/ EmergencyReleased(b, t, o)
      PROVE  MowerInv'
  BY <1>1, <1>7, HighLevelStatusInv, SafetyInv, EmergencyReleasedInv
<1>8. ASSUME NEW o \in SessionOutcomes, NEW t \in Troubles, NEW l \in BOOLEAN,
             NEW e \in BOOLEAN, MavrosState(l, e, t, o)
      PROVE  MowerInv'
  BY <1>1, <1>8, MavrosStateInv
<1>9. CASE UNCHANGED vars
  BY <1>9 DEF vars, MowerInv, Sound, Owed, Once, Held, Waiting, Answered
<1>10. QED
  BY <1>2, <1>3, <1>4, <1>5, <1>6, <1>7, <1>8, <1>9 DEF Next

-----------------------------------------------------------------------------
(* Theorems. *)

THEOREM MowerInvariance == Spec => []MowerInv
<1>1. QED
  BY InitInv, NextInv, PTL DEF Spec

\* Bridge record, lists and callers stay within their types, and neither list ever exceeds its
\* limit of retained callers (mavros_hardware_bridge_node.cpp, the comparisons with 32).
THEOREM MowerTypeCorrect == Spec => []TypeOK
<1>1. MowerInv => TypeOK
  BY DEF MowerInv, Sound, Small, TypeOK
<1>2. QED
  BY <1>1, MowerInvariance, PTL

\* Every caller of mower_control is held in exactly one place until it is answered, and is
\* answered once, for any number of callers, any limit of the lists and any troubles.
THEOREM EveryCallerOnce == Spec => []OneAnswerEach
<1>1. MowerInv => OneAnswerEach
  BY DEF MowerInv, Sound, Held, Owed, OneAnswerEach
<1>2. QED
  BY <1>1, MowerInvariance, PTL

-----------------------------------------------------------------------------
(* Each method, by what it does to the fields of the record. *)

SameInputs(n, d) ==
  /\ d.connected = n.connected /\ d.motion = n.motion
  /\ d.emergency = n.emergency /\ d.released = n.released

\* What the serving of the lists leaves alone.
SameRest(n, d) == SameInputs(n, d) /\ d.test = n.test /\ d.session = n.session

LEMMA ForceOffFields ==
  ASSUME NEW b \in Blades, NEW c, c = ForceOff(b)
  PROVE  /\ c \in Blades /\ c.requested = "Off" /\ ~c.satisfied /\ ~c.failed
         /\ c.allowed = b.allowed /\ c.revision = b.revision + 1
<1>1. c \in Blades
  BY BladeTypes
<1>2. QED
  BY <1>1 DEF ForceOff, Blades

LEMMA FailFields ==
  ASSUME NEW b \in Blades, NEW c, c = Fail(b)
  PROVE  /\ c \in Blades /\ c.requested = "Off" /\ ~c.satisfied /\ c.failed
         /\ c.allowed = b.allowed /\ c.revision = b.revision + 1
<1>1. c \in Blades
  BY BladeTypes
<1>2. QED
  BY <1>1 DEF Fail, Blades

LEMMA PermissionFields ==
  ASSUME NEW b \in Blades, NEW allowed \in BOOLEAN, NEW c, c = Permission(b, allowed)
  PROVE  /\ c \in Blades /\ c.allowed = allowed
         /\ \/ /\ ~(b.allowed /\ ~allowed)
               /\ c.requested = b.requested /\ c.satisfied = b.satisfied
               /\ c.failed = b.failed /\ c.revision = b.revision
            \/ /\ b.allowed /\ ~allowed
               /\ c.requested = "Off" /\ ~c.satisfied /\ ~c.failed
               /\ c.revision = b.revision + 1
<1>1. c \in Blades
  BY BladeTypes
<1>2. CASE b.allowed /\ ~allowed
  <2>1. PICK f : f = ForceOff(b)
    OBVIOUS
  <2>2. c = [f EXCEPT !.allowed = allowed]
    BY <1>2, <2>1 DEF Permission
  <2>3. /\ f \in Blades /\ f.requested = "Off" /\ ~f.satisfied /\ ~f.failed
        /\ f.revision = b.revision + 1
    BY <2>1, ForceOffFields
  <2>4. QED
    BY <1>1, <1>2, <2>2, <2>3 DEF Blades
<1>3. CASE ~(b.allowed /\ ~allowed)
  <2>1. c = [b EXCEPT !.allowed = allowed]
    BY <1>3 DEF Permission
  <2>2. QED
    BY <1>1, <1>3, <2>1 DEF Blades
<1>4. QED
  BY <1>2, <1>3

\* The end of a blade test: its callers are refused, its demands are taken back.
Ended(n, d) ==
  /\ n.test /\ ~n.motion
  /\ d \in Nodes /\ SameInputs(n, d)
  /\ d.starts = {} /\ d.replies = n.replies /\ d.told = n.told \cup Refusals(n.starts)
  /\ ~d.test /\ ~d.session.arm /\ d.blade = ForceOff(n.blade)

LEMMA EndTestFields ==
  ASSUME NEW n \in Nodes, NEW outcome \in Outcomes, NEW d, d = EndFailedBladeTest(n, outcome)
  PROVE  \/ (~n.test \/ n.motion) /\ d = n
         \/ Ended(n, d)
<1>1. CASE ~n.test \/ n.motion
  BY <1>1 DEF EndFailedBladeTest
<1>2. CASE ~(~n.test \/ n.motion)
  <2>1. PICK b \in Blades : b = ForceOff(n.blade)
    BY BladeTypes DEF Nodes
  <2>2. Refusals(n.starts) \subseteq Responses
    BY RefusalsType
  <2>3. PICK told \in SUBSET Responses : told = n.told \cup Refusals(n.starts)
    BY <2>2 DEF Nodes
  <2>12. PICK c : c = CancelPendingStarts(n)
    OBVIOUS
  <2>13. c = [n EXCEPT !.told = told, !.starts = {}]
    BY <2>3, <2>12 DEF CancelPendingStarts
  <2>4. PICK m : m = [c EXCEPT !.test = FALSE, !.blade = b]
    OBVIOUS
  <2>5. /\ m \in Nodes /\ SameInputs(n, m) /\ m.starts = {} /\ m.replies = n.replies
        /\ m.told = told /\ ~m.test /\ m.blade = b
    BY <2>4, <2>13 DEF Nodes, SameInputs
  <2>6. m = [CancelPendingStarts(n) EXCEPT !.test = FALSE, !.blade = ForceOff(n.blade)]
    BY <2>1, <2>4, <2>12
  <2>14. PICK ready \in BOOLEAN : ready = (outcome.ready /\ m.connected)
    OBVIOUS
  <2>15. PICK failed \in BOOLEAN : failed = (m.session.failed /\ outcome.failed)
    OBVIOUS
  <2>7. PICK s \in Sessions : s = [arm |-> FALSE, ready |-> ready, failed |-> failed]
    BY DEF Sessions
  <2>8. d = [m EXCEPT !.session = s]
    BY <1>2, <2>6, <2>7, <2>14, <2>15 DEF EndFailedBladeTest, DemandIdle
  <2>9. /\ d \in Nodes /\ SameInputs(m, d) /\ d.starts = {} /\ d.replies = n.replies
        /\ d.told = told /\ ~d.test /\ d.blade = b /\ d.session = s
    BY <2>5, <2>8 DEF Nodes, SameInputs
  <2>10. ~d.session.arm
    BY <2>7, <2>9
  <2>11. QED
    BY <1>2, <2>1, <2>3, <2>5, <2>9, <2>10 DEF Ended, SameInputs
<1>3. QED
  BY <1>1, <1>2

LEMMA EndIfFields ==
  ASSUME NEW n \in Nodes, NEW outcome \in Outcomes, NEW condition,
         NEW d, d = EndIf(condition, n, outcome)
  PROVE  \/ d = n /\ (condition => ~n.test \/ n.motion)
         \/ condition /\ Ended(n, d)
  BY EndTestFields DEF EndIf

\* A drive of the session, before it may end a test.
Steered(n, outcome, m) ==
  /\ m \in Nodes /\ SameInputs(n, m) /\ m.test = n.test /\ m.blade = n.blade
  /\ m.starts = n.starts /\ m.replies = n.replies /\ m.told = n.told
  /\ m.session.arm = (~n.emergency /\ (n.motion \/ n.test))
  /\ m.session.ready = (outcome.ready /\ n.connected)
  /\ m.session.failed = outcome.failed

LEMMA DriveSessionFields ==
  ASSUME NEW n \in Nodes, NEW outcome \in Outcomes, NEW d, d = DriveSession(n, outcome)
  PROVE  \E m : /\ Steered(n, outcome, m)
                /\ \/ d = m /\ (outcome.broken => ~m.test \/ m.motion)
                   \/ outcome.broken /\ Ended(m, d)
<1>1. PICK arm \in BOOLEAN : arm = (~n.emergency /\ (n.motion \/ n.test))
  OBVIOUS
<1>2. PICK ready \in BOOLEAN : ready = (outcome.ready /\ n.connected)
  OBVIOUS
<1>3. PICK s \in Sessions : s = [arm |-> arm, ready |-> ready, failed |-> outcome.failed]
  BY DEF Sessions, Outcomes
<1>4. PICK m : m = [n EXCEPT !.session = s]
  OBVIOUS
<1>5. /\ m \in Nodes /\ SameInputs(n, m) /\ m.test = n.test /\ m.blade = n.blade
      /\ m.starts = n.starts /\ m.replies = n.replies /\ m.told = n.told /\ m.session = s
  BY <1>4 DEF Nodes, SameInputs
<1>6. Steered(n, outcome, m)
  BY <1>1, <1>2, <1>3, <1>5 DEF Steered
<1>7. d = IF outcome.broken THEN EndFailedBladeTest(m, outcome) ELSE m
  BY <1>1, <1>2, <1>3, <1>4 DEF DriveSession
<1>8. QED
  BY <1>5, <1>6, <1>7, EndTestFields

\* A new blade state, and nothing else.
OnlyBlade(n, d) ==
  /\ d \in Nodes /\ SameRest(n, d)
  /\ d.starts = n.starts /\ d.replies = n.replies /\ d.told = n.told

LEMMA BladeSet ==
  ASSUME NEW n \in Nodes, NEW b \in Blades, NEW d, d = [n EXCEPT !.blade = b]
  PROVE  OnlyBlade(n, d) /\ d.blade = b
  BY DEF Nodes, OnlyBlade, SameRest, SameInputs

LEMMA TickedFields ==
  ASSUME NEW b \in Blades, NEW trouble, NEW c, c = Ticked(b, trouble)
  PROVE  /\ c \in Blades
         /\ \/ c = b /\ ~("esc" \in trouble /\ b.requested # "Off")
            \/ c = Fail(b) /\ ~("esc" \notin trouble /\ b.satisfied)
<1>1. c \in Blades
  BY BladeTypes
<1>2. QED
  BY <1>1 DEF Ticked

LEMMA AgedFields ==
  ASSUME NEW n \in Nodes, NEW trouble, NEW outcome \in Outcomes,
         NEW d, d = Aged(n, trouble, outcome)
  PROVE  \E alive, b :
           /\ \/ alive = n /\ (n.session.failed \/ ~n.connected => ~n.test \/ n.motion)
              \/ (n.session.failed \/ ~n.connected) /\ Ended(n, alive)
           /\ alive \in Nodes
           /\ b = Permission(alive.blade, BladeAllowed(alive, trouble))
           /\ OnlyBlade(alive, d) /\ d.blade = Ticked(b, trouble)
<1>1. PICK alive : alive = EndIf(n.session.failed \/ ~n.connected, n, outcome)
  OBVIOUS
<1>2. \/ alive = n /\ (n.session.failed \/ ~n.connected => ~n.test \/ n.motion)
      \/ (n.session.failed \/ ~n.connected) /\ Ended(n, alive)
  BY <1>1, EndIfFields
<1>3. alive \in Nodes
  BY <1>2 DEF Ended
<1>4. PICK allowed \in BOOLEAN : allowed = BladeAllowed(alive, trouble)
  BY DEF BladeAllowed
<1>5. PICK b : b = Permission(alive.blade, allowed)
  OBVIOUS
<1>6. b \in Blades
  BY <1>3, <1>5, BladeTypes DEF Nodes
<1>7. PICK c \in Blades : c = Ticked(b, trouble)
  BY <1>6, BladeTypes
<1>8. d = [alive EXCEPT !.blade = c]
  BY <1>1, <1>4, <1>5, <1>7 DEF Aged
<1>9. OnlyBlade(alive, d) /\ d.blade = c
  BY <1>3, <1>8, BladeSet
<1>10. QED
  BY <1>2, <1>3, <1>4, <1>5, <1>7, <1>9

LEMMA RefuseLostFields ==
  ASSUME NEW n \in Nodes, NEW d, d = RefuseLost(n)
  PROVE  /\ d \in Nodes /\ SameRest(n, d) /\ d.blade = n.blade /\ d.replies = n.replies
         /\ d.starts = {s \in n.starts : ~Lost(n, s)}
         /\ d.told = n.told \cup Refusals({s \in n.starts : Lost(n, s)})
<1>1. PICK lost \in SUBSET n.starts : lost = {s \in n.starts : Lost(n, s)}
  OBVIOUS
<1>2. PICK starts \in SUBSET Starts : starts = n.starts \ lost
  BY DEF Nodes
<1>3. PICK told \in SUBSET Responses : told = n.told \cup Refusals(lost)
  BY RefusalsType DEF Nodes
<1>4. d = [n EXCEPT !.starts = starts, !.told = told]
  BY <1>1, <1>2, <1>3 DEF RefuseLost
<1>5. /\ d \in Nodes /\ SameRest(n, d) /\ d.blade = n.blade /\ d.replies = n.replies
      /\ d.starts = starts /\ d.told = told
  BY <1>4 DEF Nodes, SameRest, SameInputs
<1>6. starts = {s \in n.starts : ~Lost(n, s)}
  BY <1>1, <1>2
<1>7. QED
  BY <1>1, <1>3, <1>5, <1>6

LEMMA RequestedFields ==
  ASSUME NEW n \in Nodes, NEW d \in Demands, NEW trouble, NEW b, b = Requested(n, d, trouble)
  PROVE  /\ b \in Blades /\ b.allowed = n.blade.allowed /\ b.failed = n.blade.failed
         /\ \/ b = n.blade /\ (RequestResult(n, d, trouble) = "Rejected" \/ d = n.blade.requested)
            \/ /\ RequestResult(n, d, trouble) # "Rejected" /\ d # n.blade.requested
               /\ b.requested = d /\ ~b.satisfied /\ b.revision = n.blade.revision + 1
<1>1. n.blade \in Blades /\ b \in Blades
  BY RequestedType DEF Nodes
<1>2. CASE RequestResult(n, d, trouble) = "Rejected" \/ d = n.blade.requested
  <2>1. b = n.blade
    BY <1>2 DEF Requested
  <2>2. QED
    BY <1>1, <1>2, <2>1
<1>3. CASE ~(RequestResult(n, d, trouble) = "Rejected" \/ d = n.blade.requested)
  <2>1. b = [n.blade EXCEPT !.revision = @ + 1, !.requested = d, !.satisfied = FALSE]
    BY <1>3 DEF Requested
  <2>2. QED
    BY <1>1, <1>3, <2>1 DEF Blades
<1>4. QED
  BY <1>2, <1>3

\* A decision of the blade controller for the entries e: who is queued, who is answered.
Pushed(n, entries, d, result, m) ==
  /\ m \in Nodes /\ SameRest(n, m) /\ m.blade = n.blade /\ m.starts = n.starts
  /\ \A r \in m.replies :
       \/ r \in n.replies
       \/ \E e \in entries : /\ result = "Pending"
                             /\ r.caller = e.caller /\ r.direction = d
                             /\ r.revision = n.blade.revision /\ r.late = e.late
  /\ \A t \in m.told :
       \/ t \in n.told
       \/ \E e \in entries : /\ t.caller = e.caller /\ t.direction = d
                             /\ t.success = (result = "Confirmed")
                             /\ t.success /\ Achieved(n.blade, d) => t.achieved

LEMMA PushFields ==
  ASSUME NEW held, NEW n, Sound(n, held), NEW d \in Demands, NEW result,
         NEW entries, IsFiniteSet(entries), Distinct(entries),
         \A e \in entries : e.caller \in Callers /\ e.late \in BOOLEAN,
         CallersOf(entries) \cap held = {},
         NEW m, m = Push(n, entries, d, result)
  PROVE  Pushed(n, entries, d, result, m)
<1>1. m \in Nodes
  BY PushSound DEF Sound
<1>2. n \in Nodes /\ Small(n.replies)
  BY DEF Sound
<1>3. PICK kept : kept = IF result = "Pending" THEN Kept(n, entries) ELSE {}
  OBVIOUS
<1>4. kept \subseteq entries /\ (kept # {} => result = "Pending")
  BY <1>2, <1>3, KeptFits
<1>5. PICK q : q = {Queued(e, d, n.blade.revision) : e \in kept}
  OBVIOUS
<1>6. PICK a : a = {Response(e.caller, d, result = "Confirmed", Achieved(n.blade, d)) :
                      e \in entries \ kept}
  OBVIOUS
<1>7. m = [n EXCEPT !.replies = @ \cup q, !.told = @ \cup a]
  BY <1>3, <1>5, <1>6 DEF Push
<1>8. /\ SameRest(n, m) /\ m.blade = n.blade /\ m.starts = n.starts
      /\ m.replies = n.replies \cup q /\ m.told = n.told \cup a
  BY <1>2, <1>7 DEF Nodes, SameRest, SameInputs
<1>9. ASSUME NEW r \in q
      PROVE  \E e \in entries : /\ result = "Pending"
                                /\ r.caller = e.caller /\ r.direction = d
                                /\ r.revision = n.blade.revision /\ r.late = e.late
  <2>1. PICK e \in kept : r = Queued(e, d, n.blade.revision)
    BY <1>5
  <2>2. QED
    BY <1>4, <2>1 DEF Queued
<1>10. ASSUME NEW t \in a
       PROVE  \E e \in entries : /\ t.caller = e.caller /\ t.direction = d
                                 /\ t.success = (result = "Confirmed")
                                 /\ t.success /\ Achieved(n.blade, d) => t.achieved
  <2>1. PICK e \in entries \ kept :
          t = Response(e.caller, d, result = "Confirmed", Achieved(n.blade, d))
    BY <1>6
  <2>2. PICK b \in BOOLEAN, c \in BOOLEAN : b = (result = "Confirmed") /\ c = Achieved(n.blade, d)
    BY <1>2, AchievedType
  <2>3. t = Response(e.caller, d, b, c)
    BY <2>1, <2>2
  <2>4. /\ t.caller = e.caller /\ t.direction = d /\ t.success = b
        /\ t.success /\ c => t.achieved
    BY <2>3, ResponseFields
  <2>5. QED
    BY <2>1, <2>2, <2>4
<1>11. QED
  BY <1>1, <1>8, <1>9, <1>10 DEF Pushed

LEMMA RequestStartsFields ==
  ASSUME NEW held, NEW n, Sound(n, held), n.starts # {}, NEW trouble,
         NEW m, m = RequestStarts(n, trouble)
  PROVE  \E s, taken :
           /\ s \in n.starts
           /\ OnlyBlade([n EXCEPT !.starts = {}], taken) /\ s.direction \in Demands
           /\ taken.blade = Requested(n, s.direction, trouble)
           /\ Pushed(taken, n.starts, s.direction,
                     RequestResult(n, s.direction, trouble), m)
<1>1. /\ n \in Nodes /\ Once(n) /\ Held(n) = held
      /\ Small(n.starts) /\ Small(n.replies)
  BY DEF Sound
<1>2. PICK s \in n.starts : s = CHOOSE x \in n.starts : TRUE
  OBVIOUS
<1>3. PICK d \in Demands : d = s.direction
  BY <1>1 DEF Nodes, Starts, Demands
<1>4. PICK b \in Blades : b = Requested(n, d, trouble)
  BY <1>1, RequestedType
<1>5. PICK bare : bare = [n EXCEPT !.starts = {}]
  OBVIOUS
<1>6. PICK taken : taken = [bare EXCEPT !.blade = b]
  OBVIOUS
<1>7. /\ bare \in Nodes /\ bare.starts = {} /\ bare.replies = n.replies /\ bare.told = n.told
  BY <1>1, <1>5 DEF Nodes
<1>8. OnlyBlade(bare, taken) /\ taken.blade = b
  BY <1>6, <1>7, BladeSet
<1>9. /\ Distinct(n.starts) /\ Distinct(n.replies) /\ Distinct(n.told)
      /\ CallersOf(n.starts) \cap CallersOf(n.replies) = {}
      /\ CallersOf(n.told) \cap CallersOf(n.starts) = {}
      /\ CallersOf(n.told) \cap CallersOf(n.replies) = {}
  BY <1>1, OnceByCallers
<1>10. held = CallersOf(n.starts) \cup CallersOf(n.replies) \cup CallersOf(n.told)
  BY <1>1, HeldByCallers
<1>11. Distinct({}) /\ CallersOf({}) = {}
  BY DEF Distinct, CallersOf
<1>12. /\ taken \in Nodes /\ taken.starts = {} /\ taken.replies = n.replies
       /\ taken.told = n.told
  BY <1>7, <1>8 DEF OnlyBlade
<1>13. Sound(taken, held \ CallersOf(n.starts))
  <2>1. Once(taken)
    BY <1>9, <1>11, <1>12, OnceByCallers
  <2>2. Held(taken) = held \ CallersOf(n.starts)
    BY <1>9, <1>10, <1>11, <1>12, HeldByCallers
  <2>3. Small(taken.starts)
    BY <1>12, FS_EmptySet, CapacityInNat DEF Small
  <2>4. QED
    BY <1>1, <1>12, <2>1, <2>2, <2>3 DEF Sound
<1>14. /\ IsFiniteSet(n.starts) /\ CallersOf(n.starts) \cap (held \ CallersOf(n.starts)) = {}
       /\ \A e \in n.starts : e.caller \in Callers /\ e.late \in BOOLEAN
  BY <1>1 DEF Small, Nodes, Starts
<1>15. PICK result : result = RequestResult(n, d, trouble)
  OBVIOUS
<1>16. m = Push(taken, n.starts, d, result)
  BY <1>2, <1>3, <1>4, <1>5, <1>6, <1>15 DEF RequestStarts
<1>17. Pushed(taken, n.starts, d, result, m)
  BY <1>9, <1>13, <1>14, <1>16, PushFields
<1>18. QED
  BY <1>3, <1>4, <1>5, <1>8, <1>15, <1>17

LEMMA ServeStartsFields ==
  ASSUME NEW held, NEW n, Sound(n, held), NEW trouble, NEW m, m = ServeStarts(n, trouble)
  PROVE  \E left :
           /\ left = RefuseLost(n) /\ Sound(left, held)
           /\ \/ m = left /\ (~left.session.ready \/ left.starts = {})
              \/ /\ left.session.ready /\ left.starts # {}
                 /\ m = RequestStarts(left, trouble)
  BY RefuseLostSound DEF ServeStarts

LEMMA FailedFields ==
  ASSUME NEW n \in Nodes, NEW d, d = [n EXCEPT !.blade = Fail(@)]
  PROVE  OnlyBlade(n, d) /\ d.blade = Fail(n.blade)
<1>1. PICK b \in Blades : b = Fail(n.blade)
  BY BladeTypes DEF Nodes
<1>2. QED
  BY <1>1, BladeSet

LEMMA ServeDeadlineFields ==
  ASSUME NEW n \in Nodes, NEW d, d = ServeDeadline(n)
  PROVE  \/ d = n
         \/ ~n.blade.satisfied /\ OnlyBlade(n, d) /\ d.blade = Fail(n.blade)
  BY FailedFields DEF ServeDeadline

LEMMA DispatchFields ==
  ASSUME NEW n \in Nodes, NEW trouble, NEW d, d = Dispatch(n, trouble)
  PROVE  \/ d = n
         \/ ~n.blade.satisfied /\ OnlyBlade(n, d) /\ d.blade = Fail(n.blade)
  BY FailedFields DEF Dispatch

LEMMA ServeRepliesFields ==
  ASSUME NEW held, NEW n, Sound(n, held), NEW m, m = ServeReplies(n)
  PROVE  /\ m \in Nodes /\ SameRest(n, m) /\ m.blade = n.blade /\ m.starts = n.starts
         /\ m.replies \subseteq n.replies /\ (n.blade.satisfied => m.replies = {})
         /\ \A t \in m.told :
              \/ t \in n.told
              \/ \E r \in n.replies : /\ t.caller = r.caller /\ t.direction = r.direction
                                      /\ t.success => Valid(n, r) /\ n.blade.satisfied
                                      /\ t.success /\ Achieved(n.blade, r.direction) => t.achieved
<1>1. m \in Nodes
  BY ServeRepliesSound DEF Sound
<1>2. n \in Nodes
  BY DEF Sound
<1>3. PICK done : done = {r \in n.replies : ~Valid(n, r) \/ n.blade.satisfied}
  OBVIOUS
<1>4. PICK a : a = {Response(r.caller, r.direction, Valid(n, r),
                             Achieved(n.blade, r.direction)) : r \in done}
  OBVIOUS
<1>5. m = [n EXCEPT !.replies = @ \ done, !.told = @ \cup a]
  BY <1>3, <1>4 DEF ServeReplies
<1>6. /\ SameRest(n, m) /\ m.blade = n.blade /\ m.starts = n.starts
      /\ m.replies = n.replies \ done /\ m.told = n.told \cup a
  BY <1>2, <1>5 DEF Nodes, SameRest, SameInputs
<1>7. ASSUME NEW t \in a
      PROVE  \E r \in n.replies : /\ t.caller = r.caller /\ t.direction = r.direction
                                  /\ t.success => Valid(n, r) /\ n.blade.satisfied
                                  /\ t.success /\ Achieved(n.blade, r.direction) => t.achieved
  <2>1. PICK r \in done : t = Response(r.caller, r.direction, Valid(n, r),
                                      Achieved(n.blade, r.direction))
    BY <1>4
  <2>2. PICK valid \in BOOLEAN, achieved \in BOOLEAN :
          valid = Valid(n, r) /\ achieved = Achieved(n.blade, r.direction)
    BY <1>2, AchievedType DEF Valid
  <2>3. /\ t.caller = r.caller /\ t.direction = r.direction /\ t.success = valid
        /\ t.success /\ achieved => t.achieved
    BY <2>1, <2>2, ResponseFields
  <2>4. QED
    BY <1>3, <2>1, <2>2, <2>3
<1>8. m.replies \subseteq n.replies /\ (n.blade.satisfied => m.replies = {})
  BY <1>3, <1>6
<1>9. QED
  BY <1>1, <1>6, <1>7, <1>8

LEMMA RefusalFields ==
  ASSUME NEW waiting, NEW t \in Refusals(waiting)
  PROVE  \E s \in waiting : t.caller = s.caller /\ t.direction = s.direction /\ ~t.success
<1>1. PICK s \in waiting : t = Response(s.caller, s.direction, FALSE, FALSE)
  BY DEF Refusals
<1>2. QED
  BY <1>1 DEF Response

LEMMA CancelFields ==
  ASSUME NEW n \in Nodes, NEW d, d = CancelPendingStarts(n)
  PROVE  /\ d \in Nodes /\ SameRest(n, d) /\ d.blade = n.blade /\ d.replies = n.replies
         /\ d.starts = {} /\ d.told = n.told \cup Refusals(n.starts)
<1>1. PICK told \in SUBSET Responses : told = n.told \cup Refusals(n.starts)
  BY RefusalsType DEF Nodes
<1>2. d = [n EXCEPT !.told = told, !.starts = {}]
  BY <1>1 DEF CancelPendingStarts
<1>3. QED
  BY <1>1, <1>2 DEF Nodes, SameRest, SameInputs

LEMMA DemandIdleFields ==
  ASSUME NEW n \in Nodes, NEW outcome \in Outcomes, NEW d, d = DemandIdle(n, outcome)
  PROVE  /\ d \in Nodes /\ SameInputs(n, d) /\ d.test = n.test /\ d.blade = n.blade
         /\ d.starts = n.starts /\ d.replies = n.replies /\ d.told = n.told
         /\ ~d.session.arm
<1>1. PICK ready \in BOOLEAN : ready = (outcome.ready /\ n.connected)
  OBVIOUS
<1>2. PICK failed \in BOOLEAN : failed = (n.session.failed /\ outcome.failed)
  OBVIOUS
<1>3. PICK s \in Sessions : s = [arm |-> FALSE, ready |-> ready, failed |-> failed]
  BY DEF Sessions
<1>4. d = [n EXCEPT !.session = s]
  BY <1>1, <1>2, <1>3 DEF DemandIdle
<1>5. ~s.arm
  BY <1>3
<1>6. QED
  BY <1>4, <1>5 DEF Nodes, SameInputs

-----------------------------------------------------------------------------
(* The reason of a blade test. *)

\* Without movement only a test arms.
Armed(n) == n.session.arm /\ ~n.motion => n.test

Reason(n) == n.starts # {} \/ n.blade.requested # "Off" \/ n.blade.failed

Reasoned(n) == Armed(n) /\ (n.test /\ ~n.motion => Reason(n))

LEMMA ArmedSame ==
  ASSUME NEW n, Armed(n), NEW d, SameRest(n, d)
  PROVE  Armed(d)
  BY DEF Armed, SameRest, SameInputs

LEMMA EndedReasoned ==
  ASSUME NEW n, NEW d, Ended(n, d)
  PROVE  Reasoned(d)
  BY DEF Ended, Reasoned, Armed

LEMMA DriveSessionReasoned ==
  ASSUME NEW n \in Nodes, n.test /\ ~n.motion => Reason(n), NEW outcome \in Outcomes,
         NEW d, d = DriveSession(n, outcome)
  PROVE  d \in Nodes /\ Reasoned(d)
<1>1. PICK m : /\ Steered(n, outcome, m)
               /\ d = m \/ Ended(m, d)
  BY DriveSessionFields
<1>2. m \in Nodes /\ Reasoned(m)
  BY <1>1 DEF Steered, SameInputs, Reasoned, Armed, Reason
<1>3. QED
  BY <1>1, <1>2, EndedReasoned DEF Ended

\* After a drive of the session nothing is armed but for the movement or the test.
LEMMA DriveSessionArmed ==
  ASSUME NEW n \in Nodes, NEW outcome \in Outcomes, NEW d, d = DriveSession(n, outcome)
  PROVE  d \in Nodes /\ Armed(d) /\ (d.test => n.test) /\ d.motion = n.motion
<1>1. PICK m : /\ Steered(n, outcome, m)
               /\ d = m \/ Ended(m, d)
  BY DriveSessionFields
<1>2. m \in Nodes /\ Armed(m) /\ m.test = n.test /\ m.motion = n.motion
  BY <1>1 DEF Steered, SameInputs, Armed
<1>3. QED
  BY <1>1, <1>2 DEF Ended, Armed, SameInputs

LEMMA AgedArmed ==
  ASSUME NEW n \in Nodes, NEW trouble, NEW outcome \in Outcomes,
         NEW d, d = Aged(n, trouble, outcome)
  PROVE  d \in Nodes /\ (Armed(n) => Armed(d)) /\ (d.test => n.test) /\ d.motion = n.motion
<1>1. PICK alive : /\ alive = n \/ Ended(n, alive)
                   /\ OnlyBlade(alive, d)
  BY AgedFields
<1>2. (Armed(n) => Armed(alive)) /\ (alive.test => n.test) /\ alive.motion = n.motion
  BY <1>1 DEF Ended, Armed, SameInputs
<1>3. QED
  BY <1>1, <1>2, ArmedSame DEF OnlyBlade, SameRest, SameInputs

LEMMA EndIfArmed ==
  ASSUME NEW n \in Nodes, NEW outcome \in Outcomes, NEW condition,
         NEW d, d = EndIf(condition, n, outcome)
  PROVE  d \in Nodes /\ (Armed(n) => Armed(d)) /\ (d.test => n.test) /\ d.motion = n.motion
<1>1. d = n \/ Ended(n, d)
  BY EndIfFields
<1>2. QED
  BY <1>1 DEF Ended, Armed, SameInputs

LEMMA ServeStartsRest ==
  ASSUME NEW held, NEW n, Sound(n, held), NEW trouble, NEW m, m = ServeStarts(n, trouble)
  PROVE  m \in Nodes /\ SameRest(n, m)
<1>1. PICK left : /\ left = RefuseLost(n) /\ Sound(left, held)
                  /\ \/ m = left
                     \/ left.starts # {} /\ m = RequestStarts(left, trouble)
  BY ServeStartsFields
<1>2. left \in Nodes /\ SameRest(n, left)
  BY <1>1, RefuseLostFields DEF Sound
<1>3. CASE left.starts # {} /\ m = RequestStarts(left, trouble)
  <2>1. PICK s, taken :
           /\ s \in left.starts
           /\ OnlyBlade([left EXCEPT !.starts = {}], taken)
           /\ Pushed(taken, left.starts, s.direction,
                     RequestResult(left, s.direction, trouble), m)
    BY <1>1, <1>3, RequestStartsFields
  <2>2. PICK bare : bare = [left EXCEPT !.starts = {}]
    OBVIOUS
  <2>3. SameRest(left, bare)
    BY <1>2, <2>2 DEF Nodes, SameRest, SameInputs
  <2>4. SameRest(bare, taken) /\ SameRest(taken, m) /\ m \in Nodes
    BY <2>1, <2>2 DEF OnlyBlade, Pushed
  <2>5. QED
    BY <1>2, <2>3, <2>4 DEF SameRest, SameInputs
<1>4. QED
  BY <1>1, <1>2, <1>3

LEMMA ServedRest ==
  ASSUME NEW held, NEW n, Sound(n, held), NEW trouble,
         NEW m, m = ServeReplies(ServeDeadline(ServeStarts(n, trouble)))
  PROVE  m \in Nodes /\ SameRest(n, m)
<1>1. PICK started : started = ServeStarts(n, trouble)
  OBVIOUS
<1>2. PICK expired : expired = ServeDeadline(started)
  OBVIOUS
<1>3. Sound(started, held) /\ Sound(expired, held)
  BY <1>1, <1>2, ServeStartsSound, ServeDeadlineSound
<1>4. started \in Nodes /\ SameRest(n, started)
  BY <1>1, ServeStartsRest
<1>5. SameRest(started, expired)
  BY <1>2, <1>4, ServeDeadlineFields DEF OnlyBlade, SameRest, SameInputs
<1>6. m \in Nodes /\ SameRest(expired, m)
  <2>1. m = ServeReplies(expired)
    BY <1>1, <1>2
  <2>2. QED
    BY <1>3, <2>1, ServeRepliesFields
<1>7. QED
  BY <1>4, <1>5, <1>6 DEF SameRest, SameInputs

\* A drive of the blade finds whether the test still has an owner.
LEMMA DriveBladeReasoned ==
  ASSUME NEW held, NEW n, Sound(n, held), NEW trouble, NEW outcome \in Outcomes,
         NEW d, d = DriveBlade(n, trouble, outcome)
  PROVE  /\ d \in Nodes /\ (d.test => n.test) /\ d.motion = n.motion
         /\ Armed(n) => Reasoned(d)
<1>1. PICK aged : aged = Aged(n, trouble, outcome)
  OBVIOUS
<1>2. PICK timely : timely = Expired(aged, outcome)
  OBVIOUS
<1>3. PICK served : served = ServeReplies(ServeDeadline(ServeStarts(timely, trouble)))
  OBVIOUS
<1>4. PICK owned : owned = Owned(served, outcome)
  OBVIOUS
<1>5. n \in Nodes /\ Sound(timely, held)
  BY <1>1, <1>2, AgedSound, StagesSound DEF Sound
<1>6. aged \in Nodes /\ (Armed(n) => Armed(aged)) /\ (aged.test => n.test) /\ aged.motion = n.motion
  BY <1>1, <1>5, AgedArmed
<1>7. /\ timely \in Nodes /\ (Armed(aged) => Armed(timely)) /\ (timely.test => aged.test)
      /\ timely.motion = aged.motion
  BY <1>2, <1>6, EndIfArmed DEF Expired
<1>8. served \in Nodes /\ SameRest(timely, served)
  BY <1>3, <1>5, ServedRest
<1>9. (Armed(timely) => Armed(served)) /\ (served.test => timely.test) /\ served.motion = timely.motion
  BY <1>8, ArmedSame DEF SameRest, SameInputs
<1>10. /\ owned \in Nodes /\ (owned.test => served.test) /\ owned.motion = served.motion
       /\ Armed(served) => Reasoned(owned)
  <2>1. \/ owned = served /\ (served.starts = {} /\ served.blade.requested = "Off"
                                => ~served.test \/ served.motion)
        \/ Ended(served, owned)
    BY <1>4, <1>8, EndIfFields DEF Owned
  <2>2. CASE Ended(served, owned)
    BY <2>2, EndedReasoned DEF Ended, SameInputs
  <2>3. CASE owned = served /\ (served.starts = {} /\ served.blade.requested = "Off"
                                  => ~served.test \/ served.motion)
    BY <1>8, <2>3 DEF Reasoned, Reason
  <2>4. QED
    BY <2>1, <2>2, <2>3
<1>11. d = Dispatch(owned, trouble)
  BY <1>1, <1>2, <1>3, <1>4 DEF DriveBlade
<1>12. /\ d \in Nodes /\ (d.test => owned.test) /\ d.motion = owned.motion
       /\ Reasoned(owned) => Reasoned(d)
  <2>1. d = owned \/ (OnlyBlade(owned, d) /\ d.blade = Fail(owned.blade))
    BY <1>10, <1>11, DispatchFields
  <2>2. CASE d = owned
    BY <1>10, <2>2
  <2>3. CASE OnlyBlade(owned, d) /\ d.blade = Fail(owned.blade)
    <3>1. owned.blade \in Blades
      BY <1>10 DEF Nodes
    <3>2. d.blade.failed
      BY <2>3, <3>1, FailFields
    <3>3. QED
      BY <2>3, <3>2, ArmedSame DEF OnlyBlade, SameRest, SameInputs, Reasoned, Reason
  <2>4. QED
    BY <2>1, <2>2, <2>3
<1>13. QED
  BY <1>6, <1>7, <1>9, <1>10, <1>12

\* Both lists are renumbered, nothing else is read here.
LEMMA RenumberedReasoned ==
  ASSUME NEW n \in Nodes, Reasoned(n)
  PROVE  Reasoned(Renumbered(n))
<1>1. PICK q : q = {[r EXCEPT !.revision = IF @ = n.blade.revision THEN 0 ELSE -1] :
                      r \in n.replies}
  OBVIOUS
<1>2. PICK b : b = [n.blade EXCEPT !.revision = 0]
  OBVIOUS
<1>3. n.blade \in Blades
  BY DEF Nodes
<1>4. PICK m : m = [n EXCEPT !.blade = b, !.replies = q]
  OBVIOUS
<1>5. Renumbered(n) = m
  BY <1>1, <1>2, <1>4 DEF Renumbered, Nodes
<1>6. b.requested = n.blade.requested /\ b.failed = n.blade.failed
  BY <1>2, <1>3 DEF Blades
<1>7. /\ m.blade = b /\ m.starts = n.starts /\ m.session = n.session
      /\ m.motion = n.motion /\ m.test = n.test
  BY <1>4 DEF Nodes
<1>8. Reasoned(m)
  BY <1>6, <1>7 DEF Reasoned, Armed, Reason
<1>9. QED
  BY <1>5, <1>8

LEMMA FreshFields ==
  ASSUME MowerInv
  PROVE  /\ Sound(Fresh, Waiting(node)) /\ Fresh \in Nodes /\ SameRest(node, Fresh)
         /\ Fresh.blade = node.blade /\ Fresh.starts = node.starts
         /\ Fresh.replies = node.replies /\ Fresh.told = {}
<1>1. node \in Nodes
  BY DEF MowerInv, Sound
<1>2. PICK m : m = [node EXCEPT !.told = {}]
  OBVIOUS
<1>3. /\ SameRest(node, m) /\ m.blade = node.blade /\ m.starts = node.starts
      /\ m.replies = node.replies /\ m.told = {}
  BY <1>1, <1>2 DEF Nodes, SameRest, SameInputs
<1>4. m = Fresh
  BY <1>2 DEF Fresh
<1>5. Sound(Fresh, Waiting(node))
  BY FreshSound
<1>6. QED
  BY <1>3, <1>4, <1>5 DEF Sound

\* Most handlers end with both drives: whatever they found, the test has a reason then.
LEMMA DrivesReasoned ==
  ASSUME NEW held, NEW n, Sound(n, held), NEW trouble, NEW outcome \in Outcomes,
         NEW d, d = DriveBlade(DriveSession(n, outcome), trouble, outcome)
  PROVE  d \in Nodes /\ Reasoned(d)
<1>1. PICK m : m = DriveSession(n, outcome)
  OBVIOUS
<1>2. Sound(m, held) /\ Armed(m)
  BY <1>1, DriveSessionSound, DriveSessionArmed DEF Sound
<1>3. QED
  BY <1>1, <1>2, DriveBladeReasoned

\* The others end with the drive of the session, after a drive of the blade of a bridge that
\* no longer tests.
LEMMA DisarmedReasoned ==
  ASSUME NEW held, NEW n, Sound(n, held), ~n.test, NEW trouble, NEW outcome \in Outcomes,
         NEW d, d = DriveSession(DriveBlade(n, trouble, outcome), outcome)
  PROVE  d \in Nodes /\ Reasoned(d)
<1>1. PICK m : m = DriveBlade(n, trouble, outcome)
  OBVIOUS
<1>2. m \in Nodes /\ ~m.test
  BY <1>1, DriveBladeReasoned
<1>3. QED
  BY <1>1, <1>2, DriveSessionReasoned

LEMMA SafetyDisarmReasoned ==
  ASSUME NEW held, NEW n, Sound(n, held), NEW trouble, NEW outcome \in Outcomes,
         NEW d, d = SafetyDisarm(n, trouble, outcome)
  PROVE  d \in Nodes /\ Reasoned(d)
<1>1. PICK a : a = [n EXCEPT !.test = FALSE, !.blade = ForceOff(@)]
  OBVIOUS
<1>2. PICK b : b = CancelPendingStarts(a)
  OBVIOUS
<1>3. PICK c : c = DemandIdle(b, outcome)
  OBVIOUS
<1>4. Sound(a, held) /\ ~a.test
  <2>1. n \in Nodes /\ ForceOff(n.blade) \in Blades
    BY BladeTypes DEF Sound, Nodes
  <2>2. PICK f \in Blades : f = ForceOff(n.blade)
    BY <2>1
  <2>3. a = [n EXCEPT !.test = FALSE, !.blade = f]
    BY <1>1, <2>2
  <2>4. /\ a.starts = n.starts /\ a.replies = n.replies /\ a.told = n.told
        /\ a \in Nodes /\ ~a.test
    BY <2>1, <2>3 DEF Nodes
  <2>5. QED
    BY <2>4, ListsUntouched
<1>5. Sound(b, held) /\ ~b.test
  BY <1>2, <1>4, CancelSound, CancelFields DEF Sound, SameRest
<1>6. Sound(c, held) /\ ~c.test
  BY <1>3, <1>5, DemandIdleSound, DemandIdleFields DEF Sound
<1>7. d = DriveSession(DriveBlade(c, trouble, outcome), outcome)
  BY <1>1, <1>2, <1>3 DEF SafetyDisarm
<1>8. QED
  BY <1>6, <1>7, DisarmedReasoned

\* The decision for one caller.
AskedFor(n, caller, d, result, m) ==
  /\ m \in Nodes /\ SameRest(n, m) /\ m.blade = n.blade /\ m.starts = n.starts
  /\ \A r \in m.replies :
       \/ r \in n.replies
       \/ /\ result = "Pending" /\ r.caller = caller /\ r.direction = d
          /\ r.revision = n.blade.revision /\ ~r.late
  /\ \A t \in m.told :
       \/ t \in n.told
       \/ /\ t.caller = caller /\ t.direction = d /\ t.success = (result = "Confirmed")
          /\ t.success /\ Achieved(n.blade, d) => t.achieved

\* A caller asks the blade for something before it is driven.
Asks(n, caller, d, trouble, result, taken, m) ==
  /\ taken = [n EXCEPT !.blade = Requested(n, d, trouble)]
  /\ m = Push(taken, {[caller |-> caller, late |-> FALSE]}, d, result)

LEMMA TakenFields ==
  ASSUME NEW caller \in Callers, NEW held, caller \notin held, NEW n, Sound(n, held),
         NEW d \in Demands, NEW trouble, NEW result,
         NEW taken, NEW m, Asks(n, caller, d, trouble, result, taken, m)
  PROVE  /\ Sound(taken, held) /\ Sound(m, held \cup {caller})
         /\ OnlyBlade(n, taken) /\ taken.blade = Requested(n, d, trouble)
         /\ AskedFor(taken, caller, d, result, m)
<1>1. n \in Nodes /\ Requested(n, d, trouble) \in Blades
  BY RequestedType DEF Sound
<1>2. PICK b \in Blades : b = Requested(n, d, trouble)
  BY <1>1
<1>3. taken = [n EXCEPT !.blade = b]
  BY <1>2 DEF Asks
<1>4. OnlyBlade(n, taken) /\ taken.blade = b
  BY <1>1, <1>3, BladeSet
<1>5. Sound(taken, held)
  BY <1>3, BladeSound
<1>6. Sound(m, held \cup {caller})
  BY <1>5, PushOneSound DEF Asks
<1>7. PICK entries : entries = {[caller |-> caller, late |-> FALSE]}
  OBVIOUS
<1>8. /\ IsFiniteSet(entries) /\ Distinct(entries)
      /\ \A e \in entries : e.caller \in Callers /\ e.late \in BOOLEAN
      /\ CallersOf(entries) \cap held = {}
  BY <1>7, OneAsks
<1>9. m = Push(taken, entries, d, result)
  BY <1>7 DEF Asks
<1>10. Pushed(taken, entries, d, result, m)
  BY <1>5, <1>8, <1>9, PushFields
<1>11. AskedFor(taken, caller, d, result, m)
  <2>1. \A e \in entries : e.caller = caller /\ ~e.late
    BY <1>7
  <2>2. ASSUME NEW r \in m.replies, r \notin taken.replies
        PROVE  /\ result = "Pending" /\ r.caller = caller /\ r.direction = d
               /\ r.revision = taken.blade.revision /\ ~r.late
    <3>1. PICK e \in entries : /\ result = "Pending"
                              /\ r.caller = e.caller /\ r.direction = d
                              /\ r.revision = taken.blade.revision /\ r.late = e.late
      BY <1>10, <2>2 DEF Pushed
    <3>2. QED
      BY <2>1, <3>1
  <2>3. ASSUME NEW t \in m.told, t \notin taken.told
        PROVE  /\ t.caller = caller /\ t.direction = d /\ t.success = (result = "Confirmed")
               /\ t.success /\ Achieved(taken.blade, d) => t.achieved
    <3>1. \E e \in entries : t.caller = e.caller
      BY <1>10, <2>3 DEF Pushed
    <3>2. t.direction = d /\ t.success = (result = "Confirmed")
      BY <1>10, <2>3 DEF Pushed
    <3>3. t.success /\ Achieved(taken.blade, d) => t.achieved
      BY <1>10, <2>3 DEF Pushed
    <3>4. t.caller = caller
      BY <2>1, <3>1
    <3>5. QED
      BY <3>2, <3>3, <3>4
  <2>4. /\ m \in Nodes /\ SameRest(taken, m) /\ m.blade = taken.blade
        /\ m.starts = taken.starts
    BY <1>10 DEF Pushed
  <2>5. QED
    BY <2>2, <2>3, <2>4 DEF AskedFor
<1>12. QED
  BY <1>2, <1>4, <1>5, <1>6, <1>11

\* The blade controller confirms what it has.
LEMMA ConfirmedAchieved ==
  ASSUME NEW n, NEW d, NEW trouble, RequestResult(n, d, trouble) = "Confirmed"
  PROVE  /\ d = n.blade.requested /\ n.blade.satisfied
         /\ Requested(n, d, trouble) = n.blade /\ Achieved(n.blade, d)
<1>1. d = n.blade.requested /\ n.blade.satisfied
  BY DEF RequestResult
<1>2. QED
  BY <1>1 DEF Requested, Achieved

LEMMA PermittedFields ==
  ASSUME NEW held, NEW n, Sound(n, held), NEW trouble,
         NEW m, m = [n EXCEPT !.blade = Permission(@, BladeAllowed(n, trouble))]
  PROVE  /\ Sound(m, held) /\ OnlyBlade(n, m)
         /\ m.blade = Permission(n.blade, BladeAllowed(n, trouble))
<1>1. PICK allowed \in BOOLEAN : allowed = BladeAllowed(n, trouble)
  BY DEF BladeAllowed
<1>2. n \in Nodes /\ n.blade \in Blades
  BY DEF Sound, Nodes
<1>3. PICK b \in Blades : b = Permission(n.blade, allowed)
  BY <1>2, BladeTypes
<1>4. m = [n EXCEPT !.blade = b]
  BY <1>1, <1>3
<1>5. OnlyBlade(n, m) /\ m.blade = b
  BY <1>2, <1>4, BladeSet
<1>6. Sound([n EXCEPT !.blade = b], held)
  BY BladeSound
<1>7. QED
  BY <1>1, <1>3, <1>4, <1>5, <1>6

LEMMA TestSet ==
  ASSUME NEW held, NEW n, Sound(n, held), NEW test \in BOOLEAN,
         NEW m, m = [n EXCEPT !.test = test]
  PROVE  /\ Sound(m, held) /\ m \in Nodes /\ SameInputs(n, m) /\ m.session = n.session
         /\ m.blade = n.blade /\ m.starts = n.starts /\ m.replies = n.replies
         /\ m.told = n.told /\ m.test = test
<1>1. n \in Nodes
  BY DEF Sound
<1>2. Sound(m, held)
  BY TestSound
<1>3. QED
  BY <1>1, <1>2 DEF Nodes, SameInputs, Sound

\* The bridge of an OFF: the callers of an ON are refused, the test is over.
OffSettled(n, held, settled) ==
  /\ Sound(settled, held) /\ SameInputs(n, settled) /\ ~settled.test
  /\ settled.starts = {} /\ settled.replies = n.replies
  /\ settled.told = n.told \cup Refusals(n.starts)
  /\ settled.motion \/ ~settled.session.arm
  /\ \/ settled.blade = n.blade
     \/ \E allowed \in BOOLEAN : settled.blade = Permission(n.blade, allowed)

OffAsked(n, caller, trouble, taken, result, m) ==
  /\ result = IF "down" \in trouble THEN "Rejected" ELSE RequestResult(n, "Off", trouble)
  /\ Asks(n, caller, "Off", trouble, result, taken, m)

\* The bridge of an OFF when its caller is put on the list, or answered.
LEMMA TurnOffStages ==
  ASSUME NEW caller \in Callers, NEW held, caller \notin held, NEW n, Sound(n, held),
         NEW trouble, NEW outcome \in Outcomes,
         NEW d, d = TurnOff(n, caller, trouble, outcome)
  PROVE  \E settled, taken, queued, result :
           /\ OffSettled(n, held, settled)
           /\ OffAsked(settled, caller, trouble, taken, result, queued)
           /\ d = DriveSession(DriveBlade(queued, trouble, outcome), outcome)
<1>1. PICK c : c = CancelPendingStarts(n)
  OBVIOUS
<1>2. PICK cancelled : cancelled = [c EXCEPT !.test = FALSE]
  OBVIOUS
<1>3. PICK idle : idle = DemandIdle(cancelled, outcome)
  OBVIOUS
<1>4. PICK settled :
        settled = IF n.motion THEN cancelled
                  ELSE [idle EXCEPT !.blade = Permission(@, BladeAllowed(idle, trouble))]
  OBVIOUS
<1>5. PICK taken : taken = [settled EXCEPT !.blade = Requested(settled, "Off", trouble)]
  OBVIOUS
<1>6. PICK result : result = IF "down" \in trouble THEN "Rejected"
                             ELSE RequestResult(settled, "Off", trouble)
  OBVIOUS
<1>7. PICK queued : queued = Push(taken, {[caller |-> caller, late |-> FALSE]}, "Off", result)
  OBVIOUS
<1>8. /\ Sound(c, held) /\ c \in Nodes /\ SameRest(n, c) /\ c.blade = n.blade
      /\ c.replies = n.replies /\ c.starts = {} /\ c.told = n.told \cup Refusals(n.starts)
  BY <1>1, CancelSound, CancelFields DEF Sound
<1>9. /\ Sound(cancelled, held) /\ cancelled \in Nodes /\ SameInputs(n, cancelled)
      /\ ~cancelled.test
      /\ cancelled.blade = n.blade /\ cancelled.starts = {}
      /\ cancelled.replies = n.replies /\ cancelled.told = n.told \cup Refusals(n.starts)
  <2>1. PICK test \in BOOLEAN : test = FALSE
    OBVIOUS
  <2>2. cancelled = [c EXCEPT !.test = test]
    BY <1>2, <2>1
  <2>3. QED
    BY <1>8, <2>1, <2>2, TestSet DEF SameRest, SameInputs
<1>10. /\ Sound(idle, held) /\ SameInputs(n, idle) /\ ~idle.test /\ idle.blade = n.blade
       /\ idle.starts = {} /\ idle.replies = n.replies /\ idle.told = cancelled.told
       /\ ~idle.session.arm
  BY <1>3, <1>9, DemandIdleSound, DemandIdleFields DEF SameInputs
<1>11. /\ Sound(settled, held) /\ SameInputs(n, settled) /\ ~settled.test
       /\ settled.starts = {} /\ settled.replies = n.replies
       /\ settled.told = cancelled.told
       /\ settled.motion \/ ~settled.session.arm
       /\ \/ settled.blade = n.blade
          \/ \E allowed \in BOOLEAN : settled.blade = Permission(n.blade, allowed)
  <2>1. CASE n.motion
    BY <1>4, <1>9, <2>1 DEF SameInputs
  <2>2. CASE ~n.motion
    <3>1. settled = [idle EXCEPT !.blade = Permission(@, BladeAllowed(idle, trouble))]
      BY <1>4, <2>2
    <3>2. PICK allowed \in BOOLEAN : allowed = BladeAllowed(idle, trouble)
      BY DEF BladeAllowed
    <3>3. /\ Sound(settled, held) /\ OnlyBlade(idle, settled)
          /\ settled.blade = Permission(n.blade, allowed)
      BY <1>10, <3>1, <3>2, PermittedFields
    <3>4. QED
      BY <1>10, <3>3 DEF OnlyBlade, SameRest, SameInputs
  <2>3. QED
    BY <2>1, <2>2
<1>12. d = DriveSession(DriveBlade(queued, trouble, outcome), outcome)
  BY <1>1, <1>2, <1>3, <1>4, <1>5, <1>6, <1>7 DEF TurnOff
<1>13. OffSettled(n, held, settled)
  BY <1>9, <1>11 DEF OffSettled
<1>14. OffAsked(settled, caller, trouble, taken, result, queued)
  BY <1>5, <1>6, <1>7 DEF OffAsked, Asks
<1>15. QED
  BY <1>12, <1>13, <1>14

LEMMA TurnOffReasoned ==
  ASSUME NEW caller \in Callers, NEW held, caller \notin held, NEW n, Sound(n, held),
         NEW trouble, NEW outcome \in Outcomes,
         NEW d, d = TurnOff(n, caller, trouble, outcome)
  PROVE  d \in Nodes /\ Reasoned(d)
<1>1. PICK settled, taken, queued, result :
           /\ OffSettled(n, held, settled)
           /\ OffAsked(settled, caller, trouble, taken, result, queued)
           /\ d = DriveSession(DriveBlade(queued, trouble, outcome), outcome)
  BY TurnOffStages
<1>2. "Off" \in Demands
  BY DEF Demands
<1>3. /\ Sound(queued, held \cup {caller})
      /\ OnlyBlade(settled, taken)
      /\ AskedFor(taken, caller, "Off", result, queued)
  <2>1. Sound(settled, held)
    BY <1>1 DEF OffSettled
  <2>2. Asks(settled, caller, "Off", trouble, result, taken, queued)
    BY <1>1 DEF OffAsked
  <2>3. QED
    BY <1>2, <2>1, <2>2, TakenFields
<1>4. ~queued.test
  BY <1>1, <1>3 DEF OnlyBlade, AskedFor, SameRest, OffSettled
<1>5. QED
  BY <1>1, <1>3, <1>4, DisarmedReasoned

\* The bridge of a request for ON whose blade test, if it is one, was opened.
OnOpened(driven, held, second, tested, opened) ==
  /\ Sound(tested, held) /\ SameInputs(driven, tested) /\ tested.blade = driven.blade
  /\ tested.starts = driven.starts /\ tested.replies = driven.replies
  /\ tested.told = driven.told /\ tested.test = (driven.test \/ ~driven.motion)
  /\ Sound(opened, held) /\ opened = DriveSession(tested, second)

\* The session failed, or there is nothing to arm for.
OnRefused(opened, caller, d, second, m) ==
  /\ opened.session.failed \/ ~(opened.motion \/ opened.test)
  /\ m = Refuse(EndFailedBladeTest(opened, second), caller, d)

\* The caller goes on the list of those who wait for the session, if it has room.
OnWaits(opened, caller, d, m) ==
  /\ ~opened.session.ready
  /\ IF Cardinality(opened.starts) >= Capacity THEN m = Refuse(opened, caller, d)
     ELSE m = [opened EXCEPT
                 !.starts = @ \cup {[caller |-> caller, direction |-> d, late |-> FALSE]}]

\* The blade is asked at once.
OnAsked(opened, caller, held, d, trouble, second, m) ==
  \E permitted, taken, result, queued :
    /\ opened.session.ready /\ ~opened.session.failed
    /\ Sound(permitted, held) /\ OnlyBlade(opened, permitted)
    /\ permitted.blade = Permission(opened.blade, BladeAllowed(opened, trouble))
    /\ result = RequestResult(permitted, d, trouble)
    /\ Asks(permitted, caller, d, trouble, result, taken, queued)
    /\ m = DriveBlade(queued, trouble, second)

LEMMA TurnOnStages ==
  ASSUME NEW caller \in Callers, NEW held, caller \notin held,
         NEW driven, Sound(driven, held), NEW d \in Rotations,
         NEW trouble, NEW second \in Outcomes,
         NEW m, m = TurnOn(driven, caller, d, trouble, second)
  PROVE  \E tested, opened :
           /\ OnOpened(driven, held, second, tested, opened)
           /\ \/ m = Refuse(driven, caller, d)
              \/ /\ driven.connected
                 /\ \/ OnRefused(opened, caller, d, second, m)
                    \/ OnWaits(opened, caller, d, m)
                    \/ OnAsked(opened, caller, held, d, trouble, second, m)
<1>1. driven.test \in BOOLEAN /\ driven.motion \in BOOLEAN
  BY DEF Sound, Nodes
<1>2. PICK test \in BOOLEAN : test = (driven.test \/ ~driven.motion)
  BY <1>1
<1>3. PICK tested : tested = [driven EXCEPT !.test = test]
  OBVIOUS
<1>4. PICK opened : opened = DriveSession(tested, second)
  OBVIOUS
<1>5. PICK permitted :
        permitted = [opened EXCEPT !.blade = Permission(@, BladeAllowed(opened, trouble))]
  OBVIOUS
<1>6. PICK taken : taken = [permitted EXCEPT !.blade = Requested(permitted, d, trouble)]
  OBVIOUS
<1>7. PICK result : result = RequestResult(permitted, d, trouble)
  OBVIOUS
<1>8. PICK queued : queued = Push(taken, {[caller |-> caller, late |-> FALSE]}, d, result)
  OBVIOUS
<1>9. /\ Sound(tested, held) /\ SameInputs(driven, tested) /\ tested.blade = driven.blade
      /\ tested.starts = driven.starts /\ tested.replies = driven.replies
      /\ tested.told = driven.told /\ tested.test = test
  BY <1>3, TestSet
<1>10. Sound(opened, held)
  BY <1>4, <1>9, DriveSessionSound
<1>11. OnOpened(driven, held, second, tested, opened)
  BY <1>2, <1>4, <1>9, <1>10 DEF OnOpened
<1>12. /\ Sound(permitted, held) /\ OnlyBlade(opened, permitted)
       /\ permitted.blade = Permission(opened.blade, BladeAllowed(opened, trouble))
  BY <1>5, <1>10, PermittedFields
<1>13. Asks(permitted, caller, d, trouble, result, taken, queued)
  BY <1>6, <1>8 DEF Asks
<1>14. opened = DriveSession([driven EXCEPT !.test = @ \/ ~driven.motion], second)
  BY <1>2, <1>3, <1>4
<1>15. CASE \/ "down" \in trouble \/ ~driven.connected \/ driven.emergency
            \/ ~driven.released \/ driven.blade.failed
  <2>1. m = Refuse(driven, caller, d)
    BY <1>15 DEF TurnOn
  <2>2. QED
    BY <1>11, <2>1
<1>16. CASE ~(\/ "down" \in trouble \/ ~driven.connected \/ driven.emergency
              \/ ~driven.released \/ driven.blade.failed)
  <2>1. CASE opened.session.failed \/ ~(opened.motion \/ opened.test)
    <3>1. m = Refuse(EndFailedBladeTest(opened, second), caller, d)
      BY <1>14, <1>16, <2>1 DEF TurnOn
    <3>2. OnRefused(opened, caller, d, second, m)
      BY <2>1, <3>1 DEF OnRefused
    <3>3. QED
      BY <1>11, <1>16, <3>2
  <2>2. CASE ~(opened.session.failed \/ ~(opened.motion \/ opened.test)) /\ ~opened.session.ready
    <3>1. m = IF Cardinality(opened.starts) >= Capacity THEN Refuse(opened, caller, d)
              ELSE [opened EXCEPT
                      !.starts = @ \cup {[caller |-> caller, direction |-> d, late |-> FALSE]}]
      BY <1>14, <1>16, <2>2 DEF TurnOn
    <3>2. OnWaits(opened, caller, d, m)
      BY <2>2, <3>1 DEF OnWaits
    <3>3. QED
      BY <1>11, <1>16, <3>2
  <2>3. CASE ~(opened.session.failed \/ ~(opened.motion \/ opened.test)) /\ opened.session.ready
    <3>1. m = DriveBlade(queued, trouble, second)
      BY <1>5, <1>6, <1>7, <1>8, <1>14, <1>16, <2>3 DEF TurnOn
    <3>2. OnAsked(opened, caller, held, d, trouble, second, m)
      BY <1>7, <1>12, <1>13, <2>3, <3>1 DEF OnAsked
    <3>3. QED
      BY <1>11, <1>16, <3>2
  <2>4. QED
    BY <2>1, <2>2, <2>3
<1>17. QED
  BY <1>15, <1>16

\* A caller who is refused on the spot.
LEMMA RefuseFields ==
  ASSUME NEW n \in Nodes, NEW caller \in Callers, NEW d \in Demands,
         NEW m, m = Refuse(n, caller, d)
  PROVE  /\ m \in Nodes /\ SameRest(n, m) /\ m.blade = n.blade /\ m.starts = n.starts
         /\ m.replies = n.replies
         /\ \A t \in m.told :
              t \in n.told \/ (t.caller = caller /\ t.direction = d /\ ~t.success)
<1>1. PICK success \in BOOLEAN : success = FALSE
  OBVIOUS
<1>2. PICK t \in Responses : t = Response(caller, d, success, success)
  BY ResponseType
<1>3. PICK told \in SUBSET Responses : told = n.told \cup {t}
  BY DEF Nodes
<1>4. m = [n EXCEPT !.told = told]
  BY <1>1, <1>2, <1>3 DEF Refuse
<1>5. /\ m \in Nodes /\ SameRest(n, m) /\ m.blade = n.blade /\ m.starts = n.starts
      /\ m.replies = n.replies /\ m.told = told
  BY <1>4 DEF Nodes, SameRest, SameInputs
<1>6. t.caller = caller /\ t.direction = d /\ ~t.success
  BY <1>1, <1>2 DEF Response
<1>7. QED
  BY <1>3, <1>5, <1>6

LEMMA ReasonedSame ==
  ASSUME NEW n, Reasoned(n), NEW m, SameRest(n, m), m.blade = n.blade, m.starts = n.starts
  PROVE  Reasoned(m)
  BY DEF Reasoned, Armed, Reason, SameRest, SameInputs

LEMMA WaitsFields ==
  ASSUME NEW opened \in Nodes, NEW caller \in Callers, NEW d \in Rotations,
         NEW m, OnWaits(opened, caller, d, m)
  PROVE  /\ m \in Nodes /\ SameRest(opened, m) /\ m.blade = opened.blade
         /\ m.replies = opened.replies /\ m.starts # {}
         /\ \A s \in m.starts :
              s \in opened.starts \/ (s.caller = caller /\ s.direction = d /\ ~s.late)
         /\ \A t \in m.told :
              t \in opened.told \/ (t.caller = caller /\ t.direction = d /\ ~t.success)
<1>1. CASE Cardinality(opened.starts) >= Capacity
  <2>1. m = Refuse(opened, caller, d) /\ d \in Demands
    BY <1>1 DEF OnWaits, Demands
  <2>2. opened.starts # {}
    <3>1. Cardinality({}) = 0
      BY FS_EmptySet
    <3>2. QED
      BY <1>1, <3>1, CapacityInNat
  <2>3. QED
    BY <2>1, <2>2, RefuseFields
<1>2. CASE ~(Cardinality(opened.starts) >= Capacity)
  <2>1. PICK late \in BOOLEAN : late = FALSE
    OBVIOUS
  <2>2. PICK s \in Starts : s = [caller |-> caller, direction |-> d, late |-> late]
    BY DEF Starts
  <2>3. PICK starts \in SUBSET Starts : starts = opened.starts \cup {s}
    BY DEF Nodes
  <2>4. m = [opened EXCEPT !.starts = starts]
    BY <1>2, <2>1, <2>2, <2>3 DEF OnWaits
  <2>5. /\ m \in Nodes /\ SameRest(opened, m) /\ m.blade = opened.blade
        /\ m.replies = opened.replies /\ m.starts = starts /\ m.told = opened.told
    BY <2>4 DEF Nodes, SameRest, SameInputs
  <2>6. s.caller = caller /\ s.direction = d /\ ~s.late
    BY <2>1, <2>2
  <2>7. QED
    BY <2>3, <2>5, <2>6
<1>3. QED
  BY <1>1, <1>2

LEMMA TurnOnReasoned ==
  ASSUME NEW caller \in Callers, NEW held, caller \notin held,
         NEW driven, Sound(driven, held), Reasoned(driven), NEW d \in Rotations,
         NEW trouble, NEW second \in Outcomes,
         NEW m, m = TurnOn(driven, caller, d, trouble, second)
  PROVE  m \in Nodes /\ Reasoned(m)
<1>1. PICK tested, opened :
        /\ OnOpened(driven, held, second, tested, opened)
        /\ \/ m = Refuse(driven, caller, d)
           \/ /\ driven.connected
              /\ \/ OnRefused(opened, caller, d, second, m)
                 \/ OnWaits(opened, caller, d, m)
                 \/ OnAsked(opened, caller, held, d, trouble, second, m)
  BY TurnOnStages
<1>2. d \in Demands
  BY DEF Demands
<1>3. opened \in Nodes /\ Armed(opened)
  <2>1. tested \in Nodes /\ opened = DriveSession(tested, second)
    BY <1>1 DEF OnOpened, Sound
  <2>2. QED
    BY <2>1, DriveSessionArmed
<1>4. CASE m = Refuse(driven, caller, d)
  <2>1. driven \in Nodes
    BY DEF Sound
  <2>2. QED
    BY <1>2, <1>4, <2>1, RefuseFields, ReasonedSame
<1>5. CASE OnRefused(opened, caller, d, second, m)
  <2>1. PICK ended : ended = EndFailedBladeTest(opened, second)
    OBVIOUS
  <2>2. ((~opened.test \/ opened.motion) /\ ended = opened) \/ Ended(opened, ended)
    BY <1>3, <2>1, EndTestFields
  <2>3. ended \in Nodes /\ Reasoned(ended)
    BY <1>3, <2>2, EndedReasoned DEF Ended, Reasoned
  <2>4. QED
    BY <1>2, <1>5, <2>1, <2>3, RefuseFields, ReasonedSame DEF OnRefused
<1>6. CASE OnWaits(opened, caller, d, m)
  <2>1. m \in Nodes /\ SameRest(opened, m) /\ m.starts # {}
    BY <1>3, <1>6, WaitsFields
  <2>2. QED
    BY <1>3, <2>1, ArmedSame DEF Reasoned, Reason
<1>7. CASE OnAsked(opened, caller, held, d, trouble, second, m)
  <2>1. PICK permitted, taken, result, queued :
          /\ Sound(permitted, held) /\ OnlyBlade(opened, permitted)
          /\ Asks(permitted, caller, d, trouble, result, taken, queued)
          /\ m = DriveBlade(queued, trouble, second)
    BY <1>7 DEF OnAsked
  <2>2. /\ Sound(queued, held \cup {caller}) /\ OnlyBlade(permitted, taken)
        /\ AskedFor(taken, caller, d, result, queued)
    BY <1>2, <2>1, TakenFields
  <2>3. Armed(queued)
    BY <1>3, <2>1, <2>2, ArmedSame DEF OnlyBlade, AskedFor
  <2>4. QED
    BY <2>1, <2>2, <2>3, DriveBladeReasoned
<1>8. QED
  BY <1>1, <1>4, <1>5, <1>6, <1>7

-----------------------------------------------------------------------------
(* Where each handler starts from. *)

\* The callers of an ON are refused and the blade is demanded OFF.
Voided(n, off) ==
  /\ off.starts = {} /\ off.replies = n.replies /\ off.told = n.told \cup Refusals(n.starts)
  /\ off.blade = ForceOff(n.blade)

LEMMA StatusStart ==
  ASSUME MowerInv, NEW motion \in BOOLEAN, NEW trouble, NEW outcome \in Outcomes,
         HighLevelStatus(motion, trouble, outcome)
  PROVE  \E ends, left :
           /\ ends = (node.motion /\ ~motion)
           /\ Sound(left, Waiting(node))
           /\ \/ /\ ~ends /\ left.blade = Fresh.blade /\ left.starts = Fresh.starts
                 /\ left.replies = Fresh.replies /\ left.told = Fresh.told
                 /\ left.connected = Fresh.connected
              \/ /\ ends
                 /\ \E off : /\ Sound(off, Waiting(node)) /\ Voided(Fresh, off)
                             /\ off.connected = Fresh.connected
                             /\ left = DriveBlade(off, trouble, outcome)
           /\ Handler(DriveBlade(DriveSession(left, outcome), trouble, outcome), ends)
<1>1. PICK ends \in BOOLEAN : ends = (node.motion /\ ~motion)
  OBVIOUS
<1>2. PICK status : status = [Fresh EXCEPT !.motion = motion]
  OBVIOUS
<1>3. PICK test \in BOOLEAN : test = FALSE
  OBVIOUS
<1>4. PICK untested : untested = [status EXCEPT !.test = test]
  OBVIOUS
<1>5. PICK cancelled : cancelled = CancelPendingStarts(untested)
  OBVIOUS
<1>6. PICK off : off = [cancelled EXCEPT !.blade = ForceOff(@)]
  OBVIOUS
<1>7. PICK left : left = IF ends THEN DriveBlade(off, trouble, outcome) ELSE status
  OBVIOUS
<1>8. Fresh \in Nodes /\ Sound(Fresh, Waiting(node))
  BY FreshFields
<1>9. /\ status \in Nodes /\ status.blade = Fresh.blade /\ status.starts = Fresh.starts
      /\ status.replies = Fresh.replies /\ status.told = Fresh.told
      /\ status.connected = Fresh.connected
  BY <1>2, <1>8 DEF Nodes
<1>10. Sound(status, Waiting(node))
  BY <1>8, <1>9, ListsUntouched
<1>11. /\ Sound(untested, Waiting(node)) /\ untested \in Nodes
       /\ untested.blade = Fresh.blade /\ untested.starts = Fresh.starts
       /\ untested.replies = Fresh.replies /\ untested.told = Fresh.told
       /\ untested.connected = Fresh.connected
  BY <1>4, <1>9, <1>10, TestSet DEF SameInputs
<1>12. /\ Sound(cancelled, Waiting(node)) /\ cancelled \in Nodes /\ cancelled.starts = {}
       /\ cancelled.blade = Fresh.blade /\ cancelled.replies = Fresh.replies
       /\ cancelled.told = Fresh.told \cup Refusals(Fresh.starts)
       /\ cancelled.connected = Fresh.connected
  BY <1>5, <1>11, CancelSound, CancelFields DEF SameRest, SameInputs
<1>13. /\ Sound(off, Waiting(node)) /\ Voided(Fresh, off)
       /\ off.connected = Fresh.connected
  <2>1. PICK b \in Blades : b = ForceOff(cancelled.blade)
    BY <1>12, BladeTypes DEF Nodes
  <2>2. off = [cancelled EXCEPT !.blade = b]
    BY <1>6, <2>1
  <2>3. OnlyBlade(cancelled, off) /\ off.blade = b
    BY <1>12, <2>2, BladeSet
  <2>4. Sound([cancelled EXCEPT !.blade = b], Waiting(node))
    BY <1>12, BladeSound
  <2>5. QED
    BY <1>12, <2>1, <2>2, <2>3, <2>4 DEF Voided, OnlyBlade, SameRest, SameInputs
<1>14. Sound(left, Waiting(node))
  BY <1>7, <1>10, <1>13, DriveBladeSound
<1>15. Handler(DriveBlade(DriveSession(left, outcome), trouble, outcome), ends)
  BY <1>1, <1>2, <1>3, <1>4, <1>5, <1>6, <1>7, Zenon DEF HighLevelStatus
<1>16. CASE ends
  BY <1>1, <1>7, <1>13, <1>14, <1>15, <1>16
<1>17. CASE ~ends
  BY <1>1, <1>7, <1>9, <1>14, <1>15, <1>17
<1>18. QED
  BY <1>16, <1>17

LEMMA StateStart ==
  ASSUME MowerInv, NEW connected \in BOOLEAN, NEW emergency \in BOOLEAN, NEW trouble,
         NEW outcome \in Outcomes, MavrosState(connected, emergency, trouble, outcome)
  PROVE  \E changes, left :
           /\ changes = (node.connected # connected)
           /\ Sound(left, Waiting(node)) /\ left.connected = connected
           /\ left.replies = Fresh.replies
           /\ left.blade = IF changes THEN ForceOff(Fresh.blade) ELSE Fresh.blade
           /\ IF changes /\ ~connected
              THEN left.starts = {} /\ left.told = Fresh.told \cup Refusals(Fresh.starts)
              ELSE left.starts = Fresh.starts /\ left.told = Fresh.told
           /\ Handler(DriveBlade(DriveSession(left, outcome), trouble, outcome), changes)
<1>1. PICK changes \in BOOLEAN : changes = (node.connected # connected)
  OBVIOUS
<1>2. Fresh \in Nodes /\ Fresh.blade \in Blades /\ Sound(Fresh, Waiting(node))
  BY FreshFields DEF Nodes
<1>3. PICK released \in BOOLEAN : released = (Fresh.released /\ connected)
  BY <1>2 DEF Nodes
<1>4. PICK b \in Blades : b = IF changes THEN ForceOff(Fresh.blade) ELSE Fresh.blade
  BY <1>2, BladeTypes
<1>5. PICK state : state = [Fresh EXCEPT !.connected = connected, !.released = released,
                              !.emergency = emergency, !.blade = b]
  OBVIOUS
<1>6. PICK left : left = IF changes /\ ~connected THEN CancelPendingStarts(state) ELSE state
  OBVIOUS
<1>7. /\ state \in Nodes /\ state.connected = connected /\ state.blade = b
      /\ state.starts = Fresh.starts /\ state.replies = Fresh.replies
      /\ state.told = Fresh.told
  BY <1>2, <1>5 DEF Nodes
<1>8. Sound(state, Waiting(node))
  BY <1>2, <1>7, ListsUntouched
<1>9. Handler(DriveBlade(DriveSession(left, outcome), trouble, outcome), changes)
  BY <1>1, <1>3, <1>4, <1>5, <1>6, Zenon DEF MavrosState
<1>10. CASE changes /\ ~connected
  <2>1. left = CancelPendingStarts(state)
    BY <1>6, <1>10
  <2>2. Sound(left, Waiting(node))
    BY <1>8, <2>1, CancelSound
  <2>3. /\ left.starts = {} /\ left.told = Fresh.told \cup Refusals(Fresh.starts)
        /\ left.blade = b /\ left.replies = Fresh.replies /\ left.connected = connected
    BY <1>7, <2>1, CancelFields DEF SameRest, SameInputs
  <2>4. QED
    BY <1>1, <1>4, <1>9, <1>10, <2>2, <2>3
<1>11. CASE ~(changes /\ ~connected)
  <2>1. left = state
    BY <1>6, <1>11
  <2>2. QED
    BY <1>1, <1>4, <1>7, <1>8, <1>9, <1>11, <2>1
<1>12. QED
  BY <1>10, <1>11

LEMMA TimerStart ==
  ASSUME MowerInv, NEW outcome \in Outcomes, Timer(outcome)
  PROVE  \E trouble : Handler(DriveBlade(DriveSession(Fresh, outcome), trouble, outcome), FALSE)
<1>1. PICK trouble, driven, aged, timely, started, served, owned :
        /\ driven = DriveSession(Fresh, outcome)
        /\ aged = Aged(driven, trouble, outcome)
        /\ timely = Expired(aged, outcome)
        /\ started = ServeStarts(timely, trouble)
        /\ served = ServeReplies(ServeDeadline(started))
        /\ owned = Owned(served, outcome)
        /\ Handler(Dispatch(owned, trouble), FALSE)
  BY Zenon DEF Timer, Handler
<1>2. Dispatch(owned, trouble) = DriveBlade(DriveSession(Fresh, outcome), trouble, outcome)
  BY <1>1, Zenon DEF DriveBlade
<1>3. QED
  BY <1>1, <1>2

\* The safety inputs alone.
LEMMA InputsStart ==
  ASSUME MowerInv, NEW emergency \in BOOLEAN, NEW released \in BOOLEAN,
         NEW n, n = [Fresh EXCEPT !.emergency = emergency, !.released = released]
  PROVE  /\ Sound(n, Waiting(node)) /\ n \in Nodes
         /\ n.connected = Fresh.connected /\ n.motion = Fresh.motion
         /\ n.test = Fresh.test /\ n.session = Fresh.session /\ n.blade = Fresh.blade
         /\ n.starts = Fresh.starts /\ n.replies = Fresh.replies /\ n.told = Fresh.told
<1>1. Fresh \in Nodes
  BY FreshFields
<1>2. Sound(n, Waiting(node))
  BY SafetySound
<1>3. QED
  BY <1>1, <1>2 DEF Nodes, Sound

LEMMA ReleaseStart ==
  ASSUME MowerInv, NEW emergency \in BOOLEAN, NEW trouble, NEW outcome \in Outcomes,
         EmergencyReleased(emergency, trouble, outcome)
  PROVE  \E n : /\ Sound(n, Waiting(node)) /\ n.connected = Fresh.connected
                /\ n.blade = Fresh.blade /\ n.starts = Fresh.starts
                /\ n.replies = Fresh.replies /\ n.told = Fresh.told
                /\ Handler(DriveBlade(DriveSession(n, outcome), trouble, outcome), FALSE)
<1>1. PICK n : n = [Fresh EXCEPT !.emergency = emergency]
  OBVIOUS
<1>2. Sound(Fresh, Waiting(node)) /\ Fresh \in Nodes
  BY FreshFields
<1>3. /\ n.starts = Fresh.starts /\ n.replies = Fresh.replies /\ n.told = Fresh.told
      /\ n \in Nodes /\ n.connected = Fresh.connected /\ n.blade = Fresh.blade
  BY <1>1, <1>2 DEF Nodes
<1>4. Sound(n, Waiting(node))
  BY <1>2, <1>3, ListsUntouched
<1>5. Handler(DriveBlade(DriveSession(n, outcome), trouble, outcome), FALSE)
  BY <1>1 DEF EmergencyReleased
<1>6. QED
  BY <1>3, <1>4, <1>5

\* What happened to the blade controller before the drive.
LEMMA BladeStart ==
  ASSUME MowerInv, NEW trouble, NEW outcome \in Outcomes,
         \/ BladeObserved(trouble, outcome)
         \/ BladeSettles(trouble, outcome)
         \/ BladeRefuses(trouble, outcome)
         \/ BladeDisturbed(trouble, outcome)
  PROVE  \E n : /\ Sound(n, Waiting(node)) /\ OnlyBlade(Fresh, n)
                /\ \/ n.blade = Fresh.blade
                   \/ /\ ~Fresh.blade.failed
                      /\ n.blade = [Fresh.blade EXCEPT !.satisfied = TRUE]
                   \/ n.blade = Fail(Fresh.blade)
                   \/ n.blade = ForceOff(Fresh.blade)
                /\ Handler(DriveBlade(n, trouble, outcome), FALSE)
<1>1. Sound(Fresh, Waiting(node)) /\ Fresh \in Nodes /\ Fresh.blade \in Blades
  BY FreshFields DEF Nodes
<1>2. PICK settled : settled = [Fresh.blade EXCEPT !.satisfied = TRUE]
  OBVIOUS
<1>3. settled \in Blades /\ Fail(Fresh.blade) \in Blades /\ ForceOff(Fresh.blade) \in Blades
  BY <1>1, <1>2, BladeTypes DEF Blades
<1>4. ASSUME NEW b \in Blades, NEW n, n = [Fresh EXCEPT !.blade = b]
      PROVE  Sound(n, Waiting(node)) /\ OnlyBlade(Fresh, n) /\ n.blade = b
  BY <1>1, <1>4, BladeSound, BladeSet
<1>5. CASE BladeSettles(trouble, outcome)
  <2>1. PICK n : n = [Fresh EXCEPT !.blade = settled]
    OBVIOUS
  <2>2. n = [Fresh EXCEPT !.blade.satisfied = TRUE]
    BY <1>2, <2>1
  <2>3. Handler(DriveBlade(n, trouble, outcome), FALSE)
    BY <1>5, <2>2, Zenon DEF BladeSettles
  <2>4. ~Fresh.blade.failed
    BY <1>5, FreshFields DEF BladeSettles
  <2>5. Sound(n, Waiting(node)) /\ OnlyBlade(Fresh, n) /\ n.blade = settled
    BY <1>3, <1>4, <2>1
  <2>6. QED
    BY <1>2, <2>3, <2>4, <2>5
<1>6. CASE BladeRefuses(trouble, outcome)
  <2>1. PICK n : n = [Fresh EXCEPT !.blade = Fail(Fresh.blade)]
    OBVIOUS
  <2>2. Handler(DriveBlade(n, trouble, outcome), FALSE)
    BY <1>6, <2>1 DEF BladeRefuses
  <2>3. QED
    BY <1>3, <1>4, <2>1, <2>2
<1>7. CASE BladeDisturbed(trouble, outcome)
  <2>1. PICK n : n = [Fresh EXCEPT !.blade = ForceOff(Fresh.blade)]
    OBVIOUS
  <2>2. Handler(DriveBlade(n, trouble, outcome), FALSE)
    BY <1>7, <2>1 DEF BladeDisturbed
  <2>3. QED
    BY <1>3, <1>4, <2>1, <2>2
<1>8. CASE BladeObserved(trouble, outcome)
  <2>1. OnlyBlade(Fresh, Fresh)
    BY <1>1 DEF OnlyBlade, SameRest, SameInputs
  <2>2. QED
    BY <1>1, <1>8, <2>1 DEF BladeObserved
<1>9. QED
  BY <1>5, <1>6, <1>7, <1>8

LEMMA DeadlineStart ==
  ASSUME MowerInv, NEW caller \in Callers, DeadlinePasses(caller)
  PROVE  \E n :
           /\ Sound(n, Waiting(node)) /\ n \in Nodes /\ SameRest(Fresh, n)
           /\ n.blade = Fresh.blade /\ n.told = Fresh.told
           /\ Handler(n, FALSE)
           /\ (Fresh.starts # {} => n.starts # {})
           /\ \A s \in n.starts : \E e \in Fresh.starts :
                /\ s.caller = e.caller /\ s.direction = e.direction
                /\ e.late => s.late
           /\ \A r \in n.replies : \E e \in Fresh.replies :
                /\ r.caller = e.caller /\ r.direction = e.direction
                /\ r.revision = e.revision /\ (e.late => r.late)
<1> DEFINE F == [s \in node.starts |-> IF s.caller = caller THEN [s EXCEPT !.late = TRUE] ELSE s]
           G == [r \in node.replies |-> IF r.caller = caller THEN [r EXCEPT !.late = TRUE] ELSE r]
           S == {F[s] : s \in node.starts}
           R == {G[r] : r \in node.replies}
           m == [Fresh EXCEPT !.starts = S, !.replies = R]
<1>1. Sound(Fresh, Waiting(node))
  BY FreshSound
<1>2. /\ Fresh \in Nodes /\ Once(Fresh) /\ Held(Fresh) = Waiting(node)
      /\ Small(Fresh.starts) /\ Small(Fresh.replies)
      /\ Fresh.starts = node.starts /\ Fresh.replies = node.replies
  BY <1>1, FreshFields DEF Sound
<1>3. \A s \in node.starts : /\ F[s] \in Starts /\ F[s].caller = s.caller
                             /\ F[s].direction = s.direction /\ (s.late => F[s].late)
  <2> TAKE s \in node.starts
  <2>1. s \in Starts
    BY <1>2 DEF Nodes
  <2>2. PICK t : t = [s EXCEPT !.late = TRUE]
    OBVIOUS
  <2>3. /\ t \in Starts /\ t.caller = s.caller /\ t.direction = s.direction /\ t.late
    BY <2>1, <2>2 DEF Starts
  <2>4. F[s] = s \/ F[s] = t
    BY <2>2
  <2>5. QED
    BY <2>1, <2>3, <2>4
<1>4. \A r \in node.replies : /\ G[r] \in Replies /\ G[r].caller = r.caller
                              /\ G[r].direction = r.direction /\ G[r].revision = r.revision
                              /\ (r.late => G[r].late)
  <2> TAKE r \in node.replies
  <2>1. r \in Replies
    BY <1>2 DEF Nodes
  <2>2. PICK t : t = [r EXCEPT !.late = TRUE]
    OBVIOUS
  <2>3. /\ t \in Replies /\ t.caller = r.caller /\ t.direction = r.direction
        /\ t.revision = r.revision /\ t.late
    BY <2>1, <2>2 DEF Replies
  <2>4. G[r] = r \/ G[r] = t
    BY <2>2
  <2>5. QED
    BY <2>1, <2>3, <2>4
<1>5. DOMAIN F = node.starts /\ DOMAIN G = node.replies
  OBVIOUS
<1>6. Handler(m, FALSE)
  BY DEF DeadlinePasses
<1> HIDE DEF F, G
<1>7. /\ Distinct(node.starts) /\ IsFiniteSet(node.starts)
      /\ Distinct(node.replies) /\ IsFiniteSet(node.replies)
      /\ Cardinality(node.starts) \in Nat /\ Cardinality(node.replies) \in Nat
  BY <1>2, FS_CardinalityType DEF Once, Small
<1>8. /\ Distinct(S) /\ CallersOf(S) = CallersOf(node.starts)
      /\ IsFiniteSet(S) /\ Cardinality(S) \in Nat
      /\ Cardinality(S) <= Cardinality(node.starts)
  BY <1>3, <1>5, <1>7, Rewritten
<1>9. /\ Distinct(R) /\ CallersOf(R) = CallersOf(node.replies)
      /\ IsFiniteSet(R) /\ Cardinality(R) \in Nat
      /\ Cardinality(R) <= Cardinality(node.replies)
  BY <1>4, <1>5, <1>7, Rewritten
<1>10. S \subseteq Starts /\ R \subseteq Replies
  BY <1>3, <1>4
<1>17. \A s \in S : \E e \in Fresh.starts :
         s.caller = e.caller /\ s.direction = e.direction /\ (e.late => s.late)
  BY <1>2, <1>3
<1>18. \A r \in R : \E e \in Fresh.replies :
         /\ r.caller = e.caller /\ r.direction = e.direction
         /\ r.revision = e.revision /\ (e.late => r.late)
  BY <1>2, <1>4
<1>19. Fresh.starts # {} => S # {}
  BY <1>2
<1> HIDE DEF S, R, m
<1>11. /\ m.starts = S /\ m.replies = R /\ m.told = Fresh.told /\ m \in Nodes
       /\ SameRest(Fresh, m) /\ m.blade = Fresh.blade
  BY <1>2, <1>10 DEF Nodes, m, SameRest, SameInputs
<1>12. Once(m)
  BY <1>2, <1>8, <1>9, <1>11, OnceByCallers
<1>13. Held(m) = Waiting(node)
  BY <1>2, <1>8, <1>9, <1>11, HeldByCallers
<1>14. Small(m.starts) /\ Small(m.replies)
  BY <1>2, <1>7, <1>8, <1>9, <1>11, CapacityInNat DEF Small
<1>15. Sound(m, Waiting(node))
  BY <1>11, <1>12, <1>13, <1>14 DEF Sound
<1>16. QED
  BY <1>6, <1>11, <1>15, <1>17, <1>18, <1>19

-----------------------------------------------------------------------------
(* Every handler leaves the test with a reason. *)

ReasonInv == MowerInv /\ Reasoned(node)

\* What some handler left, before it is renumbered.
LEMMA ReasonedAfter ==
  ASSUME NEW after, after \in Nodes, Reasoned(after), node' = Renumbered(after)
  PROVE  Reasoned(node)'
<1>1. Reasoned(Renumbered(after))
  BY RenumberedReasoned
<1>2. QED
  BY <1>1 DEF Reasoned, Armed, Reason

LEMMA RequestReasoned ==
  ASSUME ReasonInv, NEW caller \in Callers, NEW d \in Demands,
         NEW trouble, NEW outcome \in Outcomes,
         MowerRequest(caller, d, trouble, outcome)
  PROVE  Reasoned(node)'
<1>1. MowerInv /\ Sound(Fresh, Waiting(node)) /\ caller \notin Waiting(node)
  BY FreshFields DEF MowerRequest, ReasonInv
<1>2. CASE d = "Off"
  <2>1. PICK after : after = TurnOff(Fresh, caller, trouble, outcome)
    OBVIOUS
  <2>2. after \in Nodes /\ Reasoned(after)
    BY <1>1, <2>1, TurnOffReasoned
  <2>3. node' = Renumbered(after)
    BY <1>2, <2>1 DEF MowerRequest, Request
  <2>4. QED
    BY <2>2, <2>3, ReasonedAfter
<1>3. CASE d # "Off"
  <2>1. d \in Rotations
    BY <1>3 DEF Demands
  <2>2. PICK driven : driven = Prepared(Fresh, d, trouble, outcome)
    OBVIOUS
  <2>3. Sound(driven, Waiting(node))
    BY <1>1, <2>2, PreparedSound
  <2>4. Reasoned(driven)
    <3>1. PICK same : same = IF \E s \in Fresh.starts : s.direction # d
                             THEN CancelPendingStarts(Fresh) ELSE Fresh
      OBVIOUS
    <3>2. Sound(same, Waiting(node))
      BY <1>1, <3>1, CancelSound
    <3>3. driven = DriveBlade(DriveSession(same, outcome), trouble, outcome)
      BY <2>2, <3>1 DEF Prepared
    <3>4. QED
      BY <3>2, <3>3, DrivesReasoned
  <2>5. PICK second \in SecondDrive(driven) :
          Request(caller, d, TurnOn(driven, caller, d, trouble, second))
    BY <1>3, <2>2, Zenon DEF MowerRequest
  <2>6. second \in Outcomes
    BY <2>3, <2>5, SecondDriveType DEF Sound
  <2>7. PICK after : after = TurnOn(driven, caller, d, trouble, second)
    OBVIOUS
  <2>8. after \in Nodes /\ Reasoned(after)
    BY <1>1, <2>1, <2>3, <2>4, <2>6, <2>7, TurnOnReasoned
  <2>9. node' = Renumbered(after)
    BY <2>5, <2>7 DEF Request
  <2>10. QED
    BY <2>8, <2>9, ReasonedAfter
<1>4. QED
  BY <1>2, <1>3

\* Timer, high-level status, connection and release end with both drives.
LEMMA DrivesAfter ==
  ASSUME NEW n, Sound(n, Waiting(node)), NEW trouble, NEW outcome \in Outcomes,
         NEW calledOff,
         Handler(DriveBlade(DriveSession(n, outcome), trouble, outcome), calledOff)
  PROVE  Reasoned(node)'
<1>1. PICK after : after = DriveBlade(DriveSession(n, outcome), trouble, outcome)
  OBVIOUS
<1>2. after \in Nodes /\ Reasoned(after)
  BY <1>1, DrivesReasoned
<1>3. node' = Renumbered(after)
  BY <1>1 DEF Handler
<1>4. QED
  BY <1>2, <1>3, ReasonedAfter

LEMMA BothDrivesReasoned ==
  ASSUME ReasonInv, NEW b \in BOOLEAN, NEW c \in BOOLEAN, NEW trouble,
         NEW outcome \in Outcomes,
         \/ Timer(outcome)
         \/ HighLevelStatus(b, trouble, outcome)
         \/ MavrosState(b, c, trouble, outcome)
         \/ EmergencyReleased(b, trouble, outcome)
  PROVE  Reasoned(node)'
<1>1. MowerInv
  BY DEF ReasonInv
<1>2. CASE Timer(outcome)
  <2>1. PICK t : Handler(DriveBlade(DriveSession(Fresh, outcome), t, outcome), FALSE)
    BY <1>1, <1>2, TimerStart
  <2>2. QED
    BY <1>1, <2>1, FreshFields, DrivesAfter
<1>3. CASE HighLevelStatus(b, trouble, outcome)
  <2>1. PICK ends, left :
          /\ Sound(left, Waiting(node))
          /\ Handler(DriveBlade(DriveSession(left, outcome), trouble, outcome), ends)
    BY <1>1, <1>3, StatusStart
  <2>2. QED
    BY <2>1, DrivesAfter
<1>4. CASE MavrosState(b, c, trouble, outcome)
  <2>1. PICK changes, left :
          /\ Sound(left, Waiting(node))
          /\ Handler(DriveBlade(DriveSession(left, outcome), trouble, outcome), changes)
    BY <1>1, <1>4, StateStart
  <2>2. QED
    BY <2>1, DrivesAfter
<1>5. CASE EmergencyReleased(b, trouble, outcome)
  <2>1. PICK n :
          /\ Sound(n, Waiting(node))
          /\ Handler(DriveBlade(DriveSession(n, outcome), trouble, outcome), FALSE)
    BY <1>1, <1>5, ReleaseStart
  <2>2. QED
    BY <2>1, DrivesAfter
<1>6. QED
  BY <1>2, <1>3, <1>4, <1>5

LEMMA VelocityReasoned ==
  ASSUME ReasonInv, NEW outcome \in Outcomes, CommandVelocity(outcome)
  PROVE  Reasoned(node)'
<1>1. PICK after : after = DriveSession(Fresh, outcome)
  OBVIOUS
<1>2. Fresh \in Nodes /\ (Fresh.test /\ ~Fresh.motion => Reason(Fresh))
  BY FreshFields DEF ReasonInv, Reasoned, Reason, SameRest, SameInputs
<1>3. after \in Nodes /\ Reasoned(after)
  BY <1>1, <1>2, DriveSessionReasoned
<1>4. node' = Renumbered(after)
  BY <1>1 DEF CommandVelocity, Handler
<1>5. QED
  BY <1>3, <1>4, ReasonedAfter

LEMMA BladeReasoned ==
  ASSUME ReasonInv, NEW trouble, NEW outcome \in Outcomes,
         \/ BladeObserved(trouble, outcome)
         \/ BladeSettles(trouble, outcome)
         \/ BladeRefuses(trouble, outcome)
         \/ BladeDisturbed(trouble, outcome)
  PROVE  Reasoned(node)'
<1>1. PICK n : /\ Sound(n, Waiting(node)) /\ OnlyBlade(Fresh, n)
               /\ Handler(DriveBlade(n, trouble, outcome), FALSE)
  BY BladeStart DEF ReasonInv
<1>2. Armed(Fresh)
  BY FreshFields, ArmedSame DEF ReasonInv, Reasoned
<1>3. Armed(n)
  BY <1>1, <1>2, ArmedSame DEF OnlyBlade
<1>4. PICK after : after = DriveBlade(n, trouble, outcome)
  OBVIOUS
<1>5. after \in Nodes /\ Reasoned(after)
  BY <1>1, <1>3, <1>4, DriveBladeReasoned
<1>6. node' = Renumbered(after)
  BY <1>1, <1>4 DEF Handler
<1>7. QED
  BY <1>5, <1>6, ReasonedAfter

LEMMA SafetyReasoned ==
  ASSUME ReasonInv, NEW emergency \in BOOLEAN, NEW released \in BOOLEAN,
         NEW trouble, NEW outcome \in Outcomes,
         \/ SafetyRequest(released, trouble, outcome)
         \/ SafetyInput(emergency, released)
  PROVE  Reasoned(node)'
<1>1. MowerInv /\ Reasoned(Fresh)
  BY FreshFields, ReasonedSame DEF ReasonInv
<1>2. CASE SafetyRequest(released, trouble, outcome)
  <2>1. PICK e \in BOOLEAN : e = TRUE
    OBVIOUS
  <2>2. PICK n : n = [Fresh EXCEPT !.emergency = e, !.released = released]
    OBVIOUS
  <2>3. Sound(n, Waiting(node))
    BY <1>1, <2>2, InputsStart
  <2>4. PICK after : after = SafetyDisarm(n, trouble, outcome)
    OBVIOUS
  <2>5. after \in Nodes /\ Reasoned(after)
    BY <2>3, <2>4, SafetyDisarmReasoned
  <2>6. node' = Renumbered(after)
    BY <1>2, <2>1, <2>2, <2>4 DEF SafetyRequest, Handler
  <2>7. QED
    BY <2>5, <2>6, ReasonedAfter
<1>3. CASE SafetyInput(emergency, released)
  <2>1. PICK n : n = [Fresh EXCEPT !.emergency = emergency, !.released = released]
    OBVIOUS
  <2>2. /\ n \in Nodes /\ n.motion = Fresh.motion /\ n.test = Fresh.test
        /\ n.session = Fresh.session /\ n.blade = Fresh.blade /\ n.starts = Fresh.starts
    BY <1>1, <2>1, InputsStart
  <2>3. Reasoned(n)
    BY <1>1, <2>2 DEF Reasoned, Armed, Reason
  <2>4. node' = Renumbered(n)
    BY <1>3, <2>1 DEF SafetyInput, Handler
  <2>5. QED
    BY <2>2, <2>3, <2>4, ReasonedAfter
<1>4. QED
  BY <1>2, <1>3

LEMMA DeadlineReasoned ==
  ASSUME ReasonInv, NEW caller \in Callers, DeadlinePasses(caller)
  PROVE  Reasoned(node)'
<1>1. PICK n : /\ n \in Nodes /\ SameRest(Fresh, n)
               /\ n.blade = Fresh.blade /\ Handler(n, FALSE)
               /\ (Fresh.starts # {} => n.starts # {})
  BY DeadlineStart DEF ReasonInv
<1>2. Reasoned(Fresh)
  BY FreshFields, ReasonedSame DEF ReasonInv
<1>3. Reasoned(n)
  BY <1>1, <1>2 DEF Reasoned, Armed, Reason, SameRest, SameInputs
<1>4. node' = Renumbered(n)
  BY <1>1 DEF Handler
<1>5. QED
  BY <1>1, <1>3, <1>4, ReasonedAfter

LEMMA NextReasoned == ReasonInv /\ [Next]_vars => ReasonInv'
<1> SUFFICES ASSUME ReasonInv, [Next]_vars PROVE ReasonInv'
  OBVIOUS
<1>1. SessionOutcomes \subseteq Outcomes
  BY MowerControlAssumption DEF Outcomes
<1>2. ASSUME NEW c \in Callers, DeadlinePasses(c) PROVE Reasoned(node)'
  BY <1>2, DeadlineReasoned
<1>3. ASSUME NEW e \in BOOLEAN, NEW r \in BOOLEAN, SafetyInput(e, r) PROVE Reasoned(node)'
  <2>1. PICK o \in Outcomes : o = [broken |-> FALSE, ready |-> FALSE, failed |-> FALSE]
    BY DEF Outcomes
  <2>2. QED
    BY <1>3, <2>1, SafetyReasoned
<1>4. ASSUME NEW o \in SessionOutcomes, CommandVelocity(o) \/ Timer(o)
      PROVE  Reasoned(node)'
  <2>1. o \in Outcomes
    BY <1>1
  <2>2. CASE CommandVelocity(o)
    BY <2>1, <2>2, VelocityReasoned
  <2>3. CASE Timer(o)
    <3>1. PICK b \in BOOLEAN : b = FALSE
      OBVIOUS
    <3>2. QED
      BY <2>1, <2>3, <3>1, BothDrivesReasoned
  <2>4. QED
    BY <1>4, <2>2, <2>3
<1>5. ASSUME NEW o \in SessionOutcomes, NEW t \in Troubles,
             \/ BladeObserved(t, o) \/ BladeSettles(t, o)
             \/ BladeRefuses(t, o) \/ BladeDisturbed(t, o)
      PROVE  Reasoned(node)'
  BY <1>1, <1>5, BladeReasoned
<1>6. ASSUME NEW o \in SessionOutcomes, NEW t \in Troubles, NEW c \in Callers,
             NEW d \in Demands, MowerRequest(c, d, t, o)
      PROVE  Reasoned(node)'
  BY <1>1, <1>6, RequestReasoned
<1>7. ASSUME NEW o \in SessionOutcomes, NEW t \in Troubles, NEW b \in BOOLEAN,
             \/ HighLevelStatus(b, t, o) \/ SafetyRequest(b, t, o)
             \/ EmergencyReleased(b, t, o)
      PROVE  Reasoned(node)'
  BY <1>1, <1>7, BothDrivesReasoned, SafetyReasoned
<1>8. ASSUME NEW o \in SessionOutcomes, NEW t \in Troubles, NEW l \in BOOLEAN,
             NEW e \in BOOLEAN, MavrosState(l, e, t, o)
      PROVE  Reasoned(node)'
  BY <1>1, <1>8, BothDrivesReasoned
<1>9. ASSUME UNCHANGED vars PROVE Reasoned(node)'
  BY <1>9 DEF vars, ReasonInv, Reasoned, Armed, Reason
<1>10. Reasoned(node)'
  BY <1>2, <1>3, <1>4, <1>5, <1>6, <1>7, <1>8, <1>9 DEF Next
<1>11. MowerInv'
  BY NextInv DEF ReasonInv
<1>12. QED
  BY <1>10, <1>11 DEF ReasonInv

THEOREM ReasonInvariance == Spec => []ReasonInv
<1>1. Init => ReasonInv
  <2>1. Init => Reasoned(node)
    BY DEF Init, Reasoned, Armed
  <2>2. QED
    BY <2>1, InitInv DEF ReasonInv
<1>2. QED
  BY <1>1, NextReasoned, PTL DEF Spec

\* The temporary arming of an isolated blade test (blade_test_active_) never outlives its
\* reason: whatever the order of requests, refusals, deadlines, drops of the link and failures,
\* an armed session without movement means that somebody waits for it, that the blade is
\* demanded ON, or that its failure is still to be noticed.
THEOREM TestsHaveReasons == Spec => []TestHasReason
<1>1. ReasonInv => TestHasReason
  BY DEF ReasonInv, MowerInv, Sound, Nodes, Sessions, Blades, Reasoned, Armed, Reason,
         TestHasReason
<1>2. QED
  BY <1>1, ReasonInvariance, PTL

-----------------------------------------------------------------------------
(* Who asked for what, and who can no longer succeed.  ask[c] is what caller c *)
(* asked; X are callers who must not succeed: called off, or past their        *)
(* deadline.                                                                   *)

\* A blade state some step leads to.
Newer(b, c) ==
  \/ c.revision > b.revision
  \/ c.revision = b.revision /\ c.requested = b.requested

SafeBlade(b, connected) ==
  /\ b.failed => b.requested = "Off"
  /\ ~connected => b.requested = "Off"

GoodStart(s, ask, X) == s.direction = ask[s.caller] /\ (s.caller \in X => s.late)

GoodReply(r, b, ask, X) ==
  /\ r.direction = ask[r.caller]
  /\ r.revision <= b.revision
  /\ r.revision = b.revision => r.direction = b.requested
  /\ r.caller \in X => r.late \/ r.revision < b.revision

GoodAnswer(t, ask, X) == t.direction = ask[t.caller] /\ (t.success => t.caller \notin X)

Orderly(n, ask, X) ==
  /\ SafeBlade(n.blade, n.connected)
  /\ ~n.connected => n.starts = {}
  /\ \A s, u \in n.starts : s.direction = u.direction
  /\ \A s \in n.starts : GoodStart(s, ask, X)
  /\ \A r \in n.replies : GoodReply(r, n.blade, ask, X)
  /\ \A t \in n.told : GoodAnswer(t, ask, X)

\* What the drives keep.
Leads(n, m, ask, X) ==
  /\ m \in Nodes /\ Orderly(m, ask, X)
  /\ m.starts \subseteq n.starts /\ m.connected = n.connected

LEMMA GoodReplyKept ==
  ASSUME NEW b \in Blades, NEW c \in Blades, Newer(b, c), NEW r \in Replies,
         NEW ask, NEW X, GoodReply(r, b, ask, X)
  PROVE  GoodReply(r, c, ask, X)
<1>1. r.revision \in Int /\ b.revision \in Int /\ c.revision \in Int
  BY DEF Replies, Blades
<1>2. QED
  BY <1>1 DEF Newer, GoodReply

LEMMA OrderlyStep ==
  ASSUME NEW n \in Nodes, NEW ask, NEW X, Orderly(n, ask, X), NEW m \in Nodes,
         m.starts \subseteq n.starts, m.replies \subseteq n.replies,
         m.connected = n.connected, Newer(n.blade, m.blade),
         SafeBlade(m.blade, m.connected),
         \A t \in m.told : t \in n.told \/ GoodAnswer(t, ask, X)
  PROVE  Leads(n, m, ask, X)
<1>1. n.blade \in Blades /\ m.blade \in Blades /\ n.replies \subseteq Replies
  BY DEF Nodes
<1>2. ASSUME NEW r \in m.replies PROVE GoodReply(r, m.blade, ask, X)
  <2>1. r \in Replies /\ GoodReply(r, n.blade, ask, X)
    BY <1>1 DEF Orderly
  <2>2. QED
    BY <1>1, <2>1, GoodReplyKept
<1>3. Orderly(m, ask, X)
  BY <1>2 DEF Orderly
<1>4. QED
  BY <1>3 DEF Leads

LEMMA LeadsOn ==
  ASSUME NEW n, NEW m, NEW l, NEW ask, NEW X, Leads(n, m, ask, X), Leads(m, l, ask, X)
  PROVE  Leads(n, l, ask, X)
  BY DEF Leads

LEMMA LeadsSame ==
  ASSUME NEW n \in Nodes, NEW ask, NEW X, Orderly(n, ask, X)
  PROVE  Leads(n, n, ask, X)
  BY DEF Leads

LEMMA RefusalsGood ==
  ASSUME NEW n, NEW ask, NEW X, Orderly(n, ask, X), NEW lost \in SUBSET n.starts,
         NEW t \in Refusals(lost)
  PROVE  GoodAnswer(t, ask, X)
<1>1. PICK s \in lost : t.caller = s.caller /\ t.direction = s.direction /\ ~t.success
  BY RefusalFields
<1>2. GoodStart(s, ask, X)
  BY DEF Orderly
<1>3. QED
  BY <1>1, <1>2 DEF GoodStart, GoodAnswer

\* Every step of the blade controller makes its state newer, and keeps it safe.
LEMMA BladeStepsNewer ==
  ASSUME NEW b \in Blades, NEW connected, SafeBlade(b, connected),
         NEW allowed \in BOOLEAN, NEW trouble
  PROVE  /\ Newer(b, ForceOff(b)) /\ SafeBlade(ForceOff(b), connected)
         /\ Newer(b, Fail(b)) /\ SafeBlade(Fail(b), connected)
         /\ Newer(b, Permission(b, allowed)) /\ SafeBlade(Permission(b, allowed), connected)
         /\ Newer(b, Ticked(b, trouble)) /\ SafeBlade(Ticked(b, trouble), connected)
<1>0. b.revision \in Int
  BY DEF Blades
<1>1. Newer(b, ForceOff(b)) /\ SafeBlade(ForceOff(b), connected)
  <2>1. PICK c : c = ForceOff(b)
    OBVIOUS
  <2>2. c.requested = "Off" /\ c.revision = b.revision + 1
    BY <2>1, ForceOffFields
  <2>3. Newer(b, c) /\ SafeBlade(c, connected)
    BY <1>0, <2>2 DEF Newer, SafeBlade
  <2>4. QED
    BY <2>1, <2>3
<1>2. Newer(b, Fail(b)) /\ SafeBlade(Fail(b), connected)
  <2>1. PICK c : c = Fail(b)
    OBVIOUS
  <2>2. c.requested = "Off" /\ c.revision = b.revision + 1
    BY <2>1, FailFields
  <2>3. Newer(b, c) /\ SafeBlade(c, connected)
    BY <1>0, <2>2 DEF Newer, SafeBlade
  <2>4. QED
    BY <2>1, <2>3
<1>3. Newer(b, Permission(b, allowed)) /\ SafeBlade(Permission(b, allowed), connected)
  <2>1. PICK c : c = Permission(b, allowed)
    OBVIOUS
  <2>2. \/ /\ c.requested = b.requested /\ c.failed = b.failed /\ c.revision = b.revision
        \/ c.requested = "Off" /\ c.revision = b.revision + 1
    BY <2>1, PermissionFields
  <2>3. Newer(b, c) /\ SafeBlade(c, connected)
    BY <1>0, <2>2 DEF Newer, SafeBlade
  <2>4. QED
    BY <2>1, <2>3
<1>4. Newer(b, Ticked(b, trouble)) /\ SafeBlade(Ticked(b, trouble), connected)
  <2>1. Ticked(b, trouble) = b \/ Ticked(b, trouble) = Fail(b)
    BY DEF Ticked
  <2>2. Newer(b, b)
    BY DEF Newer
  <2>3. QED
    BY <1>2, <2>1, <2>2
<1>5. QED
  BY <1>1, <1>2, <1>3, <1>4

LEMMA NewerOn ==
  ASSUME NEW a \in Blades, NEW b \in Blades, NEW c \in Blades, Newer(a, b), Newer(b, c)
  PROVE  Newer(a, c)
<1>1. a.revision \in Int /\ b.revision \in Int /\ c.revision \in Int
  BY DEF Blades
<1>2. QED
  BY <1>1 DEF Newer

\* A new blade state and nothing else.
LEMMA OnlyBladeLeads ==
  ASSUME NEW n \in Nodes, NEW ask, NEW X, Orderly(n, ask, X), NEW m, OnlyBlade(n, m),
         Newer(n.blade, m.blade), SafeBlade(m.blade, n.connected)
  PROVE  Leads(n, m, ask, X)
<1>1. /\ m \in Nodes /\ m.connected = n.connected /\ m.starts = n.starts
      /\ m.replies = n.replies /\ m.told = n.told
  BY DEF OnlyBlade, SameRest, SameInputs
<1>2. QED
  BY <1>1, OrderlyStep

LEMMA EndedLeads ==
  ASSUME NEW n \in Nodes, NEW ask, NEW X, Orderly(n, ask, X), NEW m, Ended(n, m)
  PROVE  Leads(n, m, ask, X)
<1>1. n.blade \in Blades /\ SafeBlade(n.blade, n.connected)
  BY DEF Nodes, Orderly
<1>2. Newer(n.blade, m.blade) /\ SafeBlade(m.blade, n.connected)
  BY <1>1, BladeStepsNewer DEF Ended
<1>3. \A t \in m.told : t \in n.told \/ GoodAnswer(t, ask, X)
  BY RefusalsGood DEF Ended
<1>4. /\ m \in Nodes /\ m.starts \subseteq n.starts /\ m.replies \subseteq n.replies
      /\ m.connected = n.connected
  BY DEF Ended, SameInputs
<1>5. QED
  BY <1>2, <1>3, <1>4, OrderlyStep

LEMMA EndIfLeads ==
  ASSUME NEW n \in Nodes, NEW ask, NEW X, Orderly(n, ask, X), NEW outcome \in Outcomes,
         NEW condition, NEW m, m = EndIf(condition, n, outcome)
  PROVE  Leads(n, m, ask, X)
<1>1. m = n \/ Ended(n, m)
  BY EndIfFields
<1>2. QED
  BY <1>1, EndedLeads, LeadsSame

LEMMA EndTestLeads ==
  ASSUME NEW n \in Nodes, NEW ask, NEW X, Orderly(n, ask, X), NEW outcome \in Outcomes,
         NEW m, m = EndFailedBladeTest(n, outcome)
  PROVE  Leads(n, m, ask, X)
<1>1. m = n \/ Ended(n, m)
  BY EndTestFields
<1>2. QED
  BY <1>1, EndedLeads, LeadsSame

LEMMA DriveSessionLeads ==
  ASSUME NEW n \in Nodes, NEW ask, NEW X, Orderly(n, ask, X), NEW outcome \in Outcomes,
         NEW d, d = DriveSession(n, outcome)
  PROVE  Leads(n, d, ask, X)
<1>1. PICK m : /\ Steered(n, outcome, m)
               /\ d = m \/ Ended(m, d)
  BY DriveSessionFields
<1>2. Leads(n, m, ask, X)
  <2>1. /\ m \in Nodes /\ m.connected = n.connected /\ m.starts = n.starts
        /\ m.replies = n.replies /\ m.told = n.told /\ m.blade = n.blade
    BY <1>1 DEF Steered, SameInputs
  <2>2. SafeBlade(n.blade, n.connected) /\ Newer(n.blade, n.blade)
    BY DEF Orderly, Newer
  <2>3. QED
    BY <2>1, <2>2, OrderlyStep
<1>3. m \in Nodes /\ Orderly(m, ask, X)
  BY <1>2 DEF Leads
<1>4. Leads(m, d, ask, X)
  BY <1>1, <1>3, EndedLeads, LeadsSame
<1>5. QED
  BY <1>2, <1>4, LeadsOn

LEMMA AgedLeads ==
  ASSUME NEW n \in Nodes, NEW ask, NEW X, Orderly(n, ask, X), NEW trouble,
         NEW outcome \in Outcomes, NEW d, d = Aged(n, trouble, outcome)
  PROVE  Leads(n, d, ask, X)
<1>1. PICK alive, b :
        /\ alive = n \/ Ended(n, alive)
        /\ b = Permission(alive.blade, BladeAllowed(alive, trouble))
        /\ OnlyBlade(alive, d) /\ d.blade = Ticked(b, trouble)
  BY AgedFields
<1>2. Leads(n, alive, ask, X)
  BY <1>1, EndedLeads, LeadsSame
<1>3. /\ alive \in Nodes /\ Orderly(alive, ask, X) /\ alive.blade \in Blades
      /\ SafeBlade(alive.blade, alive.connected)
  BY <1>2 DEF Leads, Orderly, Nodes
<1>4. PICK allowed \in BOOLEAN : allowed = BladeAllowed(alive, trouble)
  BY DEF BladeAllowed
<1>5. b = Permission(alive.blade, allowed)
  BY <1>1, <1>4
<1>6. b \in Blades /\ Newer(alive.blade, b) /\ SafeBlade(b, alive.connected)
  BY <1>3, <1>5, BladeTypes, BladeStepsNewer
<1>7. d.blade \in Blades /\ Newer(b, d.blade) /\ SafeBlade(d.blade, alive.connected)
  BY <1>1, <1>6, BladeTypes, BladeStepsNewer
<1>8. Newer(alive.blade, d.blade)
  BY <1>3, <1>6, <1>7, NewerOn
<1>9. Leads(alive, d, ask, X)
  BY <1>1, <1>3, <1>7, <1>8, OnlyBladeLeads
<1>10. QED
  BY <1>2, <1>9, LeadsOn

LEMMA RefuseLostLeads ==
  ASSUME NEW n \in Nodes, NEW ask, NEW X, Orderly(n, ask, X), NEW m, m = RefuseLost(n)
  PROVE  Leads(n, m, ask, X)
<1>1. PICK lost \in SUBSET n.starts : lost = {s \in n.starts : Lost(n, s)}
  OBVIOUS
<1>2. /\ m \in Nodes /\ SameRest(n, m) /\ m.blade = n.blade /\ m.replies = n.replies
      /\ m.starts \subseteq n.starts /\ m.told = n.told \cup Refusals(lost)
  BY <1>1, RefuseLostFields
<1>3. \A t \in m.told : t \in n.told \/ GoodAnswer(t, ask, X)
  BY <1>2, RefusalsGood
<1>4. SafeBlade(n.blade, n.connected) /\ Newer(n.blade, n.blade)
  BY DEF Orderly, Newer
<1>5. QED
  BY <1>2, <1>3, <1>4, OrderlyStep DEF SameRest, SameInputs

LEMMA FailedLeads ==
  ASSUME NEW n \in Nodes, NEW ask, NEW X, Orderly(n, ask, X),
         NEW m, OnlyBlade(n, m), m.blade = Fail(n.blade)
  PROVE  Leads(n, m, ask, X)
<1>1. n.blade \in Blades /\ SafeBlade(n.blade, n.connected)
  BY DEF Nodes, Orderly
<1>2. QED
  BY <1>1, BladeStepsNewer, OnlyBladeLeads

LEMMA RequestedNewer ==
  ASSUME NEW n \in Nodes, SafeBlade(n.blade, n.connected), NEW d \in Demands, NEW trouble,
         NEW b, b = Requested(n, d, trouble)
  PROVE  /\ b \in Blades /\ Newer(n.blade, b) /\ SafeBlade(b, n.connected)
         /\ RequestResult(n, d, trouble) # "Rejected" => b.requested = d
<1>1. /\ b \in Blades /\ b.failed = n.blade.failed
      /\ \/ b = n.blade /\ (RequestResult(n, d, trouble) = "Rejected" \/ d = n.blade.requested)
         \/ /\ RequestResult(n, d, trouble) # "Rejected" /\ d # n.blade.requested
            /\ b.requested = d /\ ~b.satisfied /\ b.revision = n.blade.revision + 1
  BY RequestedFields
<1>2. n.blade \in Blades /\ n.blade.revision \in Int
  BY DEF Nodes, Blades
<1>3. RequestResult(n, d, trouble) # "Rejected" => n.connected /\ ~n.blade.failed
  BY DEF RequestResult
<1>4. QED
  BY <1>1, <1>2, <1>3 DEF Newer, SafeBlade

\* Entries that are queued for, or answered by, a decision that is theirs.
LEMMA PushedOrderly ==
  ASSUME NEW n \in Nodes, NEW ask, NEW X, Orderly(n, ask, X), NEW d, NEW result,
         result = "Pending" => n.blade.requested = d,
         NEW entries, \A e \in entries : ask[e.caller] = d /\ e.caller \notin X,
         NEW m, Pushed(n, entries, d, result, m)
  PROVE  Leads(n, m, ask, X)
<1>1. /\ m \in Nodes /\ m.connected = n.connected /\ m.blade = n.blade
      /\ m.starts = n.starts
  BY DEF Pushed, SameRest, SameInputs
<1>2. n.blade.revision \in Int
  BY DEF Nodes, Blades
<1>3. ASSUME NEW r \in m.replies PROVE GoodReply(r, m.blade, ask, X)
  <2>1. CASE r \in n.replies
    BY <1>1, <2>1 DEF Orderly
  <2>2. CASE r \notin n.replies
    <3>1. PICK e \in entries : /\ result = "Pending"
                             /\ r.caller = e.caller /\ r.direction = d
                             /\ r.revision = n.blade.revision
      BY <2>2 DEF Pushed
    <3>2. QED
      BY <1>1, <1>2, <3>1 DEF GoodReply
  <2>3. QED
    BY <2>1, <2>2
<1>4. ASSUME NEW t \in m.told PROVE GoodAnswer(t, ask, X)
  BY DEF Pushed, GoodAnswer, Orderly
<1>5. Orderly(m, ask, X)
  BY <1>1, <1>3, <1>4 DEF Orderly
<1>6. QED
  BY <1>1, <1>5 DEF Leads

LEMMA RequestStartsLeads ==
  ASSUME NEW held, NEW n, Sound(n, held), n.starts # {}, \A s \in n.starts : ~s.late,
         NEW ask, NEW X, Orderly(n, ask, X), NEW trouble,
         NEW m, m = RequestStarts(n, trouble)
  PROVE  Leads(n, m, ask, X)
<1>1. PICK s, taken :
        /\ s \in n.starts
        /\ OnlyBlade([n EXCEPT !.starts = {}], taken) /\ s.direction \in Demands
        /\ taken.blade = Requested(n, s.direction, trouble)
        /\ Pushed(taken, n.starts, s.direction,
                  RequestResult(n, s.direction, trouble), m)
  BY RequestStartsFields
<1>2. n \in Nodes /\ SafeBlade(n.blade, n.connected)
  BY DEF Sound, Orderly
<1>3. PICK bare : bare = [n EXCEPT !.starts = {}]
  OBVIOUS
<1>4. /\ bare.connected = n.connected /\ bare.replies = n.replies /\ bare.told = n.told
      /\ bare.starts = {}
  BY <1>2, <1>3 DEF Nodes
<1>5. OnlyBlade(bare, taken)
  BY <1>1, <1>3
<1>6. /\ taken \in Nodes /\ taken.connected = n.connected /\ taken.replies = n.replies
      /\ taken.told = n.told /\ taken.starts = {}
  BY <1>4, <1>5 DEF OnlyBlade, SameRest, SameInputs
<1>7. /\ Newer(n.blade, taken.blade) /\ SafeBlade(taken.blade, n.connected)
      /\ RequestResult(n, s.direction, trouble) # "Rejected"
           => taken.blade.requested = s.direction
  BY <1>1, <1>2, RequestedNewer
<1>8. Leads(n, taken, ask, X)
  BY <1>2, <1>6, <1>7, OrderlyStep
<1>9. \A e \in n.starts : ask[e.caller] = s.direction /\ e.caller \notin X
  BY <1>1 DEF Orderly, GoodStart
<1>10. Leads(taken, m, ask, X)
  <2>1. taken \in Nodes /\ Orderly(taken, ask, X)
    BY <1>8 DEF Leads
  <2>2. RequestResult(n, s.direction, trouble) = "Pending"
          => taken.blade.requested = s.direction
    BY <1>7
  <2>3. QED
    BY <1>1, <1>9, <2>1, <2>2, PushedOrderly
<1>11. QED
  BY <1>8, <1>10, LeadsOn

LEMMA ServeStartsLeads ==
  ASSUME NEW held, NEW n, Sound(n, held), NEW ask, NEW X, Orderly(n, ask, X),
         NEW trouble, NEW m, m = ServeStarts(n, trouble)
  PROVE  Leads(n, m, ask, X)
<1>1. PICK left : /\ left = RefuseLost(n) /\ Sound(left, held)
                  /\ \/ m = left
                     \/ left.starts # {} /\ m = RequestStarts(left, trouble)
  BY ServeStartsFields
<1>2. n \in Nodes
  BY DEF Sound
<1>3. Leads(n, left, ask, X)
  BY <1>1, <1>2, RefuseLostLeads
<1>4. left \in Nodes /\ Orderly(left, ask, X)
  BY <1>3 DEF Leads
<1>5. \A s \in left.starts : ~s.late
  BY <1>1, <1>2, RefuseLostFields DEF Lost
<1>6. Leads(left, m, ask, X)
  BY <1>1, <1>4, <1>5, RequestStartsLeads, LeadsSame
<1>7. QED
  BY <1>3, <1>6, LeadsOn

LEMMA ServeRepliesLeads ==
  ASSUME NEW held, NEW n, Sound(n, held), NEW ask, NEW X, Orderly(n, ask, X),
         NEW m, m = ServeReplies(n)
  PROVE  Leads(n, m, ask, X)
<1>1. /\ m \in Nodes /\ SameRest(n, m) /\ m.blade = n.blade /\ m.starts = n.starts
      /\ m.replies \subseteq n.replies
      /\ \A t \in m.told :
           \/ t \in n.told
           \/ \E r \in n.replies : /\ t.caller = r.caller /\ t.direction = r.direction
                                   /\ t.success => Valid(n, r) /\ n.blade.satisfied
  BY ServeRepliesFields
<1>2. n \in Nodes /\ n.blade.revision \in Int
  BY DEF Sound, Nodes, Blades
<1>3. ASSUME NEW t \in m.told, t \notin n.told PROVE GoodAnswer(t, ask, X)
  <2>1. PICK r \in n.replies : /\ t.caller = r.caller /\ t.direction = r.direction
                               /\ t.success => Valid(n, r)
    BY <1>1, <1>3
  <2>2. GoodReply(r, n.blade, ask, X)
    BY DEF Orderly
  <2>3. QED
    BY <1>2, <2>1, <2>2 DEF GoodReply, GoodAnswer, Valid
<1>4. SafeBlade(n.blade, n.connected) /\ Newer(n.blade, n.blade)
  BY DEF Orderly, Newer
<1>5. QED
  BY <1>1, <1>2, <1>3, <1>4, OrderlyStep DEF SameRest, SameInputs

LEMMA DriveBladeLeads ==
  ASSUME NEW held, NEW n, Sound(n, held), NEW ask, NEW X, Orderly(n, ask, X),
         NEW trouble, NEW outcome \in Outcomes, NEW d, d = DriveBlade(n, trouble, outcome)
  PROVE  Leads(n, d, ask, X)
<1>1. PICK aged : aged = Aged(n, trouble, outcome)
  OBVIOUS
<1>2. PICK timely : timely = Expired(aged, outcome)
  OBVIOUS
<1>3. PICK started : started = ServeStarts(timely, trouble)
  OBVIOUS
<1>4. PICK expired : expired = ServeDeadline(started)
  OBVIOUS
<1>5. PICK served : served = ServeReplies(expired)
  OBVIOUS
<1>6. PICK owned : owned = Owned(served, outcome)
  OBVIOUS
<1>7. d = Dispatch(owned, trouble)
  BY <1>1, <1>2, <1>3, <1>4, <1>5, <1>6 DEF DriveBlade
<1>8. /\ Sound(timely, held) /\ Sound(started, held) /\ Sound(expired, held)
      /\ n \in Nodes
  BY <1>1, <1>2, <1>3, <1>4, AgedSound, StagesSound, ServeStartsSound, ServeDeadlineSound
     DEF Sound
<1>9. Leads(n, aged, ask, X)
  BY <1>1, <1>8, AgedLeads
<1>10. Leads(aged, timely, ask, X)
  <2>1. aged \in Nodes /\ Orderly(aged, ask, X)
    BY <1>9 DEF Leads
  <2>2. QED
    BY <1>2, <2>1, EndIfLeads DEF Expired
<1>11. Leads(timely, started, ask, X)
  BY <1>3, <1>8, <1>10, ServeStartsLeads DEF Leads
<1>12. Leads(started, expired, ask, X)
  <2>1. started \in Nodes /\ Orderly(started, ask, X)
    BY <1>11 DEF Leads
  <2>2. expired = started \/ (OnlyBlade(started, expired) /\ expired.blade = Fail(started.blade))
    BY <1>4, <2>1, ServeDeadlineFields
  <2>3. QED
    BY <2>1, <2>2, FailedLeads, LeadsSame
<1>13. Leads(expired, served, ask, X)
  BY <1>5, <1>8, <1>12, ServeRepliesLeads DEF Leads
<1>14. Leads(served, owned, ask, X)
  <2>1. served \in Nodes /\ Orderly(served, ask, X)
    BY <1>13 DEF Leads
  <2>2. QED
    BY <1>6, <2>1, EndIfLeads DEF Owned
<1>15. Leads(owned, d, ask, X)
  <2>1. owned \in Nodes /\ Orderly(owned, ask, X)
    BY <1>14 DEF Leads
  <2>2. d = owned \/ (OnlyBlade(owned, d) /\ d.blade = Fail(owned.blade))
    BY <1>7, <2>1, DispatchFields
  <2>3. QED
    BY <2>1, <2>2, FailedLeads, LeadsSame
<1>16. QED
  BY <1>9, <1>10, <1>11, <1>12, <1>13, <1>14, <1>15, LeadsOn

\* Both drives in a row.
LEMMA DrivesLead ==
  ASSUME NEW held, NEW n, Sound(n, held), NEW ask, NEW X, Orderly(n, ask, X),
         NEW trouble, NEW outcome \in Outcomes,
         NEW d, d = DriveBlade(DriveSession(n, outcome), trouble, outcome)
  PROVE  Leads(n, d, ask, X)
<1>1. PICK m : m = DriveSession(n, outcome)
  OBVIOUS
<1>2. Sound(m, held) /\ Leads(n, m, ask, X)
  BY <1>1, DriveSessionSound, DriveSessionLeads DEF Sound
<1>3. Leads(m, d, ask, X)
  BY <1>1, <1>2, DriveBladeLeads DEF Leads
<1>4. QED
  BY <1>2, <1>3, LeadsOn

\* Once the blade is forced OFF and nobody waits for the session, nobody succeeds.
LEMMA VoidedOrderly ==
  ASSUME NEW n \in Nodes, NEW ask, NEW X, Orderly(n, ask, X), n.told = {},
         NEW off \in Nodes, Voided(n, off), NEW Y
  PROVE  Orderly(off, ask, Y)
<1>1. n.blade \in Blades /\ n.blade.revision \in Int /\ n.replies \subseteq Replies
  BY DEF Nodes, Blades
<1>2. off.blade.requested = "Off" /\ off.blade.revision = n.blade.revision + 1
  BY <1>1, ForceOffFields DEF Voided
<1>3. SafeBlade(off.blade, off.connected)
  BY <1>2 DEF SafeBlade
<1>4. ASSUME NEW r \in off.replies PROVE GoodReply(r, off.blade, ask, Y)
  <2>1. r \in Replies /\ GoodReply(r, n.blade, ask, X)
    BY <1>1 DEF Voided, Orderly
  <2>2. r.revision \in Int
    BY <2>1 DEF Replies
  <2>3. QED
    BY <1>1, <1>2, <2>1, <2>2 DEF GoodReply
<1>5. ASSUME NEW t \in off.told PROVE GoodAnswer(t, ask, Y)
  <2>1. t \in Refusals(n.starts)
    BY DEF Voided
  <2>2. PICK s \in n.starts : t.caller = s.caller /\ t.direction = s.direction /\ ~t.success
    BY <2>1, RefusalFields
  <2>3. GoodStart(s, ask, X)
    BY DEF Orderly
  <2>4. QED
    BY <2>2, <2>3 DEF GoodStart, GoodAnswer
<1>6. off.starts = {}
  BY DEF Voided
<1>7. QED
  BY <1>3, <1>4, <1>5, <1>6 DEF Orderly

LEMMA AskedForOrderly ==
  ASSUME NEW n \in Nodes, NEW ask, NEW X, Orderly(n, ask, X), NEW d, NEW result,
         result = "Pending" => n.blade.requested = d,
         NEW caller, ask[caller] = d, caller \notin X,
         NEW m, AskedFor(n, caller, d, result, m)
  PROVE  Leads(n, m, ask, X)
<1>1. /\ m \in Nodes /\ m.connected = n.connected /\ m.blade = n.blade
      /\ m.starts = n.starts
  BY DEF AskedFor, SameRest, SameInputs
<1>2. n.blade.revision \in Int
  BY DEF Nodes, Blades
<1>3. ASSUME NEW r \in m.replies PROVE GoodReply(r, m.blade, ask, X)
  <2>1. CASE r \in n.replies
    BY <1>1, <2>1 DEF Orderly
  <2>2. CASE r \notin n.replies
    <3>1. /\ result = "Pending" /\ r.caller = caller /\ r.direction = d
          /\ r.revision = n.blade.revision
      BY <2>2 DEF AskedFor
    <3>2. QED
      BY <1>1, <1>2, <3>1 DEF GoodReply
  <2>3. QED
    BY <2>1, <2>2
<1>4. ASSUME NEW t \in m.told PROVE GoodAnswer(t, ask, X)
  BY DEF AskedFor, GoodAnswer, Orderly
<1>5. Orderly(m, ask, X)
  BY <1>1, <1>3, <1>4 DEF Orderly
<1>6. QED
  BY <1>1, <1>5 DEF Leads

LEMMA SafetyDisarmStages ==
  ASSUME NEW held, NEW n, Sound(n, held), n.told = {},
         NEW trouble, NEW outcome \in Outcomes, NEW d, d = SafetyDisarm(n, trouble, outcome)
  PROVE  \E c : /\ Sound(c, held) /\ c \in Nodes /\ Voided(n, c)
                /\ d = DriveSession(DriveBlade(c, trouble, outcome), outcome)
<1>1. PICK a : a = [n EXCEPT !.test = FALSE, !.blade = ForceOff(@)]
  OBVIOUS
<1>2. PICK b : b = CancelPendingStarts(a)
  OBVIOUS
<1>3. PICK c : c = DemandIdle(b, outcome)
  OBVIOUS
<1>4. n \in Nodes
  BY DEF Sound
<1>5. /\ Sound(a, held) /\ a \in Nodes /\ a.blade = ForceOff(n.blade)
      /\ a.starts = n.starts /\ a.replies = n.replies /\ a.told = n.told
  <2>1. PICK f \in Blades : f = ForceOff(n.blade)
    BY <1>4, BladeTypes DEF Nodes
  <2>2. a = [n EXCEPT !.test = FALSE, !.blade = f]
    BY <1>1, <2>1
  <2>3. /\ a.starts = n.starts /\ a.replies = n.replies /\ a.told = n.told
        /\ a \in Nodes /\ a.blade = f
    BY <1>4, <2>2 DEF Nodes
  <2>4. QED
    BY <2>1, <2>3, ListsUntouched
<1>6. /\ Sound(b, held) /\ b \in Nodes /\ b.blade = a.blade /\ b.starts = {}
      /\ b.replies = a.replies /\ b.told = a.told \cup Refusals(a.starts)
  BY <1>2, <1>5, CancelSound, CancelFields DEF Sound
<1>7. Sound(c, held) /\ c \in Nodes /\ Voided(n, c)
  <2>1. Sound(c, held)
    BY <1>3, <1>6, DemandIdleSound
  <2>2. /\ c.blade = b.blade /\ c.starts = b.starts /\ c.replies = b.replies
        /\ c.told = b.told
    BY <1>3, <1>6, DemandIdleFields
  <2>3. QED
    BY <1>5, <1>6, <2>1, <2>2 DEF Sound, Voided
<1>8. d = DriveSession(DriveBlade(c, trouble, outcome), outcome)
  BY <1>1, <1>2, <1>3 DEF SafetyDisarm
<1>9. QED
  BY <1>7, <1>8

LEMMA SafetyDisarmLeads ==
  ASSUME NEW held, NEW n, Sound(n, held), NEW ask, NEW X, Orderly(n, ask, X), n.told = {},
         NEW trouble, NEW outcome \in Outcomes, NEW d, d = SafetyDisarm(n, trouble, outcome),
         NEW Y
  PROVE  Orderly(d, ask, Y)
<1>1. PICK c : /\ Sound(c, held) /\ c \in Nodes /\ Voided(n, c)
               /\ d = DriveSession(DriveBlade(c, trouble, outcome), outcome)
  BY SafetyDisarmStages
<1>2. PICK m : m = DriveBlade(c, trouble, outcome)
  OBVIOUS
<1>3. n \in Nodes
  BY DEF Sound
<1>4. Orderly(c, ask, Y)
  BY <1>1, <1>3, VoidedOrderly
<1>5. Leads(c, m, ask, Y)
  BY <1>1, <1>2, <1>4, DriveBladeLeads
<1>6. Leads(m, d, ask, Y)
  <2>1. m \in Nodes /\ Orderly(m, ask, Y)
    BY <1>5 DEF Leads
  <2>2. QED
    BY <1>1, <1>2, <2>1, DriveSessionLeads
<1>7. QED
  BY <1>6 DEF Leads

\* An OFF bars everybody who asked for a rotation.
LEMMA OffQueued ==
  ASSUME NEW caller \in Callers, NEW held, caller \notin held, NEW n, Sound(n, held),
         NEW ask, NEW X, Orderly(n, ask, X), n.told = {},
         ask[caller] = "Off", caller \notin X, NEW trouble,
         NEW settled, NEW taken, NEW queued, NEW result,
         OffSettled(n, held, settled),
         OffAsked(settled, caller, trouble, taken, result, queued),
         NEW Y, \A c \in Y : c \in X \/ ask[c] \in Rotations
  PROVE  /\ Sound(queued, held \cup {caller}) /\ Orderly(queued, ask, Y)
         /\ OnlyBlade(settled, taken) /\ taken.blade.requested = "Off"
         /\ AskedFor(taken, caller, "Off", result, queued)
<1>1. "Off" \in Demands /\ "Off" \notin Rotations
  BY DEF Demands, Rotations
<1>2. /\ n \in Nodes /\ n.blade \in Blades /\ SafeBlade(n.blade, n.connected)
      /\ settled \in Nodes
  BY DEF Sound, Nodes, Orderly, OffSettled
<1>3. Newer(n.blade, settled.blade) /\ SafeBlade(settled.blade, n.connected)
  <2>1. Newer(n.blade, n.blade)
    BY DEF Newer
  <2>2. ASSUME NEW allowed \in BOOLEAN, settled.blade = Permission(n.blade, allowed)
        PROVE  Newer(n.blade, settled.blade) /\ SafeBlade(settled.blade, n.connected)
    BY <1>2, <2>2, BladeStepsNewer
  <2>3. QED
    BY <1>2, <2>1, <2>2 DEF OffSettled
<1>4. \A t \in settled.told : GoodAnswer(t, ask, X) /\ ~t.success
  BY RefusalsGood, RefusalFields DEF OffSettled
<1>5. Leads(n, settled, ask, X)
  <2>1. /\ settled.starts \subseteq n.starts /\ settled.replies \subseteq n.replies
        /\ settled.connected = n.connected
    BY DEF OffSettled, SameInputs
  <2>2. QED
    BY <1>2, <1>3, <1>4, <2>1, OrderlyStep
<1>6. /\ Sound(queued, held \cup {caller}) /\ OnlyBlade(settled, taken)
      /\ taken.blade = Requested(settled, "Off", trouble)
      /\ AskedFor(taken, caller, "Off", result, queued)
  <2>1. Sound(settled, held) /\ Asks(settled, caller, "Off", trouble, result, taken, queued)
    BY DEF OffSettled, OffAsked
  <2>2. QED
    BY <1>1, <2>1, TakenFields
<1>7. SafeBlade(settled.blade, settled.connected) /\ settled.blade \in Blades
  BY <1>2, <1>5 DEF Leads, Orderly, Nodes
<1>8. /\ taken.blade \in Blades /\ Newer(settled.blade, taken.blade)
      /\ SafeBlade(taken.blade, settled.connected)
      /\ RequestResult(settled, "Off", trouble) # "Rejected" => taken.blade.requested = "Off"
  BY <1>1, <1>2, <1>6, <1>7, RequestedNewer
<1>9. taken.blade.requested = "Off"
  <2>1. CASE RequestResult(settled, "Off", trouble) # "Rejected"
    BY <1>8, <2>1
  <2>2. CASE RequestResult(settled, "Off", trouble) = "Rejected"
    <3>1. ~settled.connected \/ settled.blade.failed
      BY <2>2 DEF RequestResult
    <3>2. settled.blade.requested = "Off"
      BY <1>7, <3>1 DEF SafeBlade
    <3>3. taken.blade = settled.blade
      BY <1>6, <2>2 DEF Requested
    <3>4. QED
      BY <3>2, <3>3
  <2>3. QED
    BY <2>1, <2>2
<1>10. Leads(settled, taken, ask, X)
  BY <1>2, <1>5, <1>6, <1>8, OnlyBladeLeads DEF Leads
<1>11. Orderly(taken, ask, Y)
  <2>1. Orderly(taken, ask, X) /\ taken \in Nodes /\ taken.blade.revision \in Int
    BY <1>8, <1>10 DEF Leads, Blades
  <2>2. taken.starts = {} /\ taken.told = settled.told
    BY <1>6 DEF OffSettled, OnlyBlade
  <2>3. ASSUME NEW r \in taken.replies PROVE GoodReply(r, taken.blade, ask, Y)
    <3>1. GoodReply(r, taken.blade, ask, X) /\ r \in Replies
      BY <2>1 DEF Orderly, Nodes
    <3>2. r.revision \in Int
      BY <3>1 DEF Replies
    <3>3. QED
      BY <1>1, <1>9, <2>1, <3>1, <3>2 DEF GoodReply
  <2>4. \A t \in taken.told : GoodAnswer(t, ask, Y)
    BY <1>4, <2>2 DEF GoodAnswer
  <2>5. QED
    BY <2>1, <2>2, <2>3, <2>4 DEF Orderly
<1>12. caller \notin Y
  BY <1>1
<1>13. Leads(taken, queued, ask, Y)
  <2>1. taken \in Nodes
    BY <1>10 DEF Leads
  <2>2. AskedFor(taken, caller, "Off", result, queued)
    BY <1>6
  <2>3. QED
    BY <1>9, <1>11, <1>12, <2>1, <2>2, AskedForOrderly, Zenon
<1>14. QED
  BY <1>6, <1>9, <1>13 DEF Leads

LEMMA TurnOffLeads ==
  ASSUME NEW caller \in Callers, NEW held, caller \notin held, NEW n, Sound(n, held),
         NEW ask, NEW X, Orderly(n, ask, X), n.told = {},
         ask[caller] = "Off", caller \notin X,
         NEW trouble, NEW outcome \in Outcomes,
         NEW d, d = TurnOff(n, caller, trouble, outcome),
         NEW Y, \A c \in Y : c \in X \/ ask[c] \in Rotations
  PROVE  Orderly(d, ask, Y)
<1>1. PICK settled, taken, queued, result :
           /\ OffSettled(n, held, settled)
           /\ OffAsked(settled, caller, trouble, taken, result, queued)
           /\ d = DriveSession(DriveBlade(queued, trouble, outcome), outcome)
  BY TurnOffStages
<1>2. Sound(queued, held \cup {caller}) /\ Orderly(queued, ask, Y)
  BY <1>1, OffQueued
<1>3. PICK m : m = DriveBlade(queued, trouble, outcome)
  OBVIOUS
<1>4. Leads(queued, m, ask, Y)
  BY <1>2, <1>3, DriveBladeLeads
<1>5. d = DriveSession(m, outcome)
  BY <1>1, <1>3
<1>6. Leads(m, d, ask, Y)
  BY <1>4, <1>5, DriveSessionLeads DEF Leads
<1>7. QED
  BY <1>6 DEF Leads

LEMMA CancelLeads ==
  ASSUME NEW n \in Nodes, NEW ask, NEW X, Orderly(n, ask, X),
         NEW m, m = CancelPendingStarts(n)
  PROVE  Leads(n, m, ask, X) /\ m.starts = {}
<1>1. /\ m \in Nodes /\ SameRest(n, m) /\ m.blade = n.blade
      /\ m.replies = n.replies /\ m.starts = {}
      /\ m.told = n.told \cup Refusals(n.starts)
  BY CancelFields
<1>2. SafeBlade(n.blade, n.connected) /\ Newer(n.blade, n.blade)
  BY DEF Orderly, Newer
<1>3. \A t \in m.told : t \in n.told \/ GoodAnswer(t, ask, X)
  BY <1>1, RefusalsGood
<1>4. m.connected = n.connected
  BY <1>1 DEF SameRest, SameInputs
<1>5. QED
  BY <1>1, <1>2, <1>3, <1>4, OrderlyStep

\* The first drive of a request for ON: whoever still waits for the session wants the same.
LEMMA PreparedLeads ==
  ASSUME NEW held, NEW n, Sound(n, held), NEW ask, NEW X, Orderly(n, ask, X),
         NEW d, NEW trouble, NEW outcome \in Outcomes,
         NEW driven, driven = Prepared(n, d, trouble, outcome)
  PROVE  Leads(n, driven, ask, X) /\ \A s \in driven.starts : s.direction = d
<1>1. PICK same :
        same = IF \E s \in n.starts : s.direction # d THEN CancelPendingStarts(n) ELSE n
  OBVIOUS
<1>2. n \in Nodes
  BY DEF Sound
<1>3. driven = DriveBlade(DriveSession(same, outcome), trouble, outcome)
  BY <1>1 DEF Prepared
<1>4. CASE \E s \in n.starts : s.direction # d
  <2>1. same = CancelPendingStarts(n)
    BY <1>1, <1>4
  <2>2. Leads(n, same, ask, X) /\ same.starts = {} /\ Sound(same, held)
    BY <1>2, <2>1, CancelLeads, CancelSound
  <2>3. Leads(same, driven, ask, X)
    BY <1>3, <2>2, DrivesLead DEF Leads
  <2>4. Leads(n, driven, ask, X)
    BY <2>2, <2>3, LeadsOn
  <2>5. driven.starts = {}
    BY <2>2, <2>3 DEF Leads
  <2>6. QED
    BY <2>4, <2>5
<1>5. CASE ~\E s \in n.starts : s.direction # d
  <2>1. same = n
    BY <1>1, <1>5
  <2>2. Leads(n, driven, ask, X)
    BY <1>3, <2>1, DrivesLead
  <2>3. QED
    BY <1>5, <2>2 DEF Leads
<1>6. QED
  BY <1>4, <1>5

LEMMA RefuseOrderly ==
  ASSUME NEW n \in Nodes, NEW ask, NEW X, Orderly(n, ask, X), NEW caller \in Callers,
         NEW d \in Demands, ask[caller] = d, NEW m, m = Refuse(n, caller, d)
  PROVE  Leads(n, m, ask, X)
<1>1. /\ m \in Nodes /\ SameRest(n, m) /\ m.blade = n.blade /\ m.starts = n.starts
      /\ m.replies = n.replies
      /\ \A t \in m.told :
           t \in n.told \/ (t.caller = caller /\ t.direction = d /\ ~t.success)
  BY RefuseFields
<1>2. \A t \in m.told : t \in n.told \/ GoodAnswer(t, ask, X)
  BY <1>1 DEF GoodAnswer
<1>3. SafeBlade(n.blade, n.connected) /\ Newer(n.blade, n.blade)
  BY DEF Orderly, Newer
<1>4. m.connected = n.connected
  BY <1>1 DEF SameRest, SameInputs
<1>5. QED
  BY <1>1, <1>2, <1>3, <1>4, OrderlyStep

LEMMA OpenedLeads ==
  ASSUME NEW held, NEW driven, Sound(driven, held), NEW ask, NEW X,
         Orderly(driven, ask, X), NEW second \in Outcomes, NEW tested, NEW opened,
         OnOpened(driven, held, second, tested, opened)
  PROVE  Leads(driven, opened, ask, X)
<1>1. driven \in Nodes /\ SafeBlade(driven.blade, driven.connected)
      /\ Newer(driven.blade, driven.blade)
  BY DEF Sound, Orderly, Newer
<1>2. /\ tested \in Nodes /\ tested.blade = driven.blade
      /\ tested.connected = driven.connected
      /\ tested.starts = driven.starts /\ tested.replies = driven.replies
      /\ tested.told = driven.told
  BY DEF OnOpened, SameInputs, Sound
<1>3. Leads(driven, tested, ask, X)
  BY <1>1, <1>2, OrderlyStep
<1>4. Leads(tested, opened, ask, X)
  <2>1. tested \in Nodes /\ Orderly(tested, ask, X)
    BY <1>3 DEF Leads
  <2>2. opened = DriveSession(tested, second)
    BY DEF OnOpened
  <2>3. QED
    BY <2>1, <2>2, DriveSessionLeads
<1>5. QED
  BY <1>3, <1>4, LeadsOn

LEMMA WaitsOrderly ==
  ASSUME NEW opened \in Nodes, NEW ask, NEW X, Orderly(opened, ask, X), opened.connected,
         NEW caller \in Callers, NEW d \in Rotations, ask[caller] = d, caller \notin X,
         \A s \in opened.starts : s.direction = d,
         NEW m, OnWaits(opened, caller, d, m)
  PROVE  Orderly(m, ask, X)
<1>1. /\ m \in Nodes /\ SameRest(opened, m) /\ m.blade = opened.blade
      /\ m.replies = opened.replies
      /\ \A s \in m.starts :
           s \in opened.starts \/ (s.caller = caller /\ s.direction = d /\ ~s.late)
      /\ \A t \in m.told :
           t \in opened.told \/ (t.caller = caller /\ t.direction = d /\ ~t.success)
  BY WaitsFields
<1>2. m.connected = opened.connected
  BY <1>1 DEF SameRest, SameInputs
<1>3. \A s \in m.starts : GoodStart(s, ask, X) /\ s.direction = d
  BY <1>1 DEF Orderly, GoodStart
<1>4. \A t \in m.told : GoodAnswer(t, ask, X)
  BY <1>1 DEF Orderly, GoodAnswer
<1>5. QED
  BY <1>1, <1>2, <1>3, <1>4 DEF Orderly

\* The blade is asked at once, in order.
AskedInTurn(opened, caller, held, d, trouble, second, ask, X, m) ==
  \E permitted, taken, result, queued :
    /\ opened.session.ready /\ ~opened.session.failed
    /\ permitted \in Nodes /\ OnlyBlade(opened, permitted)
    /\ permitted.blade = Permission(opened.blade, BladeAllowed(opened, trouble))
    /\ result = RequestResult(permitted, d, trouble)
    /\ OnlyBlade(permitted, taken)
    /\ taken.blade = Requested(permitted, d, trouble)
    /\ AskedFor(taken, caller, d, result, queued)
    /\ Sound(queued, held \cup {caller}) /\ Orderly(queued, ask, X)
    /\ m = DriveBlade(queued, trouble, second)

LEMMA OnQueued ==
  ASSUME NEW caller \in Callers, NEW held, caller \notin held, NEW ask, NEW X,
         NEW opened \in Nodes, Orderly(opened, ask, X),
         NEW d \in Rotations, ask[caller] = d, caller \notin X,
         NEW trouble, NEW second \in Outcomes, NEW m,
         OnAsked(opened, caller, held, d, trouble, second, m)
  PROVE  AskedInTurn(opened, caller, held, d, trouble, second, ask, X, m)
<1>1. PICK permitted, taken, result, queued :
        /\ opened.session.ready /\ ~opened.session.failed
        /\ Sound(permitted, held) /\ OnlyBlade(opened, permitted)
        /\ permitted.blade = Permission(opened.blade, BladeAllowed(opened, trouble))
        /\ result = RequestResult(permitted, d, trouble)
        /\ Asks(permitted, caller, d, trouble, result, taken, queued)
        /\ m = DriveBlade(queued, trouble, second)
  BY DEF OnAsked
<1>2. d \in Demands
  BY DEF Demands
<1>3. PICK allowed \in BOOLEAN : allowed = BladeAllowed(opened, trouble)
  BY DEF BladeAllowed
<1>4. opened.blade \in Blades /\ SafeBlade(opened.blade, opened.connected)
  BY DEF Nodes, Orderly
<1>5. /\ Newer(opened.blade, permitted.blade)
      /\ SafeBlade(permitted.blade, opened.connected)
  BY <1>1, <1>3, <1>4, BladeStepsNewer
<1>6. Leads(opened, permitted, ask, X)
  BY <1>1, <1>5, OnlyBladeLeads
<1>7. /\ Sound(queued, held \cup {caller}) /\ OnlyBlade(permitted, taken)
      /\ taken.blade = Requested(permitted, d, trouble)
      /\ AskedFor(taken, caller, d, result, queued)
  BY <1>1, <1>2, TakenFields
<1>8. permitted \in Nodes /\ Orderly(permitted, ask, X)
  BY <1>6 DEF Leads
<1>9. SafeBlade(permitted.blade, permitted.connected)
  BY <1>8 DEF Orderly
<1>10. /\ Newer(permitted.blade, taken.blade) /\ SafeBlade(taken.blade, permitted.connected)
       /\ result # "Rejected" => taken.blade.requested = d
  BY <1>1, <1>2, <1>7, <1>8, <1>9, RequestedNewer
<1>11. Leads(permitted, taken, ask, X)
  BY <1>7, <1>8, <1>10, OnlyBladeLeads
<1>12. taken \in Nodes /\ Orderly(taken, ask, X)
  BY <1>11 DEF Leads
<1>13. Leads(taken, queued, ask, X)
  BY <1>7, <1>10, <1>12, AskedForOrderly
<1>14. Orderly(queued, ask, X)
  BY <1>13 DEF Leads
<1>15. QED
  BY <1>1, <1>7, <1>8, <1>14 DEF AskedInTurn

LEMMA TurnOnLeads ==
  ASSUME NEW caller \in Callers, NEW held, caller \notin held,
         NEW driven, Sound(driven, held), NEW ask, NEW X, Orderly(driven, ask, X),
         NEW d \in Rotations, ask[caller] = d, caller \notin X,
         \A s \in driven.starts : s.direction = d,
         NEW trouble, NEW second \in Outcomes,
         NEW m, m = TurnOn(driven, caller, d, trouble, second)
  PROVE  Orderly(m, ask, X)
<1>1. PICK tested, opened :
        /\ OnOpened(driven, held, second, tested, opened)
        /\ \/ m = Refuse(driven, caller, d)
           \/ /\ driven.connected
              /\ \/ OnRefused(opened, caller, d, second, m)
                 \/ OnWaits(opened, caller, d, m)
                 \/ OnAsked(opened, caller, held, d, trouble, second, m)
  BY TurnOnStages
<1>2. d \in Demands /\ driven \in Nodes
  BY DEF Demands, Sound
<1>3. /\ opened \in Nodes /\ Orderly(opened, ask, X)
      /\ opened.starts \subseteq driven.starts /\ opened.connected = driven.connected
  BY <1>1, OpenedLeads DEF Leads
<1>4. CASE m = Refuse(driven, caller, d)
  BY <1>2, <1>4, RefuseOrderly DEF Leads
<1>5. CASE OnRefused(opened, caller, d, second, m)
  <2>1. PICK ended : ended = EndFailedBladeTest(opened, second)
    OBVIOUS
  <2>2. Leads(opened, ended, ask, X)
    BY <1>3, <2>1, EndTestLeads
  <2>3. ended \in Nodes /\ Orderly(ended, ask, X)
    BY <2>2 DEF Leads
  <2>4. Leads(ended, m, ask, X)
    BY <1>2, <1>5, <2>1, <2>3, RefuseOrderly DEF OnRefused
  <2>5. QED
    BY <2>4 DEF Leads
<1>6. CASE driven.connected /\ OnWaits(opened, caller, d, m)
  BY <1>3, <1>6, WaitsOrderly
<1>7. CASE OnAsked(opened, caller, held, d, trouble, second, m)
  <2>1. AskedInTurn(opened, caller, held, d, trouble, second, ask, X, m)
    BY <1>3, <1>7, OnQueued
  <2>2. PICK queued : /\ Sound(queued, held \cup {caller}) /\ Orderly(queued, ask, X)
                      /\ m = DriveBlade(queued, trouble, second)
    BY <2>1 DEF AskedInTurn
  <2>3. Leads(queued, m, ask, X)
    BY <2>2, DriveBladeLeads
  <2>4. QED
    BY <2>3 DEF Leads
<1>8. QED
  BY <1>1, <1>4, <1>5, <1>6, <1>7

-----------------------------------------------------------------------------
(* Every handler keeps the order. *)

Asked == [c \in Callers |-> clients[c].direction]

CalledOff == {c \in Callers : clients[c].off}

LateOnes == {w.caller : w \in {v \in node.starts \cup node.replies : v.late}}

\* Those who can no longer succeed when a handler starts.
Barred == {c \in Waiting(node) : clients[c].off} \cup LateOnes

OrderInv == MowerInv /\ Orderly(node, Asked, CalledOff)

\* What no handler tells.
NoLateSuccess == \A t \in node'.told : t.success => t.caller \notin LateOnes

LEMMA WaitingCallers ==
  ASSUME MowerInv
  PROVE  /\ Waiting(node) \subseteq Callers /\ Barred \subseteq Waiting(node)
         /\ \A c \in Waiting(node) : c \notin Answered(node)
<1>1. node \in Nodes /\ Once(node)
  BY DEF MowerInv, Sound
<1>2. Waiting(node) \subseteq Callers
  BY <1>1 DEF Waiting, Nodes, Starts, Replies
<1>3. Barred \subseteq Waiting(node)
  BY DEF Barred, LateOnes, Waiting
<1>4. \A c \in Waiting(node) : c \notin Answered(node)
  BY <1>1 DEF Once, Answered
<1>5. QED
  BY <1>2, <1>3, <1>4

LEMMA FreshOrderly ==
  ASSUME OrderInv
  PROVE  Orderly(Fresh, Asked, Barred)
<1>1. /\ MowerInv /\ Orderly(node, Asked, CalledOff) /\ node \in Nodes /\ Once(node)
  BY DEF OrderInv, MowerInv, Sound
<1>2. /\ Fresh.connected = node.connected /\ Fresh.blade = node.blade
      /\ Fresh.starts = node.starts /\ Fresh.replies = node.replies /\ Fresh.told = {}
  BY <1>1, FreshFields DEF SameRest, SameInputs
<1>3. ASSUME NEW s \in node.starts PROVE GoodStart(s, Asked, Barred)
  <2>1. GoodStart(s, Asked, CalledOff)
    BY <1>1 DEF Orderly
  <2>2. s.caller \in Callers
    BY <1>1 DEF Nodes, Starts
  <2>3. ASSUME s.caller \in LateOnes PROVE s.late
    <3>1. PICK v \in node.starts \cup node.replies : v.late /\ v.caller = s.caller
      BY <2>3 DEF LateOnes
    <3>2. v \in node.starts
      BY <1>1, <3>1 DEF Once
    <3>3. v = s
      BY <1>1, <3>1, <3>2 DEF Once, Distinct
    <3>4. QED
      BY <3>1, <3>3
  <2>4. QED
    BY <2>1, <2>2, <2>3 DEF GoodStart, Barred, CalledOff
<1>4. ASSUME NEW r \in node.replies PROVE GoodReply(r, node.blade, Asked, Barred)
  <2>1. GoodReply(r, node.blade, Asked, CalledOff)
    BY <1>1 DEF Orderly
  <2>2. r.caller \in Callers
    BY <1>1 DEF Nodes, Replies
  <2>3. ASSUME r.caller \in LateOnes PROVE r.late
    <3>1. PICK v \in node.starts \cup node.replies : v.late /\ v.caller = r.caller
      BY <2>3 DEF LateOnes
    <3>2. v \in node.replies
      BY <1>1, <3>1 DEF Once
    <3>3. v = r
      BY <1>1, <3>1, <3>2 DEF Once, Distinct
    <3>4. QED
      BY <3>1, <3>3
  <2>4. QED
    BY <2>1, <2>2, <2>3 DEF GoodReply, Barred, CalledOff
<1>5. QED
  BY <1>1, <1>2, <1>3, <1>4 DEF Orderly

\* Only the callers held count.
LEMMA OrderlyTransfer ==
  ASSUME NEW held, NEW n, Sound(n, held), NEW ask, NEW X, Orderly(n, ask, X),
         NEW asks, NEW Y, \A c \in held : asks[c] = ask[c] /\ (c \in Y => c \in X)
  PROVE  Orderly(n, asks, Y)
<1>1. /\ \A s \in n.starts : s.caller \in held
      /\ \A r \in n.replies : r.caller \in held
      /\ \A t \in n.told : t.caller \in held
  BY DEF Sound, Held, Waiting, Answered
<1>2. \A s \in n.starts : GoodStart(s, asks, Y)
  BY <1>1 DEF Orderly, GoodStart
<1>3. \A r \in n.replies : GoodReply(r, n.blade, asks, Y)
  BY <1>1 DEF Orderly, GoodReply
<1>4. \A t \in n.told : GoodAnswer(t, asks, Y)
  BY <1>1 DEF Orderly, GoodAnswer
<1>5. QED
  BY <1>2, <1>3, <1>4 DEF Orderly

LEMMA RenumberedOrderly ==
  ASSUME NEW n \in Nodes, NEW ask, NEW X, Orderly(n, ask, X), NEW m, m = Renumbered(n)
  PROVE  Orderly(m, ask, X) /\ m.told = n.told
<1> DEFINE F == [r \in n.replies |->
                   [r EXCEPT !.revision = IF @ = n.blade.revision THEN 0 ELSE -1]]
<1>1. PICK q : q = {F[r] : r \in n.replies}
  OBVIOUS
<1>2. PICK b : b = [n.blade EXCEPT !.revision = 0]
  OBVIOUS
<1>3. n.blade \in Blades
  BY DEF Nodes
<1>4. /\ b.requested = n.blade.requested /\ b.failed = n.blade.failed /\ b.revision = 0
  BY <1>2, <1>3 DEF Blades
<1>5. m = [n EXCEPT !.blade = b, !.replies = q]
  BY <1>1, <1>2 DEF Renumbered, Nodes
<1>6. /\ m.blade = b /\ m.replies = q /\ m.starts = n.starts /\ m.told = n.told
      /\ m.connected = n.connected
  BY <1>5 DEF Nodes
<1>7. ASSUME NEW r \in n.replies PROVE GoodReply(F[r], b, ask, X)
  <2>1. r \in Replies /\ GoodReply(r, n.blade, ask, X)
    BY DEF Nodes, Orderly
  <2>2. r.revision \in Int /\ n.blade.revision \in Int
    BY <1>3, <2>1 DEF Replies, Blades
  <2>3. PICK v : v = IF r.revision = n.blade.revision THEN 0 ELSE -1
    OBVIOUS
  <2>4. F[r] = [r EXCEPT !.revision = v]
    BY <2>3
  <2>5. /\ F[r].caller = r.caller /\ F[r].direction = r.direction
        /\ F[r].late = r.late /\ F[r].revision = v
    BY <2>1, <2>4 DEF Replies
  <2> HIDE DEF F
  <2>6. QED
    BY <1>4, <2>1, <2>2, <2>3, <2>5 DEF GoodReply
<1>8. \A r \in q : GoodReply(r, b, ask, X)
  BY <1>1, <1>7
<1>9. SafeBlade(b, n.connected)
  BY <1>4 DEF Orderly, SafeBlade
<1> HIDE DEF F
<1>10. QED
  BY <1>6, <1>8, <1>9 DEF Orderly

LEMMA HandlerOrderly ==
  ASSUME OrderInv, NEW after, Sound(after, Waiting(node)), NEW X,
         Orderly(after, Asked, X), Barred \subseteq X, NEW calledOff,
         calledOff => Waiting(node) \subseteq X, Handler(after, calledOff)
  PROVE  Orderly(node, Asked, CalledOff)' /\ NoLateSuccess
<1>1. MowerInv /\ after \in Nodes /\ node' = Renumbered(after)
  BY DEF OrderInv, Sound, Handler
<1>2. Sound(node', Waiting(node))
  BY <1>1, RenumberedSound
<1>3. Orderly(node', Asked, X) /\ node'.told = after.told
  BY <1>1, RenumberedOrderly
<1>4. ASSUME NEW c \in Waiting(node)
      PROVE  Asked'[c] = Asked[c] /\ (c \in CalledOff' => c \in X)
  <2>1. c \in Callers /\ c \notin Answered(node) /\ clients[c] \in Calls
    BY <1>1, WaitingCallers DEF MowerInv
  <2>2. clients'[c] = [clients[c] EXCEPT
                         !.off = @ \/ (calledOff /\ clients[c].direction \in Rotations)]
    BY <2>1 DEF Handler, Later
  <2>3. PICK off : off = (clients[c].off \/ (calledOff /\ clients[c].direction \in Rotations))
    OBVIOUS
  <2>4. clients'[c] = [clients[c] EXCEPT !.off = off]
    BY <2>2, <2>3
  <2>5. clients'[c].direction = clients[c].direction /\ clients'[c].off = off
    BY <2>1, <2>4 DEF Calls
  <2>6. Asked'[c] = Asked[c]
    BY <2>1, <2>5 DEF Asked
  <2>7. c \in CalledOff' => clients[c].off \/ calledOff
    BY <2>3, <2>5 DEF CalledOff
  <2>8. QED
    BY <2>6, <2>7 DEF Barred
<1>5. Orderly(node', Asked', CalledOff')
  BY <1>2, <1>3, <1>4, OrderlyTransfer
<1>6. NoLateSuccess
  BY <1>3 DEF NoLateSuccess, Orderly, GoodAnswer, Barred
<1>7. QED
  BY <1>5, <1>6

LEMMA RequestOrderly ==
  ASSUME OrderInv, NEW caller \in Callers, caller \notin Waiting(node), NEW d \in Demands,
         NEW after, Sound(after, Waiting(node) \cup {caller}), NEW ask, NEW X,
         Orderly(after, ask, X), Barred \subseteq X, caller \notin X, ask[caller] = d,
         \A c \in Waiting(node) : ask[c] = clients[c].direction,
         d = "Off" => \A c \in Waiting(node) : clients[c].direction \in Rotations => c \in X,
         Request(caller, d, after)
  PROVE  Orderly(node, Asked, CalledOff)' /\ NoLateSuccess
<1>1. MowerInv /\ after \in Nodes /\ node' = Renumbered(after)
  BY DEF OrderInv, Sound, Request
<1>2. Sound(node', Waiting(node) \cup {caller})
  BY <1>1, RenumberedSound
<1>3. Orderly(node', ask, X) /\ node'.told = after.told
  BY <1>1, RenumberedOrderly
<1>4. ASSUME NEW c \in Waiting(node)
      PROVE  Asked'[c] = ask[c] /\ (c \in CalledOff' => c \in X)
  <2>1. /\ c \in Callers /\ c \notin Answered(node) /\ clients[c] \in Calls /\ c # caller
    BY <1>1, WaitingCallers DEF MowerInv
  <2>2. clients'[c] = [clients[c] EXCEPT
                         !.off = @ \/ (d = "Off" /\ clients[c].direction \in Rotations)]
    BY <2>1 DEF Request
  <2>3. PICK off : off = (clients[c].off \/ (d = "Off" /\ clients[c].direction \in Rotations))
    OBVIOUS
  <2>4. clients'[c] = [clients[c] EXCEPT !.off = off]
    BY <2>2, <2>3
  <2>5. clients'[c].direction = clients[c].direction /\ clients'[c].off = off
    BY <2>1, <2>4 DEF Calls
  <2>6. Asked'[c] = ask[c]
    BY <2>1, <2>5 DEF Asked
  <2>7. c \in CalledOff' => clients[c].off \/ (d = "Off" /\ clients[c].direction \in Rotations)
    BY <2>3, <2>5 DEF CalledOff
  <2>8. QED
    BY <2>6, <2>7 DEF Barred
<1>5. Asked'[caller] = ask[caller] /\ caller \notin CalledOff'
  <2>1. clients'[caller] = [direction |-> d, off |-> FALSE]
    BY DEF Request
  <2>2. QED
    BY <2>1 DEF Asked, CalledOff
<1>6. Orderly(node', Asked', CalledOff')
  BY <1>2, <1>3, <1>4, <1>5, OrderlyTransfer
<1>7. NoLateSuccess
  BY <1>3 DEF NoLateSuccess, Orderly, GoodAnswer, Barred
<1>8. QED
  BY <1>6, <1>7

\* Both facts about a handler.
OrderStep == Orderly(node, Asked, CalledOff)' /\ NoLateSuccess

LEMMA RequestKeepsOrder ==
  ASSUME OrderInv, NEW caller \in Callers, NEW d \in Demands,
         NEW trouble, NEW outcome \in Outcomes,
         MowerRequest(caller, d, trouble, outcome)
  PROVE  OrderStep
<1>1. /\ MowerInv /\ Sound(Fresh, Waiting(node)) /\ caller \notin Waiting(node)
      /\ Fresh.told = {} /\ Fresh \in Nodes
  BY FreshFields DEF MowerRequest, OrderInv
<1>2. PICK ask : ask = [c \in Callers |-> IF c = caller THEN d ELSE clients[c].direction]
  OBVIOUS
<1>3. /\ \A c \in Waiting(node) : ask[c] = clients[c].direction /\ ask[c] = Asked[c]
      /\ ask[caller] = d /\ caller \notin Barred
  BY <1>1, <1>2, WaitingCallers DEF Asked
<1>4. Orderly(Fresh, ask, Barred)
  BY <1>1, <1>3, FreshOrderly, OrderlyTransfer
<1>5. CASE d = "Off"
  <2>1. PICK after : after = TurnOff(Fresh, caller, trouble, outcome)
    OBVIOUS
  <2>2. Sound(after, Waiting(node) \cup {caller})
    BY <1>1, <2>1, TurnOffSound
  <2>3. PICK Y : Y = Barred \cup {c \in Waiting(node) : clients[c].direction \in Rotations}
    OBVIOUS
  <2>4. \A c \in Y : c \in Barred \/ ask[c] \in Rotations
    BY <1>3, <2>3
  <2>5. Orderly(after, ask, Y)
    BY <1>1, <1>3, <1>4, <1>5, <2>1, <2>4, TurnOffLeads
  <2>6. Barred \subseteq Y /\ caller \notin Y
    BY <1>1, <1>3, <2>3
  <2>7. \A c \in Waiting(node) : clients[c].direction \in Rotations => c \in Y
    BY <2>3
  <2>8. Request(caller, d, after)
    BY <1>5, <2>1 DEF MowerRequest
  <2>9. QED
    BY <1>1, <1>3, <2>2, <2>5, <2>6, <2>7, <2>8, RequestOrderly DEF OrderStep
<1>6. CASE d # "Off"
  <2>1. d \in Rotations
    BY <1>6 DEF Demands
  <2>2. PICK driven : driven = Prepared(Fresh, d, trouble, outcome)
    OBVIOUS
  <2>3. Sound(driven, Waiting(node))
    BY <1>1, <2>2, PreparedSound
  <2>4. Leads(Fresh, driven, ask, Barred) /\ \A s \in driven.starts : s.direction = d
    BY <1>1, <1>4, <2>2, PreparedLeads
  <2>5. PICK second \in SecondDrive(driven) :
          Request(caller, d, TurnOn(driven, caller, d, trouble, second))
    BY <1>6, <2>2, Zenon DEF MowerRequest
  <2>6. second \in Outcomes
    BY <2>3, <2>5, SecondDriveType DEF Sound
  <2>7. PICK after : after = TurnOn(driven, caller, d, trouble, second)
    OBVIOUS
  <2>8. Orderly(driven, ask, Barred)
    BY <2>4 DEF Leads
  <2>9. Orderly(after, ask, Barred)
    BY <1>1, <1>3, <2>1, <2>3, <2>4, <2>6, <2>7, <2>8, TurnOnLeads
  <2>10. Sound(after, Waiting(node) \cup {caller})
    BY <1>1, <2>1, <2>3, <2>6, <2>7, TurnOnSound
  <2>11. Request(caller, d, after)
    BY <2>5, <2>7
  <2>12. Barred \subseteq Barred
    OBVIOUS
  <2>13. QED
    BY <1>1, <1>3, <1>6, <2>9, <2>10, <2>11, <2>12, RequestOrderly DEF OrderStep
<1>7. QED
  BY <1>5, <1>6

\* A handler that ends with both drives of n.
LEMMA DrivesKeepOrder ==
  ASSUME OrderInv, NEW n, Sound(n, Waiting(node)), NEW X, Orderly(n, Asked, X),
         Barred \subseteq X, NEW trouble, NEW outcome \in Outcomes, NEW calledOff,
         calledOff => Waiting(node) \subseteq X,
         Handler(DriveBlade(DriveSession(n, outcome), trouble, outcome), calledOff)
  PROVE  OrderStep
<1>1. PICK after : after = DriveBlade(DriveSession(n, outcome), trouble, outcome)
  OBVIOUS
<1>2. Sound(after, Waiting(node))
  BY <1>1, DriveBoth
<1>3. Leads(n, after, Asked, X)
  BY <1>1, DrivesLead
<1>4. Orderly(after, Asked, X) /\ Handler(after, calledOff)
  BY <1>1, <1>3 DEF Leads
<1>5. QED
  BY <1>2, <1>4, HandlerOrderly DEF OrderStep

\* What leaves blade and lists alone.
LEMMA OrderlySame ==
  ASSUME NEW n, NEW ask, NEW X, Orderly(n, ask, X), NEW m, m.connected = n.connected,
         m.blade = n.blade, m.starts = n.starts, m.replies = n.replies, m.told = n.told
  PROVE  Orderly(m, ask, X)
  BY DEF Orderly

LEMMA TimerKeepsOrder ==
  ASSUME OrderInv, NEW outcome \in Outcomes, Timer(outcome)
  PROVE  OrderStep
<1>1. MowerInv
  BY DEF OrderInv
<1>2. PICK t : Handler(DriveBlade(DriveSession(Fresh, outcome), t, outcome), FALSE)
  BY <1>1, TimerStart
<1>3. Sound(Fresh, Waiting(node)) /\ Orderly(Fresh, Asked, Barred)
  BY <1>1, FreshFields, FreshOrderly
<1>4. QED
  BY <1>2, <1>3, DrivesKeepOrder

\* Where the status and the connection leave the bridge before the drives.
LEMMA StatusOrder ==
  ASSUME OrderInv, NEW motion \in BOOLEAN, NEW trouble, NEW outcome \in Outcomes,
         HighLevelStatus(motion, trouble, outcome)
  PROVE  \E ends, left, X :
           /\ Sound(left, Waiting(node)) /\ Orderly(left, Asked, X)
           /\ Barred \subseteq X /\ (ends => X = Waiting(node))
           /\ \/ ~ends /\ left.blade = Fresh.blade /\ left.told = {}
              \/ ends /\ \E off : /\ Sound(off, Waiting(node)) /\ Voided(Fresh, off)
                                  /\ left = DriveBlade(off, trouble, outcome)
           /\ Handler(DriveBlade(DriveSession(left, outcome), trouble, outcome), ends)
<1>1. MowerInv /\ Fresh \in Nodes /\ Fresh.told = {} /\ Orderly(Fresh, Asked, Barred)
  BY FreshFields, FreshOrderly DEF OrderInv
<1>2. PICK ends, left :
        /\ ends = (node.motion /\ ~motion)
        /\ Sound(left, Waiting(node))
        /\ \/ /\ ~ends /\ left.blade = Fresh.blade /\ left.starts = Fresh.starts
              /\ left.replies = Fresh.replies /\ left.told = Fresh.told
              /\ left.connected = Fresh.connected
           \/ /\ ends
              /\ \E off : /\ Sound(off, Waiting(node)) /\ Voided(Fresh, off)
                          /\ off.connected = Fresh.connected
                          /\ left = DriveBlade(off, trouble, outcome)
        /\ Handler(DriveBlade(DriveSession(left, outcome), trouble, outcome), ends)
  BY <1>1, StatusStart
<1>3. CASE ~ends
  <2>1. Orderly(left, Asked, Barred)
    BY <1>1, <1>2, <1>3, OrderlySame
  <2>2. Barred \subseteq Barred
    OBVIOUS
  <2>3. QED
    BY <1>1, <1>2, <1>3, <2>1, <2>2
<1>4. CASE ends
  <2>1. PICK off : /\ Sound(off, Waiting(node)) /\ Voided(Fresh, off)
                   /\ left = DriveBlade(off, trouble, outcome)
    BY <1>2, <1>4
  <2>2. PICK X : X = Waiting(node)
    OBVIOUS
  <2>3. off \in Nodes
    BY <2>1 DEF Sound
  <2>4. Orderly(off, Asked, X)
    BY <1>1, <2>1, <2>3, VoidedOrderly
  <2>5. Leads(off, left, Asked, X)
    BY <2>1, <2>4, DriveBladeLeads
  <2>6. Orderly(left, Asked, X)
    BY <2>5 DEF Leads
  <2>7. Barred \subseteq X
    BY <1>1, <2>2, WaitingCallers
  <2>8. QED
    BY <1>2, <1>4, <2>1, <2>2, <2>6, <2>7
<1>5. QED
  BY <1>3, <1>4

LEMMA StatusKeepsOrder ==
  ASSUME OrderInv, NEW motion \in BOOLEAN, NEW trouble, NEW outcome \in Outcomes,
         HighLevelStatus(motion, trouble, outcome)
  PROVE  OrderStep
<1>1. PICK ends, left, X :
        /\ Sound(left, Waiting(node)) /\ Orderly(left, Asked, X)
        /\ Barred \subseteq X /\ (ends => X = Waiting(node))
        /\ \/ ~ends /\ left.blade = Fresh.blade /\ left.told = {}
           \/ ends /\ \E off : /\ Sound(off, Waiting(node)) /\ Voided(Fresh, off)
                               /\ left = DriveBlade(off, trouble, outcome)
        /\ Handler(DriveBlade(DriveSession(left, outcome), trouble, outcome), ends)
  BY StatusOrder
<1>2. ends => Waiting(node) \subseteq X
  BY <1>1
<1>3. QED
  BY <1>1, <1>2, DrivesKeepOrder

LEMMA StateOrder ==
  ASSUME OrderInv, NEW connected \in BOOLEAN, NEW emergency \in BOOLEAN, NEW trouble,
         NEW outcome \in Outcomes, MavrosState(connected, emergency, trouble, outcome)
  PROVE  \E changes, left, X :
           /\ Sound(left, Waiting(node)) /\ Orderly(left, Asked, X)
           /\ Barred \subseteq X /\ (changes => X = Waiting(node))
           /\ left.blade = Fresh.blade \/ left.blade = ForceOff(Fresh.blade)
           /\ left.told \subseteq Refusals(Fresh.starts)
           /\ Handler(DriveBlade(DriveSession(left, outcome), trouble, outcome), changes)
<1>1. /\ MowerInv /\ Fresh \in Nodes /\ Fresh.told = {} /\ Orderly(Fresh, Asked, Barred)
      /\ Fresh.connected = node.connected
  BY FreshFields, FreshOrderly DEF OrderInv, SameRest, SameInputs
<1>2. PICK changes, left :
        /\ changes = (node.connected # connected)
        /\ Sound(left, Waiting(node)) /\ left.connected = connected
        /\ left.replies = Fresh.replies
        /\ left.blade = IF changes THEN ForceOff(Fresh.blade) ELSE Fresh.blade
        /\ IF changes /\ ~connected
           THEN left.starts = {} /\ left.told = Fresh.told \cup Refusals(Fresh.starts)
           ELSE left.starts = Fresh.starts /\ left.told = Fresh.told
        /\ Handler(DriveBlade(DriveSession(left, outcome), trouble, outcome), changes)
  BY <1>1, StateStart
<1>3. CASE ~changes
  <2>1. Orderly(left, Asked, Barred)
    BY <1>1, <1>2, <1>3, OrderlySame
  <2>2. Barred \subseteq Barred
    OBVIOUS
  <2>3. left.told \subseteq Refusals(Fresh.starts) /\ left.blade = Fresh.blade
    BY <1>1, <1>2, <1>3
  <2>4. QED
    BY <1>2, <1>3, <2>1, <2>2, <2>3
<1>4. CASE changes
  <2>1. Voided(Fresh, left)
    <3>1. CASE ~connected
      BY <1>2, <1>4, <3>1 DEF Voided
    <3>2. CASE connected
      <4>1. Fresh.starts = {}
        BY <1>1, <1>2, <1>4, <3>2 DEF Orderly, Nodes
      <4>2. Refusals(Fresh.starts) = {}
        BY <4>1 DEF Refusals
      <4>3. QED
        BY <1>1, <1>2, <1>4, <3>2, <4>1, <4>2 DEF Voided
    <3>3. QED
      BY <3>1, <3>2
  <2>2. PICK X : X = Waiting(node)
    OBVIOUS
  <2>3. Orderly(left, Asked, X)
    BY <1>1, <1>2, <2>1, VoidedOrderly DEF Sound
  <2>4. Barred \subseteq X
    BY <1>1, <2>2, WaitingCallers
  <2>5. left.told \subseteq Refusals(Fresh.starts) /\ left.blade = ForceOff(Fresh.blade)
    BY <1>1, <2>1 DEF Voided
  <2>6. QED
    BY <1>2, <1>4, <2>2, <2>3, <2>4, <2>5
<1>5. QED
  BY <1>3, <1>4

LEMMA StateKeepsOrder ==
  ASSUME OrderInv, NEW connected \in BOOLEAN, NEW emergency \in BOOLEAN, NEW trouble,
         NEW outcome \in Outcomes, MavrosState(connected, emergency, trouble, outcome)
  PROVE  OrderStep
<1>1. PICK changes, left, X :
        /\ Sound(left, Waiting(node)) /\ Orderly(left, Asked, X)
        /\ Barred \subseteq X /\ (changes => X = Waiting(node))
        /\ left.blade = Fresh.blade \/ left.blade = ForceOff(Fresh.blade)
        /\ left.told \subseteq Refusals(Fresh.starts)
        /\ Handler(DriveBlade(DriveSession(left, outcome), trouble, outcome), changes)
  BY StateOrder
<1>2. changes => Waiting(node) \subseteq X
  BY <1>1
<1>3. QED
  BY <1>1, <1>2, DrivesKeepOrder

LEMMA ReleaseKeepsOrder ==
  ASSUME OrderInv, NEW emergency \in BOOLEAN, NEW trouble, NEW outcome \in Outcomes,
         EmergencyReleased(emergency, trouble, outcome)
  PROVE  OrderStep
<1>1. MowerInv /\ Orderly(Fresh, Asked, Barred)
  BY FreshOrderly DEF OrderInv
<1>2. PICK n : /\ Sound(n, Waiting(node)) /\ n.connected = Fresh.connected
               /\ n.blade = Fresh.blade /\ n.starts = Fresh.starts
               /\ n.replies = Fresh.replies /\ n.told = Fresh.told
               /\ Handler(DriveBlade(DriveSession(n, outcome), trouble, outcome), FALSE)
  BY <1>1, ReleaseStart
<1>3. Orderly(n, Asked, Barred)
  BY <1>1, <1>2, OrderlySame
<1>4. QED
  BY <1>2, <1>3, DrivesKeepOrder

LEMMA VelocityKeepsOrder ==
  ASSUME OrderInv, NEW outcome \in Outcomes, CommandVelocity(outcome)
  PROVE  OrderStep
<1>1. /\ MowerInv /\ Fresh \in Nodes /\ Sound(Fresh, Waiting(node))
      /\ Orderly(Fresh, Asked, Barred)
  BY FreshFields, FreshOrderly DEF OrderInv
<1>2. PICK after : after = DriveSession(Fresh, outcome)
  OBVIOUS
<1>3. Sound(after, Waiting(node))
  BY <1>1, <1>2, DriveSessionSound
<1>4. Leads(Fresh, after, Asked, Barred)
  BY <1>1, <1>2, DriveSessionLeads
<1>5. Orderly(after, Asked, Barred) /\ Handler(after, FALSE)
  BY <1>2, <1>4 DEF Leads, CommandVelocity
<1>6. QED
  BY <1>3, <1>5, HandlerOrderly DEF OrderStep

LEMMA BladeKeepsOrder ==
  ASSUME OrderInv, NEW trouble, NEW outcome \in Outcomes,
         \/ BladeObserved(trouble, outcome)
         \/ BladeSettles(trouble, outcome)
         \/ BladeRefuses(trouble, outcome)
         \/ BladeDisturbed(trouble, outcome)
  PROVE  OrderStep
<1>1. /\ MowerInv /\ Fresh \in Nodes /\ Orderly(Fresh, Asked, Barred)
  BY FreshFields, FreshOrderly DEF OrderInv
<1>2. PICK n : /\ Sound(n, Waiting(node)) /\ OnlyBlade(Fresh, n)
               /\ \/ n.blade = Fresh.blade
                  \/ /\ ~Fresh.blade.failed
                     /\ n.blade = [Fresh.blade EXCEPT !.satisfied = TRUE]
                  \/ n.blade = Fail(Fresh.blade)
                  \/ n.blade = ForceOff(Fresh.blade)
               /\ Handler(DriveBlade(n, trouble, outcome), FALSE)
  BY <1>1, BladeStart
<1>3. Fresh.blade \in Blades /\ SafeBlade(Fresh.blade, Fresh.connected)
  BY <1>1 DEF Nodes, Orderly
<1>4. Newer(Fresh.blade, n.blade) /\ SafeBlade(n.blade, Fresh.connected)
  <2>1. CASE n.blade = Fresh.blade
    BY <1>3, <2>1 DEF Newer
  <2>2. CASE n.blade = [Fresh.blade EXCEPT !.satisfied = TRUE]
    BY <1>3, <2>2 DEF Newer, SafeBlade, Blades
  <2>3. CASE n.blade = Fail(Fresh.blade) \/ n.blade = ForceOff(Fresh.blade)
    BY <1>3, <2>3, BladeStepsNewer
  <2>4. QED
    BY <1>2, <2>1, <2>2, <2>3
<1>5. Leads(Fresh, n, Asked, Barred)
  BY <1>1, <1>2, <1>4, OnlyBladeLeads
<1>6. PICK after : after = DriveBlade(n, trouble, outcome)
  OBVIOUS
<1>7. Orderly(n, Asked, Barred)
  BY <1>5 DEF Leads
<1>8. Leads(n, after, Asked, Barred)
  BY <1>2, <1>6, <1>7, DriveBladeLeads
<1>9. Sound(after, Waiting(node))
  BY <1>2, <1>6, DriveBladeSound
<1>10. Orderly(after, Asked, Barred) /\ Handler(after, FALSE)
  BY <1>2, <1>6, <1>8 DEF Leads
<1>11. QED
  BY <1>9, <1>10, HandlerOrderly DEF OrderStep

LEMMA SafetyKeepsOrder ==
  ASSUME OrderInv, NEW emergency \in BOOLEAN, NEW released \in BOOLEAN,
         NEW trouble, NEW outcome \in Outcomes,
         \/ SafetyRequest(released, trouble, outcome)
         \/ SafetyInput(emergency, released)
  PROVE  OrderStep
<1>1. /\ MowerInv /\ Fresh \in Nodes /\ Fresh.told = {} /\ Orderly(Fresh, Asked, Barred)
  BY FreshFields, FreshOrderly DEF OrderInv
<1>2. CASE SafetyRequest(released, trouble, outcome)
  <2>1. PICK e \in BOOLEAN : e = TRUE
    OBVIOUS
  <2>2. PICK n : n = [Fresh EXCEPT !.emergency = e, !.released = released]
    OBVIOUS
  <2>3. /\ Sound(n, Waiting(node)) /\ n.connected = Fresh.connected
        /\ n.blade = Fresh.blade /\ n.starts = Fresh.starts
        /\ n.replies = Fresh.replies /\ n.told = Fresh.told
    BY <1>1, <2>2, InputsStart
  <2>4. Orderly(n, Asked, Barred) /\ n.told = {}
    BY <1>1, <2>3, OrderlySame
  <2>5. PICK after : after = SafetyDisarm(n, trouble, outcome)
    OBVIOUS
  <2>6. PICK X : X = Waiting(node)
    OBVIOUS
  <2>7. Orderly(after, Asked, X)
    BY <2>3, <2>4, <2>5, SafetyDisarmLeads
  <2>8. Sound(after, Waiting(node))
    BY <2>3, <2>5, SafetyDisarmSound
  <2>9. Handler(after, TRUE)
    BY <1>2, <2>1, <2>2, <2>5 DEF SafetyRequest
  <2>10. Barred \subseteq X /\ Waiting(node) \subseteq X
    BY <1>1, <2>6, WaitingCallers
  <2>11. QED
    BY <2>7, <2>8, <2>9, <2>10, HandlerOrderly DEF OrderStep
<1>3. CASE SafetyInput(emergency, released)
  <2>1. PICK n : n = [Fresh EXCEPT !.emergency = emergency, !.released = released]
    OBVIOUS
  <2>2. /\ Sound(n, Waiting(node)) /\ n.connected = Fresh.connected
        /\ n.blade = Fresh.blade /\ n.starts = Fresh.starts
        /\ n.replies = Fresh.replies /\ n.told = Fresh.told
    BY <1>1, <2>1, InputsStart
  <2>3. Orderly(n, Asked, Barred)
    BY <1>1, <2>2, OrderlySame
  <2>4. Handler(n, FALSE)
    BY <1>3, <2>1 DEF SafetyInput
  <2>5. QED
    BY <2>2, <2>3, <2>4, HandlerOrderly DEF OrderStep
<1>4. QED
  BY <1>2, <1>3

LEMMA DeadlineKeepsOrder ==
  ASSUME OrderInv, NEW caller \in Callers, DeadlinePasses(caller)
  PROVE  OrderStep
<1>1. MowerInv /\ Fresh.told = {} /\ Orderly(Fresh, Asked, Barred)
  BY FreshFields, FreshOrderly DEF OrderInv
<1>2. PICK n :
        /\ Sound(n, Waiting(node)) /\ n \in Nodes /\ SameRest(Fresh, n)
        /\ n.blade = Fresh.blade /\ n.told = Fresh.told
        /\ Handler(n, FALSE)
        /\ (Fresh.starts # {} => n.starts # {})
        /\ \A s \in n.starts : \E e \in Fresh.starts :
             /\ s.caller = e.caller /\ s.direction = e.direction
             /\ e.late => s.late
        /\ \A r \in n.replies : \E e \in Fresh.replies :
             /\ r.caller = e.caller /\ r.direction = e.direction
             /\ r.revision = e.revision /\ (e.late => r.late)
  BY <1>1, DeadlineStart
<1>3. n.connected = Fresh.connected
  BY <1>2 DEF SameRest, SameInputs
<1>4. \A s \in n.starts : GoodStart(s, Asked, Barred)
  BY <1>1, <1>2 DEF Orderly, GoodStart
<1>5. \A r \in n.replies : GoodReply(r, n.blade, Asked, Barred)
  <2> TAKE r \in n.replies
  <2>1. PICK e \in Fresh.replies :
          /\ r.caller = e.caller /\ r.direction = e.direction
          /\ r.revision = e.revision /\ (e.late => r.late)
    BY <1>2
  <2>2. GoodReply(e, Fresh.blade, Asked, Barred)
    BY <1>1 DEF Orderly
  <2>3. QED
    BY <1>2, <2>1, <2>2 DEF GoodReply
<1>6. \A s, u \in n.starts : s.direction = u.direction
  BY <1>1, <1>2 DEF Orderly
<1>7. ~n.connected => n.starts = {}
  BY <1>1, <1>2, <1>3 DEF Orderly
<1>8. SafeBlade(n.blade, n.connected) /\ n.told = {}
  BY <1>1, <1>2, <1>3 DEF Orderly
<1>9. Orderly(n, Asked, Barred)
  BY <1>4, <1>5, <1>6, <1>7, <1>8 DEF Orderly
<1>10. QED
  BY <1>2, <1>9, HandlerOrderly DEF OrderStep

LEMMA NextKeepsOrder ==
  ASSUME OrderInv, Next
  PROVE  OrderStep
<1>1. SessionOutcomes \subseteq Outcomes
  BY MowerControlAssumption DEF Outcomes
<1>2. ASSUME NEW c \in Callers, DeadlinePasses(c) PROVE OrderStep
  BY <1>2, DeadlineKeepsOrder
<1>3. ASSUME NEW e \in BOOLEAN, NEW r \in BOOLEAN, SafetyInput(e, r) PROVE OrderStep
  <2>1. PICK o \in Outcomes : o = [broken |-> FALSE, ready |-> FALSE, failed |-> FALSE]
    BY DEF Outcomes
  <2>2. QED
    BY <1>3, <2>1, SafetyKeepsOrder
<1>4. ASSUME NEW o \in SessionOutcomes, CommandVelocity(o) \/ Timer(o) PROVE OrderStep
  BY <1>1, <1>4, VelocityKeepsOrder, TimerKeepsOrder
<1>5. ASSUME NEW o \in SessionOutcomes, NEW t \in Troubles,
             \/ BladeObserved(t, o) \/ BladeSettles(t, o)
             \/ BladeRefuses(t, o) \/ BladeDisturbed(t, o)
      PROVE  OrderStep
  BY <1>1, <1>5, BladeKeepsOrder
<1>6. ASSUME NEW o \in SessionOutcomes, NEW t \in Troubles, NEW c \in Callers,
             NEW d \in Demands, MowerRequest(c, d, t, o)
      PROVE  OrderStep
  BY <1>1, <1>6, RequestKeepsOrder
<1>7. ASSUME NEW o \in SessionOutcomes, NEW t \in Troubles, NEW b \in BOOLEAN,
             \/ HighLevelStatus(b, t, o) \/ SafetyRequest(b, t, o)
             \/ EmergencyReleased(b, t, o)
      PROVE  OrderStep
  BY <1>1, <1>7, StatusKeepsOrder, SafetyKeepsOrder, ReleaseKeepsOrder
<1>8. ASSUME NEW o \in SessionOutcomes, NEW t \in Troubles, NEW l \in BOOLEAN,
             NEW e \in BOOLEAN, MavrosState(l, e, t, o)
      PROVE  OrderStep
  BY <1>1, <1>8, StateKeepsOrder
<1>9. QED
  BY <1>2, <1>3, <1>4, <1>5, <1>6, <1>7, <1>8 DEF Next

LEMMA OrderInvSame ==
  ASSUME OrderInv, UNCHANGED vars
  PROVE  OrderInv'
<1>1. node' = node /\ clients' = clients
  BY DEF vars
<1>2. MowerInv'
  BY NextInv DEF OrderInv
<1>3. Asked' = Asked /\ CalledOff' = CalledOff
  BY <1>1 DEF Asked, CalledOff
<1>4. Orderly(node', Asked', CalledOff')
  BY <1>1, <1>3 DEF OrderInv
<1>5. QED
  BY <1>2, <1>4 DEF OrderInv

LEMMA NextOrder == OrderInv /\ [Next]_vars => OrderInv'
<1>1. ASSUME OrderInv, Next PROVE OrderInv'
  BY <1>1, NextKeepsOrder, NextInv DEF OrderInv, OrderStep
<1>2. ASSUME OrderInv, UNCHANGED vars PROVE OrderInv'
  BY <1>2, OrderInvSame
<1>3. QED
  BY <1>1, <1>2

THEOREM OrderInvariance == Spec => []OrderInv
<1>1. Init => OrderInv
  <2>1. Init => Orderly(node, Asked, CalledOff)
    BY DEF Init, Orderly, SafeBlade
  <2>2. QED
    BY <2>1, InitInv DEF OrderInv
<1>2. QED
  BY <1>1, NextOrder, PTL DEF Spec

\* pending_blade_starts_ only ever holds callers of one direction, and a caller in
\* blade_replies_ whose revision is the current one waits for the direction that is
\* demanded of the blade: the answer given for a transition is given to those who asked for it.
THEOREM WaitingCallersAgree == Spec => []CallersAgree
<1>1. OrderInv => CallersAgree
  BY DEF OrderInv, Orderly, GoodReply, CallersAgree
<1>2. QED
  BY <1>1, OrderInvariance, PTL

\* An ON that an OFF, an announced emergency, the end of the movement or a change of the link
\* called off never succeeds: its start is cancelled or its revision is passed, and a revision
\* is never reached again.
THEOREM CalledOffNeverSucceeds == Spec => []CalledOffFails
<1>1. OrderInv => CalledOffFails
  <2>1. SUFFICES ASSUME OrderInv, NEW t \in node.told, t.success
                 PROVE  ~clients[t.caller].off
    BY DEF CalledOffFails
  <2>2. t.caller \in Callers
    BY <2>1 DEF OrderInv, MowerInv, Sound, Nodes, Responses
  <2>3. t.caller \notin CalledOff
    BY <2>1 DEF OrderInv, Orderly, GoodAnswer
  <2>4. QED
    BY <2>2, <2>3 DEF CalledOff
<1>2. QED
  BY <1>1, OrderInvariance, PTL

\* A caller past the 20 s of its request gets no success from the step that answers it, also
\* when the blade settles in that step.
THEOREM LateNeverSucceeds == Spec => LateFails
<1>1. ASSUME OrderInv, Next
      PROVE  \A w \in node.starts \cup node.replies :
               w.late => ~\E t \in node'.told : t.caller = w.caller /\ t.success
  <2>1. NoLateSuccess
    BY <1>1, NextKeepsOrder DEF OrderStep
  <2>2. QED
    BY <2>1 DEF NoLateSuccess, LateOnes
<1>2. OrderInv /\ [Next]_vars
        => [\A w \in node.starts \cup node.replies :
              w.late => ~\E t \in node'.told : t.caller = w.caller /\ t.success]_vars
  BY <1>1
<1>3. QED
  BY <1>2, OrderInvariance, PTL DEF Spec, LateFails

-----------------------------------------------------------------------------
(* A success is true when the handler that tells it has ended. *)

Quiet(n) == \A t \in n.told : ~t.success

\* Only a blade that is permitted is demanded ON.
Permitted(b) == b.requested # "Off" => b.allowed

\* A settled blade leaves nobody waiting for it.
Settled(n) == n.blade.satisfied => n.replies = {}

\* What was told was achieved then, is what is demanded, and an ON is still confirmed.
Told(n) ==
  \A t \in n.told : t.success =>
    /\ t.achieved
    /\ t.direction = n.blade.requested
    /\ n.blade.requested = "Off" \/ n.blade.satisfied

\* A drive of the blade would not change the permission, nor end a test for a failed session.
Holds(n, trouble) == BladeAllowed(n, trouble) /\ (n.session.failed => n.motion)

\* Of a bridge whose permission was brought up to date.
Clear(n, trouble) ==
  /\ n.blade.requested # "Off" \/ n.starts # {} => (n.blade.allowed => Holds(n, trouble))
  /\ n.blade.requested # "Off" => n.blade.allowed /\ "esc" \notin trouble

\* The callers waiting for the session do not disturb what was told.
Agreeing(n) ==
  Quiet(n) \/ \A s \in n.starts : ~s.late /\ s.direction = n.blade.requested

\* What was told survives the ageing.
Backed(n, trouble) ==
  \/ Quiet(n)
  \/ /\ Agreeing(n)
     /\ n.blade.requested # "Off" =>
          /\ n.blade.allowed /\ n.blade.satisfied
          /\ Holds(n, trouble) /\ "esc" \notin trouble

LEMMA QuietTold ==
  ASSUME NEW n, Quiet(n)
  PROVE  Told(n) /\ Agreeing(n)
  BY DEF Quiet, Told, Agreeing

LEMMA HoldsSame ==
  ASSUME NEW n, NEW m, SameRest(n, m), NEW trouble
  PROVE  /\ Holds(m, trouble) = Holds(n, trouble)
         /\ BladeAllowed(m, trouble) = BladeAllowed(n, trouble)
<1>1. BladeAllowed(m, trouble) = BladeAllowed(n, trouble)
  BY DEF BladeAllowed, SameRest, SameInputs
<1>2. (m.session.failed => m.motion) = (n.session.failed => n.motion)
  BY DEF SameRest, SameInputs
<1>3. QED
  BY <1>1, <1>2 DEF Holds

\* Refusals are no successes.
LEMMA RefusalsQuiet ==
  ASSUME NEW n, NEW lost, NEW m, m.told = n.told \cup Refusals(lost)
  PROVE  /\ \A t \in m.told : t.success => t \in n.told
         /\ Quiet(n) => Quiet(m)
<1>1. \A t \in m.told : t.success => t \in n.told
  BY RefusalFields
<1>2. QED
  BY <1>1 DEF Quiet

LEMMA EndedQuiet ==
  ASSUME NEW n, NEW m, Ended(n, m)
  PROVE  /\ \A t \in m.told : t.success => t \in n.told
         /\ Quiet(n) => Quiet(m)
  BY RefusalsQuiet DEF Ended

LEMMA EndedBlade ==
  ASSUME NEW n \in Nodes, NEW m, Ended(n, m)
  PROVE  /\ m \in Nodes /\ m.blade.requested = "Off" /\ ~m.blade.satisfied
         /\ m.starts = {} /\ ~m.session.arm
<1>1. n.blade \in Blades /\ m.blade = ForceOff(n.blade)
  BY DEF Nodes, Ended
<1>2. m.blade.requested = "Off" /\ ~m.blade.satisfied
  BY <1>1, ForceOffFields
<1>3. QED
  BY <1>2 DEF Ended

\* The end of a test that no rotation was promised for.
LEMMA EndIfWithin ==
  ASSUME NEW n \in Nodes, NEW trouble, NEW outcome \in Outcomes, NEW condition,
         Told(n), Clear(n, trouble), Agreeing(n),
         condition => Quiet(n) \/ n.blade.requested = "Off",
         NEW m, m = EndIf(condition, n, outcome)
  PROVE  Told(m) /\ Clear(m, trouble) /\ Agreeing(m)
<1>1. m = n \/ (condition /\ Ended(n, m))
  BY EndIfFields
<1>2. CASE m = n
  BY <1>2
<1>3. CASE condition /\ Ended(n, m)
  <2>1. /\ m.blade.requested = "Off" /\ m.starts = {}
        /\ \A t \in m.told : t.success => t \in n.told
        /\ Quiet(n) => Quiet(m)
    BY <1>3, EndedBlade, EndedQuiet
  <2>2. Clear(m, trouble) /\ Agreeing(m)
    BY <2>1 DEF Clear, Agreeing
  <2>3. Told(m)
    <3>1. CASE Quiet(n)
      BY <2>1, <3>1, QuietTold
    <3>2. CASE n.blade.requested = "Off"
      BY <2>1, <3>2 DEF Told
    <3>3. QED
      BY <1>3, <3>1, <3>2
  <2>4. QED
    BY <2>2, <2>3
<1>4. QED
  BY <1>1, <1>2, <1>3

\* A failure of an unsettled transition disturbs nothing that was told.
LEMMA FailedWithin ==
  ASSUME NEW n \in Nodes, NEW trouble, Told(n), Clear(n, trouble), ~n.blade.satisfied,
         NEW m, OnlyBlade(n, m), m.blade = Fail(n.blade)
  PROVE  Told(m) /\ Clear(m, trouble)
<1>1. n.blade \in Blades
  BY DEF Nodes
<1>2. m.blade.requested = "Off" /\ m.blade.allowed = n.blade.allowed
  BY <1>1, FailFields
<1>3. m.told = n.told /\ m.starts = n.starts /\ SameRest(n, m)
  BY DEF OnlyBlade
<1>4. Told(m)
  BY <1>2, <1>3 DEF Told
<1>5. Holds(m, trouble) = Holds(n, trouble)
  BY <1>3, HoldsSame
<1>6. Clear(m, trouble)
  BY <1>2, <1>3, <1>5 DEF Clear
<1>7. QED
  BY <1>4, <1>6

LEMMA AgedWithin ==
  ASSUME NEW n \in Nodes, Armed(n), Permitted(n.blade), NEW trouble, Told(n), Backed(n, trouble),
         NEW outcome \in Outcomes, NEW d, d = Aged(n, trouble, outcome)
  PROVE  d \in Nodes /\ Told(d) /\ Clear(d, trouble) /\ Agreeing(d)
<1>1. PICK alive, b :
        /\ \/ alive = n /\ (n.session.failed \/ ~n.connected => ~n.test \/ n.motion)
           \/ (n.session.failed \/ ~n.connected) /\ Ended(n, alive)
        /\ alive \in Nodes
        /\ b = Permission(alive.blade, BladeAllowed(alive, trouble))
        /\ OnlyBlade(alive, d) /\ d.blade = Ticked(b, trouble)
  BY AgedFields
<1>2. PICK allowed \in BOOLEAN : allowed = BladeAllowed(alive, trouble)
  BY DEF BladeAllowed
<1>3. alive.blade \in Blades /\ b = Permission(alive.blade, allowed)
  BY <1>1, <1>2 DEF Nodes
<1>4. /\ b \in Blades /\ b.allowed = allowed
      /\ \/ /\ ~(alive.blade.allowed /\ ~allowed)
            /\ b.requested = alive.blade.requested /\ b.satisfied = alive.blade.satisfied
         \/ /\ alive.blade.allowed /\ ~allowed
            /\ b.requested = "Off" /\ ~b.satisfied
  BY <1>3, PermissionFields
<1>5. \/ d.blade = b /\ ~("esc" \in trouble /\ b.requested # "Off")
      \/ d.blade = Fail(b) /\ ~("esc" \notin trouble /\ b.satisfied)
  BY <1>1, <1>4, TickedFields
<1>6. /\ d.blade.allowed = allowed
      /\ \/ d.blade.requested = "Off"
         \/ /\ d.blade = b /\ "esc" \notin trouble
  <2>1. CASE d.blade = b /\ ~("esc" \in trouble /\ b.requested # "Off")
    BY <1>4, <2>1
  <2>2. CASE d.blade = Fail(b)
    BY <1>4, <2>2, FailFields
  <2>3. QED
    BY <1>5, <2>1, <2>2
<1>7. /\ d \in Nodes /\ SameRest(alive, d) /\ d.starts = alive.starts /\ d.told = alive.told
  BY <1>1 DEF OnlyBlade
<1>8. allowed => Holds(alive, trouble)
  <2>1. CASE Ended(n, alive)
    <3>1. ~alive.session.arm
      BY <2>1, EndedBlade
    <3>2. QED
      BY <1>2, <3>1 DEF BladeAllowed
  <2>2. CASE alive = n /\ (n.session.failed \/ ~n.connected => ~n.test \/ n.motion)
    BY <1>2, <2>2 DEF BladeAllowed, Armed, Holds
  <2>3. QED
    BY <1>1, <2>1, <2>2
<1>9. Permitted(alive.blade)
  <2>1. CASE Ended(n, alive)
    BY <2>1, EndedBlade DEF Permitted
  <2>2. QED
    BY <1>1, <2>1
<1>10. Clear(d, trouble)
  <2>1. Holds(d, trouble) = Holds(alive, trouble)
    BY <1>7, HoldsSame
  <2>2. d.blade.requested # "Off" => d.blade.allowed /\ "esc" \notin trouble
    BY <1>4, <1>6, <1>9 DEF Permitted
  <2>3. QED
    BY <1>6, <1>8, <2>1, <2>2 DEF Clear
<1>11. CASE Quiet(n)
  <2>1. Quiet(alive)
    BY <1>1, <1>11, EndedQuiet
  <2>2. Quiet(d)
    BY <1>7, <2>1 DEF Quiet
  <2>3. QED
    BY <1>7, <1>10, <2>2, QuietTold
<1>12. CASE ~Quiet(n) /\ n.blade.requested = "Off"
  <2>1. /\ alive.blade.requested = "Off" /\ alive.starts \subseteq n.starts
        /\ \A t \in alive.told : t.success => t \in n.told
    <3>1. CASE Ended(n, alive)
      BY <3>1, EndedBlade, EndedQuiet
    <3>2. QED
      BY <1>1, <1>12, <3>1
  <2>2. d.blade.requested = "Off"
    BY <1>4, <1>6, <2>1
  <2>3. Told(d)
    BY <1>7, <1>12, <2>1, <2>2 DEF Told
  <2>4. Agreeing(d)
    BY <1>7, <1>12, <2>1, <2>2 DEF Agreeing, Backed
  <2>5. QED
    BY <1>7, <1>10, <2>3, <2>4
<1>13. CASE ~Quiet(n) /\ n.blade.requested # "Off"
  <2>1. /\ Agreeing(n) /\ n.blade.allowed /\ n.blade.satisfied
        /\ Holds(n, trouble) /\ "esc" \notin trouble
    BY <1>13 DEF Backed
  <2>2. BladeAllowed(n, trouble) /\ n.connected /\ (n.session.failed => n.motion)
    BY <2>1 DEF Holds, BladeAllowed
  <2>3. alive = n
    BY <1>1, <2>2 DEF Ended
  <2>4. allowed /\ b.requested = n.blade.requested /\ b.satisfied
    BY <1>2, <1>4, <2>1, <2>2, <2>3
  <2>5. d.blade = b
    BY <1>5, <2>1, <2>4
  <2>6. Told(d) /\ Agreeing(d)
    BY <1>7, <1>13, <2>1, <2>3, <2>4, <2>5 DEF Told, Agreeing, Quiet
  <2>7. QED
    BY <1>7, <1>10, <2>6
<1>14. QED
  BY <1>11, <1>12, <1>13

LEMMA RequestStartsWithin ==
  ASSUME NEW held, NEW n, Sound(n, held), n.starts # {}, NEW trouble,
         Told(n), Clear(n, trouble), Agreeing(n),
         NEW m, m = RequestStarts(n, trouble)
  PROVE  Told(m) /\ Clear(m, trouble) /\ m.starts = {}
<1>1. PICK s, taken :
        /\ s \in n.starts
        /\ OnlyBlade([n EXCEPT !.starts = {}], taken) /\ s.direction \in Demands
        /\ taken.blade = Requested(n, s.direction, trouble)
        /\ Pushed(taken, n.starts, s.direction,
                  RequestResult(n, s.direction, trouble), m)
  BY RequestStartsFields
<1>2. n \in Nodes /\ n.blade \in Blades
  BY DEF Sound, Nodes
<1>3. PICK bare : bare = [n EXCEPT !.starts = {}]
  OBVIOUS
<1>4. SameRest(n, bare) /\ bare.starts = {} /\ bare.told = n.told
  BY <1>2, <1>3 DEF Nodes, SameRest, SameInputs
<1>5. /\ SameRest(n, taken) /\ taken.starts = {} /\ taken.told = n.told
  BY <1>1, <1>3, <1>4 DEF OnlyBlade, SameRest, SameInputs
<1>6. PICK d, result : d = s.direction /\ result = RequestResult(n, d, trouble)
  OBVIOUS
<1>7. /\ SameRest(n, m) /\ m.starts = {} /\ m.blade = taken.blade
      /\ \A t \in m.told : \/ t \in n.told
                           \/ /\ t.direction = d /\ t.success = (result = "Confirmed")
                              /\ t.success /\ Achieved(taken.blade, d) => t.achieved
  BY <1>1, <1>5, <1>6 DEF Pushed, SameRest, SameInputs
<1>8. /\ m.blade.allowed = n.blade.allowed
      /\ \/ m.blade = n.blade
         \/ result # "Rejected" /\ d # n.blade.requested /\ m.blade.requested = d
  BY <1>1, <1>2, <1>6, <1>7, RequestedFields
<1>9. result = "Confirmed" => d = n.blade.requested /\ n.blade.satisfied
  BY <1>6 DEF RequestResult
<1>10. Clear(m, trouble)
  <2>1. Holds(m, trouble) = Holds(n, trouble)
    BY <1>7, HoldsSame
  <2>2. n.blade.allowed => Holds(n, trouble)
    BY DEF Clear
  <2>3. m.blade.requested # "Off" => m.blade.allowed /\ "esc" \notin trouble
    <3>1. CASE m.blade = n.blade
      BY <3>1 DEF Clear
    <3>2. CASE result # "Rejected" /\ m.blade.requested = d
      BY <1>6, <1>8, <3>2 DEF RequestResult
    <3>3. QED
      BY <1>8, <3>1, <3>2
  <2>4. QED
    BY <1>7, <1>8, <2>1, <2>2, <2>3 DEF Clear
<1>11. Told(m)
  <2>1. CASE ~Quiet(n)
    <3>1. d = n.blade.requested
      BY <1>1, <1>6, <2>1 DEF Agreeing
    <3>2. m.blade = n.blade /\ taken.blade = n.blade
      BY <1>7, <1>8, <3>1
    <3>3. ASSUME NEW t \in m.told, t.success, t \notin n.told
          PROVE  t.achieved /\ t.direction = n.blade.requested /\ n.blade.satisfied
      BY <1>7, <1>9, <3>2, <3>3 DEF Achieved
    <3>4. QED
      BY <3>2, <3>3 DEF Told
  <2>2. CASE Quiet(n)
    <3>1. ASSUME NEW t \in m.told, t.success
          PROVE  /\ t.direction = d /\ result = "Confirmed"
                 /\ Achieved(taken.blade, d) => t.achieved
      BY <1>7, <2>2, <3>1 DEF Quiet
    <3>2. result = "Confirmed" => m.blade = n.blade /\ taken.blade = n.blade
      BY <1>7, <1>8, <1>9
    <3>3. ASSUME NEW t \in m.told, t.success
          PROVE  t.achieved /\ t.direction = m.blade.requested /\ m.blade.satisfied
      BY <1>9, <3>1, <3>2, <3>3 DEF Achieved
    <3>4. QED
      BY <3>3 DEF Told
  <2>3. QED
    BY <2>1, <2>2
<1>12. QED
  BY <1>7, <1>10, <1>11

LEMMA ServeStartsWithin ==
  ASSUME NEW held, NEW n, Sound(n, held), NEW trouble,
         Told(n), Clear(n, trouble), Agreeing(n),
         NEW m, m = ServeStarts(n, trouble)
  PROVE  Told(m) /\ Clear(m, trouble) /\ \A s \in m.starts : ~s.late
<1>1. PICK left : /\ left = RefuseLost(n) /\ Sound(left, held)
                  /\ \/ m = left
                     \/ left.starts # {} /\ m = RequestStarts(left, trouble)
  BY ServeStartsFields
<1>2. n \in Nodes
  BY DEF Sound
<1>3. PICK lost : lost = {s \in n.starts : Lost(n, s)}
  OBVIOUS
<1>4. /\ SameRest(n, left) /\ left.blade = n.blade
      /\ left.starts = {s \in n.starts : ~Lost(n, s)}
      /\ left.told = n.told \cup Refusals(lost)
  BY <1>1, <1>2, <1>3, RefuseLostFields
<1>5. left.starts \subseteq n.starts /\ \A s \in left.starts : ~s.late
  BY <1>4 DEF Lost
<1>6. /\ \A t \in left.told : t.success => t \in n.told
      /\ Quiet(n) => Quiet(left)
  BY <1>4, RefusalsQuiet
<1>7. Told(left)
  BY <1>4, <1>6 DEF Told
<1>8. Agreeing(left)
  BY <1>4, <1>5, <1>6 DEF Agreeing
<1>9. Clear(left, trouble)
  <2>1. Holds(left, trouble) = Holds(n, trouble)
    BY <1>4, HoldsSame
  <2>2. QED
    BY <1>4, <1>5, <2>1 DEF Clear
<1>10. CASE m = left
  BY <1>5, <1>7, <1>9, <1>10
<1>11. CASE left.starts # {} /\ m = RequestStarts(left, trouble)
  BY <1>1, <1>7, <1>8, <1>9, <1>11, RequestStartsWithin
<1>12. QED
  BY <1>1, <1>10, <1>11

LEMMA ServeRepliesWithin ==
  ASSUME NEW held, NEW n, Sound(n, held), NEW ask, NEW X, Orderly(n, ask, X), NEW trouble,
         Told(n), Clear(n, trouble), NEW m, m = ServeReplies(n)
  PROVE  Told(m) /\ Clear(m, trouble)
<1>1. /\ SameRest(n, m) /\ m.blade = n.blade /\ m.starts = n.starts
      /\ \A t \in m.told :
           \/ t \in n.told
           \/ \E r \in n.replies :
                /\ t.caller = r.caller /\ t.direction = r.direction
                /\ t.success => Valid(n, r) /\ n.blade.satisfied
                /\ t.success /\ Achieved(n.blade, r.direction) => t.achieved
  BY ServeRepliesFields
<1>2. ASSUME NEW t \in m.told, t.success, t \notin n.told
      PROVE  t.achieved /\ t.direction = n.blade.requested /\ n.blade.satisfied
  <2>1. PICK r \in n.replies : /\ t.direction = r.direction
                               /\ Valid(n, r) /\ n.blade.satisfied
                               /\ Achieved(n.blade, r.direction) => t.achieved
    BY <1>1, <1>2
  <2>2. GoodReply(r, n.blade, ask, X)
    BY DEF Orderly
  <2>3. r.direction = n.blade.requested
    BY <2>1, <2>2 DEF Valid, GoodReply
  <2>4. QED
    BY <2>1, <2>3 DEF Achieved
<1>3. Told(m)
  BY <1>1, <1>2 DEF Told
<1>4. Holds(m, trouble) = Holds(n, trouble)
  BY <1>1, HoldsSame
<1>5. Clear(m, trouble)
  BY <1>1, <1>4 DEF Clear
<1>6. QED
  BY <1>3, <1>5

LEMMA DriveBladeWithin ==
  ASSUME NEW held, NEW n, Sound(n, held), NEW ask, NEW X, Orderly(n, ask, X),
         Armed(n), Permitted(n.blade), NEW trouble, Told(n), Backed(n, trouble),
         NEW outcome \in Outcomes, NEW d, d = DriveBlade(n, trouble, outcome)
  PROVE  Told(d) /\ Clear(d, trouble)
<1>1. PICK aged : aged = Aged(n, trouble, outcome)
  OBVIOUS
<1>2. PICK timely : timely = Expired(aged, outcome)
  OBVIOUS
<1>3. PICK started : started = ServeStarts(timely, trouble)
  OBVIOUS
<1>4. PICK expired : expired = ServeDeadline(started)
  OBVIOUS
<1>5. PICK served : served = ServeReplies(expired)
  OBVIOUS
<1>6. PICK owned : owned = Owned(served, outcome)
  OBVIOUS
<1>7. d = Dispatch(owned, trouble)
  BY <1>1, <1>2, <1>3, <1>4, <1>5, <1>6 DEF DriveBlade
<1>8. /\ Sound(timely, held) /\ Sound(started, held) /\ Sound(expired, held)
      /\ n \in Nodes
  BY <1>1, <1>2, <1>3, <1>4, AgedSound, StagesSound, ServeStartsSound, ServeDeadlineSound
     DEF Sound
<1>9. aged \in Nodes /\ Told(aged) /\ Clear(aged, trouble) /\ Agreeing(aged)
  BY <1>1, <1>8, AgedWithin
<1>10. Told(timely) /\ Clear(timely, trouble) /\ Agreeing(timely)
  <2>1. (\E s \in aged.starts : s.late) => Quiet(aged)
    BY <1>9 DEF Agreeing
  <2>2. PICK condition : condition = \E s \in aged.starts : s.late
    OBVIOUS
  <2>3. timely = EndIf(condition, aged, outcome)
    BY <1>2, <2>2 DEF Expired
  <2>4. QED
    BY <1>9, <2>1, <2>2, <2>3, EndIfWithin
<1>11. Told(started) /\ Clear(started, trouble)
  BY <1>3, <1>8, <1>10, ServeStartsWithin
<1>12. started \in Nodes /\ Orderly(expired, ask, X)
  <2>1. Orderly(timely, ask, X)
    <3>1. Leads(n, aged, ask, X)
      BY <1>1, <1>8, AgedLeads
    <3>2. Leads(aged, timely, ask, X)
      <4>1. aged \in Nodes /\ Orderly(aged, ask, X)
        BY <3>1 DEF Leads
      <4>2. QED
        BY <1>2, <4>1, EndIfLeads DEF Expired
    <3>3. QED
      BY <3>2 DEF Leads
  <2>2. started \in Nodes /\ Orderly(started, ask, X)
    BY <1>3, <1>8, <2>1, ServeStartsLeads DEF Leads
  <2>3. expired = started \/ (OnlyBlade(started, expired) /\ expired.blade = Fail(started.blade))
    BY <1>4, <2>2, ServeDeadlineFields
  <2>4. QED
    BY <2>2, <2>3, FailedLeads DEF Leads
<1>13. Told(expired) /\ Clear(expired, trouble)
  <2>1. \/ expired = started
        \/ /\ ~started.blade.satisfied
           /\ OnlyBlade(started, expired) /\ expired.blade = Fail(started.blade)
    BY <1>4, <1>12, ServeDeadlineFields
  <2>2. QED
    BY <1>11, <1>12, <2>1, FailedWithin
<1>14. Told(served) /\ Clear(served, trouble)
  BY <1>5, <1>8, <1>12, <1>13, ServeRepliesWithin
<1>15. served \in Nodes
  BY <1>5, <1>8, ServeRepliesSound DEF Sound
<1>16. owned \in Nodes /\ Told(owned) /\ Clear(owned, trouble)
  <2>1. PICK condition : condition = (served.starts = {} /\ served.blade.requested = "Off")
    OBVIOUS
  <2>2. owned = EndIf(condition, served, outcome)
    BY <1>6, <2>1 DEF Owned
  <2>3. \/ owned = served
        \/ condition /\ Ended(served, owned)
    BY <1>15, <2>2, EndIfFields
  <2>4. CASE owned = served
    BY <1>14, <1>15, <2>4
  <2>5. CASE condition /\ Ended(served, owned)
    <3>1. Agreeing(served)
      BY <2>1, <2>5 DEF Agreeing
    <3>2. condition => Quiet(served) \/ served.blade.requested = "Off"
      BY <2>1
    <3>3. Told(owned) /\ Clear(owned, trouble)
      BY <1>14, <1>15, <2>2, <3>1, <3>2, EndIfWithin
    <3>4. QED
      BY <1>15, <2>5, <3>3, EndedBlade
  <2>6. QED
    BY <2>3, <2>4, <2>5
<1>17. \/ d = owned
       \/ ~owned.blade.satisfied /\ OnlyBlade(owned, d) /\ d.blade = Fail(owned.blade)
  BY <1>7, <1>16, DispatchFields
<1>18. QED
  BY <1>16, <1>17, FailedWithin

\* What a drive of the blade leaves whatever was told before: a demand that is permitted,
\* nobody waiting for a settled blade, nobody past the deadline waiting for the session.
Tidy(n) == Permitted(n.blade) /\ Settled(n)

LEMMA EndedTidy ==
  ASSUME NEW n \in Nodes, NEW m, Ended(n, m)
  PROVE  Tidy(m)
  BY EndedBlade DEF Tidy, Permitted, Settled

LEMMA FailedTidy ==
  ASSUME NEW n \in Nodes, NEW m, OnlyBlade(n, m), m.blade = Fail(n.blade)
  PROVE  Tidy(m)
<1>1. n.blade \in Blades
  BY DEF Nodes
<1>2. m.blade.requested = "Off" /\ ~m.blade.satisfied
  BY <1>1, FailFields
<1>3. QED
  BY <1>2 DEF Tidy, Permitted, Settled

LEMMA AgedTidy ==
  ASSUME NEW n \in Nodes, Permitted(n.blade), NEW trouble,
         NEW outcome \in Outcomes, NEW d, d = Aged(n, trouble, outcome)
  PROVE  d \in Nodes /\ Permitted(d.blade) /\ (Settled(n) => Settled(d))
<1>1. PICK alive, b :
        /\ \/ alive = n /\ (n.session.failed \/ ~n.connected => ~n.test \/ n.motion)
           \/ (n.session.failed \/ ~n.connected) /\ Ended(n, alive)
        /\ alive \in Nodes
        /\ b = Permission(alive.blade, BladeAllowed(alive, trouble))
        /\ OnlyBlade(alive, d) /\ d.blade = Ticked(b, trouble)
  BY AgedFields
<1>2. PICK allowed \in BOOLEAN : allowed = BladeAllowed(alive, trouble)
  BY DEF BladeAllowed
<1>3. alive.blade \in Blades /\ b = Permission(alive.blade, allowed)
  BY <1>1, <1>2 DEF Nodes
<1>4. /\ b \in Blades /\ b.allowed = allowed
      /\ \/ /\ ~(alive.blade.allowed /\ ~allowed)
            /\ b.requested = alive.blade.requested /\ b.satisfied = alive.blade.satisfied
         \/ /\ alive.blade.allowed /\ ~allowed
            /\ b.requested = "Off" /\ ~b.satisfied
  BY <1>3, PermissionFields
<1>5. d.blade = b \/ (d.blade.requested = "Off" /\ ~d.blade.satisfied)
  BY <1>1, <1>4, TickedFields, FailFields
<1>6. Permitted(alive.blade) /\ (Settled(n) => Settled(alive))
  BY <1>1, EndedTidy DEF Tidy
<1>7. d \in Nodes /\ d.replies = alive.replies
  BY <1>1 DEF OnlyBlade
<1>8. Permitted(d.blade)
  BY <1>4, <1>5, <1>6 DEF Permitted
<1>9. Settled(alive) => Settled(d)
  BY <1>4, <1>5, <1>7 DEF Settled
<1>10. QED
  BY <1>6, <1>7, <1>8, <1>9

LEMMA ServeStartsTidy ==
  ASSUME NEW held, NEW n, Sound(n, held), Permitted(n.blade), NEW trouble,
         NEW m, m = ServeStarts(n, trouble)
  PROVE  /\ Permitted(m.blade) /\ \A s \in m.starts : ~s.late
         /\ \A s \in m.starts : s \in n.starts
<1>1. PICK left : /\ left = RefuseLost(n) /\ Sound(left, held)
                  /\ \/ m = left
                     \/ left.starts # {} /\ m = RequestStarts(left, trouble)
  BY ServeStartsFields
<1>2. n \in Nodes /\ left \in Nodes
  BY <1>1 DEF Sound
<1>3. left.blade = n.blade /\ left.starts = {s \in n.starts : ~Lost(n, s)}
  BY <1>1, <1>2, RefuseLostFields
<1>4. left.starts \subseteq n.starts /\ \A s \in left.starts : ~s.late
  BY <1>3 DEF Lost
<1>5. CASE m = left
  BY <1>3, <1>4, <1>5
<1>6. CASE left.starts # {} /\ m = RequestStarts(left, trouble)
  <2>1. PICK s, taken :
          /\ s \in left.starts
          /\ OnlyBlade([left EXCEPT !.starts = {}], taken) /\ s.direction \in Demands
          /\ taken.blade = Requested(left, s.direction, trouble)
          /\ Pushed(taken, left.starts, s.direction,
                    RequestResult(left, s.direction, trouble), m)
    BY <1>1, <1>6, RequestStartsFields
  <2>2. PICK bare : bare = [left EXCEPT !.starts = {}]
    OBVIOUS
  <2>3. bare.starts = {}
    BY <1>2, <2>2 DEF Nodes
  <2>4. m.starts = {} /\ m.blade = taken.blade
    BY <2>1, <2>2, <2>3 DEF OnlyBlade, Pushed
  <2>5. Permitted(taken.blade)
    <3>1. /\ taken.blade.allowed = left.blade.allowed
          /\ \/ taken.blade = left.blade
             \/ /\ RequestResult(left, s.direction, trouble) # "Rejected"
                /\ taken.blade.requested = s.direction
      BY <1>2, <2>1, RequestedFields
    <3>2. RequestResult(left, s.direction, trouble) # "Rejected" /\ s.direction # "Off"
            => left.blade.allowed
      BY DEF RequestResult
    <3>3. QED
      BY <1>3, <3>1, <3>2 DEF Permitted
  <2>6. QED
    BY <2>4, <2>5
<1>7. QED
  BY <1>1, <1>5, <1>6

LEMMA DriveBladeTidy ==
  ASSUME NEW held, NEW n, Sound(n, held), Permitted(n.blade), NEW trouble,
         NEW outcome \in Outcomes, NEW d, d = DriveBlade(n, trouble, outcome)
  PROVE  Tidy(d) /\ \A s \in d.starts : ~s.late
<1>1. PICK aged : aged = Aged(n, trouble, outcome)
  OBVIOUS
<1>2. PICK timely : timely = Expired(aged, outcome)
  OBVIOUS
<1>3. PICK started : started = ServeStarts(timely, trouble)
  OBVIOUS
<1>4. PICK expired : expired = ServeDeadline(started)
  OBVIOUS
<1>5. PICK served : served = ServeReplies(expired)
  OBVIOUS
<1>6. PICK owned : owned = Owned(served, outcome)
  OBVIOUS
<1>7. d = Dispatch(owned, trouble)
  BY <1>1, <1>2, <1>3, <1>4, <1>5, <1>6 DEF DriveBlade
<1>8. /\ Sound(timely, held) /\ Sound(started, held) /\ Sound(expired, held)
      /\ n \in Nodes /\ started \in Nodes /\ expired \in Nodes
  BY <1>1, <1>2, <1>3, <1>4, AgedSound, StagesSound, ServeStartsSound, ServeDeadlineSound
     DEF Sound
<1>9. aged \in Nodes /\ Permitted(aged.blade)
  BY <1>1, <1>8, AgedTidy
<1>10. Permitted(timely.blade)
  <2>1. timely = aged \/ Ended(aged, timely)
    BY <1>2, <1>9, EndIfFields DEF Expired
  <2>2. QED
    BY <1>9, <2>1, EndedTidy DEF Tidy
<1>11. Permitted(started.blade) /\ \A s \in started.starts : ~s.late
  BY <1>3, <1>8, <1>10, ServeStartsTidy
<1>12. Permitted(expired.blade) /\ expired.starts = started.starts
  <2>1. \/ expired = started
        \/ OnlyBlade(started, expired) /\ expired.blade = Fail(started.blade)
    BY <1>4, <1>8, ServeDeadlineFields
  <2>2. QED
    BY <1>8, <1>11, <2>1, FailedTidy DEF Tidy, OnlyBlade
<1>13. served \in Nodes /\ Tidy(served) /\ served.starts = started.starts
  <2>1. /\ served \in Nodes /\ served.blade = expired.blade
        /\ served.starts = expired.starts
        /\ expired.blade.satisfied => served.replies = {}
    BY <1>5, <1>8, ServeRepliesFields
  <2>2. QED
    BY <1>12, <2>1 DEF Tidy, Settled
<1>14. owned \in Nodes /\ Tidy(owned) /\ owned.starts \subseteq served.starts
  <2>1. owned = served \/ Ended(served, owned)
    BY <1>6, <1>13, EndIfFields DEF Owned
  <2>2. QED
    BY <1>13, <2>1, EndedTidy, EndedBlade
<1>15. d = owned \/ (OnlyBlade(owned, d) /\ d.blade = Fail(owned.blade))
  BY <1>7, <1>14, DispatchFields
<1>16. QED
  BY <1>11, <1>13, <1>14, <1>15, FailedTidy DEF OnlyBlade

\* SuccessIsTrue, of one record and without the caller's own words.
Truthful(n) ==
  \A t \in n.told : t.success =>
    /\ t.achieved
    /\ t.direction = n.blade.requested
    /\ t.direction \in Rotations =>
         /\ n.blade.satisfied /\ n.blade.allowed
         /\ n.connected /\ n.released /\ ~n.emergency /\ n.session.arm

LEMMA WithinTruthful ==
  ASSUME NEW n, NEW trouble, Told(n), Clear(n, trouble)
  PROVE  Truthful(n)
<1>1. "Off" \notin Rotations
  BY DEF Rotations
<1>2. ASSUME n.blade.requested # "Off"
      PROVE  n.blade.allowed /\ BladeAllowed(n, trouble)
  BY <1>2 DEF Clear, Holds
<1>3. QED
  BY <1>1, <1>2 DEF Told, Truthful, BladeAllowed

LEMMA QuietTruthful ==
  ASSUME NEW n, Quiet(n)
  PROVE  Truthful(n)
  BY DEF Quiet, Truthful

\* Nobody held can succeed, so nobody was told a success.
LEMMA QuietByOrder ==
  ASSUME NEW held, NEW n, Sound(n, held), NEW ask, Orderly(n, ask, held)
  PROVE  Quiet(n)
<1>1. \A t \in n.told : t.caller \in held
  BY DEF Sound, Held, Answered
<1>2. QED
  BY <1>1 DEF Orderly, GoodAnswer, Quiet

LEMMA DriveSessionTidy ==
  ASSUME NEW n \in Nodes, NEW outcome \in Outcomes, NEW d, d = DriveSession(n, outcome)
  PROVE  /\ \A t \in d.told : t.success => t \in n.told
         /\ Quiet(n) => Quiet(d)
         /\ Permitted(n.blade) => Permitted(d.blade)
         /\ Tidy(n) => Tidy(d)
         /\ n.blade.requested = "Off" => d.blade.requested = "Off"
<1>1. PICK m : /\ Steered(n, outcome, m)
               /\ d = m \/ Ended(m, d)
  BY DriveSessionFields
<1>2. m \in Nodes /\ m.told = n.told /\ m.blade = n.blade /\ m.replies = n.replies
  BY <1>1 DEF Steered
<1>3. /\ \A t \in d.told : t.success => t \in m.told
      /\ Quiet(m) => Quiet(d)
  BY <1>1, EndedQuiet
<1>4. d = m \/ (Tidy(d) /\ d.blade.requested = "Off")
  BY <1>1, <1>2, EndedTidy, EndedBlade
<1>5. QED
  BY <1>2, <1>3, <1>4 DEF Quiet, Tidy, Permitted, Settled

\* The two drives in a row, of a bridge that told nobody a success yet.
LEMMA DrivesTrue ==
  ASSUME NEW held, NEW n, Sound(n, held), NEW ask, NEW X, Orderly(n, ask, X),
         Quiet(n), Permitted(n.blade), NEW trouble, NEW outcome \in Outcomes,
         NEW d, d = DriveBlade(DriveSession(n, outcome), trouble, outcome)
  PROVE  Told(d) /\ Clear(d, trouble) /\ Tidy(d) /\ \A s \in d.starts : ~s.late
<1>1. PICK m : m = DriveSession(n, outcome)
  OBVIOUS
<1>2. n \in Nodes /\ Sound(m, held)
  BY <1>1, DriveSessionSound DEF Sound
<1>3. Armed(m) /\ Quiet(m) /\ Permitted(m.blade)
  BY <1>1, <1>2, DriveSessionArmed, DriveSessionTidy
<1>4. Orderly(m, ask, X)
  BY <1>1, <1>2, DriveSessionLeads DEF Leads
<1>5. Told(m) /\ Backed(m, trouble)
  BY <1>3, QuietTold DEF Backed
<1>6. d = DriveBlade(m, trouble, outcome)
  BY <1>1
<1>7. Told(d) /\ Clear(d, trouble)
  BY <1>2, <1>3, <1>4, <1>5, <1>6, DriveBladeWithin
<1>8. QED
  BY <1>2, <1>3, <1>6, <1>7, DriveBladeTidy

\* What a drive tells: only those who waited for the session succeed, as they asked.
Scoped(n, d) == \A t \in n.told : t.success => t.direction = d

LEMMA ServeStartsScope ==
  ASSUME NEW held, NEW n, Sound(n, held), Settled(n), NEW d, Scoped(n, d),
         \A s \in n.starts : s.direction = d,
         NEW trouble, NEW m, m = ServeStarts(n, trouble)
  PROVE  Settled(m) /\ Scoped(m, d)
<1>1. PICK left : /\ left = RefuseLost(n) /\ Sound(left, held)
                  /\ \/ m = left
                     \/ left.starts # {} /\ m = RequestStarts(left, trouble)
  BY ServeStartsFields
<1>2. n \in Nodes /\ left \in Nodes
  BY <1>1 DEF Sound
<1>3. PICK lost : lost = {s \in n.starts : Lost(n, s)}
  OBVIOUS
<1>4. /\ left.blade = n.blade /\ left.replies = n.replies
      /\ left.starts = {s \in n.starts : ~Lost(n, s)}
      /\ left.told = n.told \cup Refusals(lost)
  BY <1>1, <1>2, <1>3, RefuseLostFields
<1>5. \A t \in left.told : t.success => t \in n.told
  BY <1>4, RefusalsQuiet
<1>6. Settled(left) /\ Scoped(left, d)
  BY <1>4, <1>5 DEF Settled, Scoped
<1>7. CASE left.starts # {} /\ m = RequestStarts(left, trouble)
  <2>1. PICK s, taken :
          /\ s \in left.starts
          /\ OnlyBlade([left EXCEPT !.starts = {}], taken) /\ s.direction \in Demands
          /\ taken.blade = Requested(left, s.direction, trouble)
          /\ Pushed(taken, left.starts, s.direction,
                    RequestResult(left, s.direction, trouble), m)
    BY <1>1, <1>7, RequestStartsFields
  <2>2. PICK bare : bare = [left EXCEPT !.starts = {}]
    OBVIOUS
  <2>3. bare.replies = left.replies /\ bare.told = left.told
    BY <1>2, <2>2 DEF Nodes
  <2>4. taken.replies = left.replies /\ taken.told = left.told
    BY <2>1, <2>2, <2>3 DEF OnlyBlade
  <2>5. PICK result : result = RequestResult(left, s.direction, trouble)
    OBVIOUS
  <2>6. s.direction = d
    BY <1>4, <2>1
  <2>7. /\ m.blade = taken.blade
        /\ \A r \in m.replies : r \in left.replies \/ result = "Pending"
        /\ \A t \in m.told : t \in left.told \/ t.direction = d
    BY <2>1, <2>4, <2>5, <2>6 DEF Pushed
  <2>8. Scoped(m, d)
    BY <1>6, <2>7 DEF Scoped
  <2>9. Settled(m)
    <3>1. \/ taken.blade = left.blade /\ (result = "Rejected" \/ d = left.blade.requested)
          \/ ~taken.blade.satisfied
      BY <1>2, <2>1, <2>5, <2>6, RequestedFields
    <3>2. result = "Pending" /\ d = left.blade.requested => ~left.blade.satisfied
      BY <2>5, <2>6 DEF RequestResult
    <3>3. ASSUME taken.blade.satisfied PROVE m.replies = {}
      <4>1. taken.blade = left.blade /\ result # "Pending"
        BY <3>1, <3>2, <3>3
      <4>2. left.replies = {}
        BY <1>6, <3>3, <4>1 DEF Settled
      <4>3. QED
        BY <2>7, <4>1, <4>2
    <3>4. QED
      BY <2>7, <3>3 DEF Settled
  <2>10. QED
    BY <2>8, <2>9
<1>8. QED
  BY <1>1, <1>6, <1>7

LEMMA DriveBladeScope ==
  ASSUME NEW held, NEW n, Sound(n, held), Permitted(n.blade), Settled(n), Quiet(n),
         NEW d, \A s \in n.starts : s.direction = d,
         NEW trouble, NEW outcome \in Outcomes,
         NEW m, m = DriveBlade(n, trouble, outcome)
  PROVE  Scoped(m, d)
<1>1. PICK aged : aged = Aged(n, trouble, outcome)
  OBVIOUS
<1>2. PICK timely : timely = Expired(aged, outcome)
  OBVIOUS
<1>3. PICK started : started = ServeStarts(timely, trouble)
  OBVIOUS
<1>4. PICK expired : expired = ServeDeadline(started)
  OBVIOUS
<1>5. PICK served : served = ServeReplies(expired)
  OBVIOUS
<1>6. PICK owned : owned = Owned(served, outcome)
  OBVIOUS
<1>7. m = Dispatch(owned, trouble)
  BY <1>1, <1>2, <1>3, <1>4, <1>5, <1>6 DEF DriveBlade
<1>8. /\ Sound(timely, held) /\ Sound(started, held) /\ Sound(expired, held)
      /\ n \in Nodes /\ started \in Nodes
  BY <1>1, <1>2, <1>3, <1>4, AgedSound, StagesSound, ServeStartsSound, ServeDeadlineSound
     DEF Sound
<1>9. aged \in Nodes /\ Settled(aged) /\ Quiet(aged) /\ aged.starts \subseteq n.starts
  <2>1. aged \in Nodes /\ Settled(aged)
    BY <1>1, <1>8, AgedTidy
  <2>2. PICK passed : (passed = n \/ Ended(n, passed)) /\ OnlyBlade(passed, aged)
    BY <1>1, <1>8, AgedFields
  <2>3. Quiet(passed) /\ passed.starts \subseteq n.starts
    BY <1>8, <2>2, EndedQuiet, EndedBlade
  <2>4. QED
    BY <2>1, <2>2, <2>3 DEF OnlyBlade, Quiet
<1>10. Settled(timely) /\ Quiet(timely) /\ timely.starts \subseteq n.starts
  <2>1. timely = aged \/ Ended(aged, timely)
    BY <1>2, <1>9, EndIfFields DEF Expired
  <2>2. QED
    BY <1>9, <2>1, EndedQuiet, EndedBlade, EndedTidy DEF Tidy
<1>11. Settled(started) /\ Scoped(started, d)
  <2>1. Scoped(timely, d) /\ \A s \in timely.starts : s.direction = d
    BY <1>10 DEF Quiet, Scoped
  <2>2. QED
    BY <1>3, <1>8, <1>10, <2>1, ServeStartsScope
<1>12. Settled(expired) /\ Scoped(expired, d)
  <2>1. \/ expired = started
        \/ OnlyBlade(started, expired) /\ expired.blade = Fail(started.blade)
    BY <1>4, <1>8, ServeDeadlineFields
  <2>2. QED
    BY <1>8, <1>11, <2>1, FailedTidy DEF Tidy, OnlyBlade, Scoped
<1>13. served \in Nodes /\ Scoped(served, d)
  <2>1. /\ served \in Nodes
        /\ \A t \in served.told :
             \/ t \in expired.told
             \/ \E r \in expired.replies : t.success => expired.blade.satisfied
    BY <1>5, <1>8, ServeRepliesFields
  <2>2. QED
    BY <1>12, <2>1 DEF Settled, Scoped
<1>14. owned \in Nodes /\ Scoped(owned, d)
  <2>1. owned = served \/ Ended(served, owned)
    BY <1>6, <1>13, EndIfFields DEF Owned
  <2>2. QED
    BY <1>13, <2>1, EndedQuiet, EndedBlade DEF Scoped
<1>15. m = owned \/ (OnlyBlade(owned, m) /\ m.blade = Fail(owned.blade))
  BY <1>7, <1>14, DispatchFields
<1>16. QED
  BY <1>14, <1>15 DEF OnlyBlade, Scoped

-----------------------------------------------------------------------------
(* The requests: what is told is true when the handler ends. *)

LEMMA TurnOffTrue ==
  ASSUME NEW caller \in Callers, NEW held, caller \notin held, NEW n, Sound(n, held),
         NEW ask, NEW X, Orderly(n, ask, X), n.told = {},
         ask[caller] = "Off", caller \notin X,
         NEW trouble, NEW outcome \in Outcomes,
         NEW d, d = TurnOff(n, caller, trouble, outcome)
  PROVE  Tidy(d) /\ Truthful(d)
<1>1. PICK settled, taken, queued, result :
           /\ OffSettled(n, held, settled)
           /\ OffAsked(settled, caller, trouble, taken, result, queued)
           /\ d = DriveSession(DriveBlade(queued, trouble, outcome), outcome)
  BY TurnOffStages
<1>2. PICK Y : Y = X \cup {c \in held : ask[c] \in Rotations}
  OBVIOUS
<1>3. \A c \in Y : c \in X \/ ask[c] \in Rotations
  BY <1>2
<1>4. /\ Sound(queued, held \cup {caller}) /\ Orderly(queued, ask, Y)
      /\ OnlyBlade(settled, taken) /\ taken.blade.requested = "Off"
      /\ AskedFor(taken, caller, "Off", result, queued)
  BY <1>1, <1>3, OffQueued
<1>5. /\ queued.starts = {} /\ queued.blade.requested = "Off"
      /\ \A t \in queued.told :
           \/ t \in settled.told
           \/ /\ t.direction = "Off" /\ t.success = (result = "Confirmed")
              /\ t.success /\ Achieved(taken.blade, "Off") => t.achieved
  BY <1>1, <1>4 DEF OffSettled, OnlyBlade, AskedFor
<1>6. \A t \in settled.told : ~t.success
  BY <1>1, RefusalFields DEF OffSettled
<1>7. Told(queued) /\ Permitted(queued.blade)
  <2>1. ASSUME result = "Confirmed" PROVE Achieved(taken.blade, "Off")
    <3>1. RequestResult(settled, "Off", trouble) = "Confirmed"
      BY <1>1, <2>1 DEF OffAsked
    <3>2. taken.blade = Requested(settled, "Off", trouble)
      <4>1. settled \in Nodes /\ Requested(settled, "Off", trouble) \in Blades
        BY <1>1, RequestedType DEF OffSettled, Sound, Demands
      <4>2. QED
        BY <1>1, <4>1, BladeSet DEF OffAsked, Asks
    <3>3. QED
      BY <3>1, <3>2, ConfirmedAchieved
  <2>2. \A t \in queued.told : t.success => t.achieved /\ t.direction = "Off"
    BY <1>5, <1>6, <2>1
  <2>3. QED
    BY <1>5, <2>2 DEF Told, Permitted
<1>8. Backed(queued, trouble)
  BY <1>5 DEF Backed, Agreeing
<1>9. Armed(queued)
  <2>1. Armed(settled)
    BY <1>1 DEF OffSettled, Armed
  <2>2. QED
    BY <1>4, <2>1, ArmedSame DEF OnlyBlade, AskedFor
<1>10. PICK m : m = DriveBlade(queued, trouble, outcome)
  OBVIOUS
<1>11. Told(m) /\ Tidy(m)
  BY <1>4, <1>7, <1>8, <1>9, <1>10, DriveBladeWithin, DriveBladeTidy
<1>12. m \in Nodes /\ Sound(m, held \cup {caller}) /\ Orderly(m, ask, Y)
  <2>1. Sound(m, held \cup {caller})
    BY <1>4, <1>10, DriveBladeSound
  <2>2. Leads(queued, m, ask, Y)
    BY <1>4, <1>10, DriveBladeLeads
  <2>3. QED
    BY <2>1, <2>2 DEF Leads
<1>13. ASSUME NEW t \in m.told, t.success
       PROVE  t.achieved /\ t.direction = "Off" /\ m.blade.requested = "Off"
  <2>1. t.caller \in held \cup {caller} /\ t.direction \in Demands
    BY <1>12 DEF Sound, Held, Answered, Nodes, Responses
  <2>2. t.direction = ask[t.caller] /\ t.caller \notin Y
    BY <1>12, <1>13 DEF Orderly, GoodAnswer
  <2>3. t.direction \notin Rotations
    BY <1>2, <2>1, <2>2 DEF Rotations
  <2>4. t.direction = "Off"
    BY <2>1, <2>3 DEF Demands
  <2>5. QED
    BY <1>11, <1>13, <2>4 DEF Told
<1>14. d = DriveSession(m, outcome)
  BY <1>1, <1>10
<1>15. /\ \A t \in d.told : t.success => t \in m.told
       /\ Tidy(d) /\ (m.blade.requested = "Off" => d.blade.requested = "Off")
  BY <1>11, <1>12, <1>14, DriveSessionTidy
<1>16. "Off" \notin Rotations
  BY DEF Rotations
<1>17. Truthful(d)
  BY <1>13, <1>15, <1>16 DEF Truthful
<1>18. QED
  BY <1>15, <1>17

LEMMA SafetyDisarmTidy ==
  ASSUME NEW held, NEW n, Sound(n, held), n.told = {},
         NEW trouble, NEW outcome \in Outcomes, NEW d, d = SafetyDisarm(n, trouble, outcome)
  PROVE  Tidy(d)
<1>1. PICK c : /\ Sound(c, held) /\ c \in Nodes /\ Voided(n, c)
               /\ d = DriveSession(DriveBlade(c, trouble, outcome), outcome)
  BY SafetyDisarmStages
<1>2. PICK m : m = DriveBlade(c, trouble, outcome)
  OBVIOUS
<1>3. n.blade \in Blades
  BY DEF Sound, Nodes
<1>4. Permitted(c.blade)
  BY <1>1, <1>3, ForceOffFields DEF Voided, Permitted
<1>5. Sound(m, held) /\ Tidy(m)
  BY <1>1, <1>2, <1>4, DriveBladeSound, DriveBladeTidy
<1>6. QED
  BY <1>1, <1>2, <1>5, DriveSessionTidy DEF Sound

\* The first drive of a request for ON.
LEMMA PreparedTrue ==
  ASSUME NEW held, NEW n, Sound(n, held), NEW ask, NEW X, Orderly(n, ask, X),
         n.told = {}, Tidy(n), NEW d, NEW trouble, NEW outcome \in Outcomes,
         NEW driven, driven = Prepared(n, d, trouble, outcome)
  PROVE  /\ Told(driven) /\ Clear(driven, trouble) /\ Tidy(driven) /\ Scoped(driven, d)
         /\ \A s \in driven.starts : ~s.late
         /\ Armed(driven)
<1>1. PICK same :
        same = IF \E s \in n.starts : s.direction # d THEN CancelPendingStarts(n) ELSE n
  OBVIOUS
<1>2. n \in Nodes
  BY DEF Sound
<1>3. driven = DriveBlade(DriveSession(same, outcome), trouble, outcome)
  BY <1>1 DEF Prepared
<1>4. /\ Sound(same, held) /\ Orderly(same, ask, X) /\ Quiet(same) /\ Tidy(same)
      /\ \A s \in same.starts : s.direction = d
  <2>1. CASE \E s \in n.starts : s.direction # d
    <3>1. same = CancelPendingStarts(n)
      BY <1>1, <2>1
    <3>2. /\ same.blade = n.blade /\ same.replies = n.replies /\ same.starts = {}
          /\ same.told = n.told \cup Refusals(n.starts)
      BY <1>2, <3>1, CancelFields
    <3>3. Quiet(same)
      BY <3>2, RefusalFields DEF Quiet
    <3>4. Tidy(same)
      BY <3>2 DEF Tidy, Permitted, Settled
    <3>5. Sound(same, held) /\ Orderly(same, ask, X)
      BY <1>2, <3>1, CancelSound, CancelLeads DEF Leads
    <3>6. QED
      BY <3>2, <3>3, <3>4, <3>5
  <2>2. CASE ~\E s \in n.starts : s.direction # d
    <3>1. same = n
      BY <1>1, <2>2
    <3>2. QED
      BY <2>2, <3>1 DEF Quiet
  <2>3. QED
    BY <2>1, <2>2
<1>5. PICK m : m = DriveSession(same, outcome)
  OBVIOUS
<1>6. same \in Nodes /\ Sound(m, held) /\ Leads(same, m, ask, X)
  BY <1>4, <1>5, DriveSessionSound, DriveSessionLeads DEF Sound
<1>7. Quiet(m) /\ Tidy(m)
  BY <1>4, <1>5, <1>6, DriveSessionTidy
<1>8. \A s \in m.starts : s.direction = d
  BY <1>4, <1>6 DEF Leads
<1>9. Scoped(driven, d)
  BY <1>3, <1>5, <1>6, <1>7, <1>8, DriveBladeScope DEF Tidy
<1>10. Told(driven) /\ Clear(driven, trouble) /\ Tidy(driven) /\ \A s \in driven.starts : ~s.late
  BY <1>3, <1>4, DrivesTrue DEF Tidy
<1>11. Armed(driven)
  BY <1>3, <1>4, DrivesReasoned DEF Reasoned
<1>12. QED
  BY <1>9, <1>10, <1>11

\* What was told keeps true while the session is driven again.
Promised(n, d, trouble) ==
  \/ Quiet(n)
  \/ /\ Told(n) /\ n.blade.requested = d
     /\ n.blade.satisfied /\ n.blade.allowed
     /\ Holds(n, trouble) /\ "esc" \notin trouble

LEMMA PromisedTruthful ==
  ASSUME NEW n, NEW d, NEW trouble, Promised(n, d, trouble)
  PROVE  Truthful(n)
<1>1. CASE Quiet(n)
  BY <1>1, QuietTruthful
<1>2. CASE ~Quiet(n)
  <2>1. Told(n) /\ Clear(n, trouble)
    BY <1>2 DEF Promised, Clear
  <2>2. QED
    BY <2>1, WithinTruthful
<1>3. QED
  BY <1>1, <1>2

LEMMA DrivenPromised ==
  ASSUME NEW n, NEW d \in Rotations, NEW trouble, Told(n), Clear(n, trouble), Scoped(n, d)
  PROVE  Promised(n, d, trouble)
<1>1. d # "Off"
  BY DEF Rotations
<1>2. ASSUME NEW t \in n.told, t.success
      PROVE  n.blade.requested = d /\ n.blade.satisfied
  BY <1>1, <1>2 DEF Told, Scoped
<1>3. QED
  BY <1>1, <1>2 DEF Clear, Promised, Quiet

\* A refusal more, or one who waits for the session.
LEMMA RefusedPromised ==
  ASSUME NEW n, NEW m, SameRest(n, m), m.blade = n.blade, m.replies = n.replies,
         \A t \in m.told : t \in n.told \/ ~t.success
  PROVE  /\ Tidy(n) => Tidy(m)
         /\ \A d, trouble : Promised(n, d, trouble) => Promised(m, d, trouble)
<1>1. Tidy(n) => Tidy(m)
  BY DEF Tidy, Permitted, Settled
<1>2. (Quiet(n) => Quiet(m)) /\ (Told(n) => Told(m))
  BY DEF Quiet, Told
<1>3. ASSUME NEW d, NEW trouble, Promised(n, d, trouble)
      PROVE  Promised(m, d, trouble)
  <2>1. Holds(m, trouble) = Holds(n, trouble)
    BY HoldsSame
  <2>2. QED
    BY <1>2, <1>3, <2>1 DEF Promised
<1>4. QED
  BY <1>1, <1>3

\* The second drive of the session finds what the first left.
LEMMA OpenedPromised ==
  ASSUME NEW held, NEW driven, Sound(driven, held), Armed(driven), Tidy(driven),
         NEW d, NEW trouble, Promised(driven, d, trouble),
         NEW second \in Outcomes, second \in SecondDrive(driven),
         NEW tested, NEW opened, OnOpened(driven, held, second, tested, opened)
  PROVE  /\ opened \in Nodes /\ Armed(opened) /\ Tidy(opened)
         /\ Promised(opened, d, trouble)
<1>1. /\ tested \in Nodes /\ SameInputs(driven, tested) /\ tested.blade = driven.blade
      /\ tested.replies = driven.replies /\ tested.told = driven.told
      /\ tested.test = (driven.test \/ ~driven.motion)
      /\ opened = DriveSession(tested, second) /\ driven \in Nodes
  BY DEF OnOpened, Sound
<1>2. opened \in Nodes /\ Armed(opened)
  BY <1>1, DriveSessionArmed
<1>3. Tidy(opened)
  <2>1. Tidy(tested)
    BY <1>1 DEF Tidy, Permitted, Settled
  <2>2. QED
    BY <1>1, <2>1, DriveSessionTidy
<1>4. CASE Quiet(driven)
  <2>1. Quiet(tested)
    BY <1>1, <1>4 DEF Quiet
  <2>2. Quiet(opened)
    BY <1>1, <2>1, DriveSessionTidy
  <2>3. QED
    BY <1>2, <1>3, <2>2 DEF Promised
<1>5. CASE ~Quiet(driven)
  <2>1. /\ Told(driven) /\ driven.blade.requested = d
        /\ driven.blade.satisfied /\ driven.blade.allowed
        /\ Holds(driven, trouble) /\ "esc" \notin trouble
    BY <1>5 DEF Promised
  <2>2. /\ driven.session.ready /\ driven.session.arm /\ driven.connected /\ driven.released
        /\ ~driven.emergency /\ "silent" \notin trouble
        /\ (driven.session.failed => driven.motion)
    BY <2>1 DEF Holds, BladeAllowed
  <2>3. second = [broken |-> driven.session.failed, ready |-> driven.session.ready,
                  failed |-> driven.session.failed]
    BY <2>2 DEF SecondDrive
  <2>4. second.ready /\ (second.broken => driven.motion) /\ (second.failed => driven.motion)
    BY <2>2, <2>3
  <2>5. PICK m : /\ Steered(tested, second, m)
                 /\ opened = m \/ (second.broken /\ Ended(m, opened))
    BY <1>1, DriveSessionFields
  <2>6. /\ SameInputs(driven, m) /\ m.blade = driven.blade /\ m.told = driven.told
        /\ m.session.arm /\ m.session.ready /\ (m.session.failed => m.motion)
    <3>1. /\ SameInputs(tested, m) /\ m.blade = tested.blade /\ m.told = tested.told
          /\ m.session.arm = (~tested.emergency /\ (tested.motion \/ tested.test))
          /\ m.session.ready = (second.ready /\ tested.connected)
          /\ m.session.failed = second.failed
      BY <2>5 DEF Steered
    <3>2. SameInputs(driven, m) /\ m.blade = driven.blade /\ m.told = driven.told
      BY <1>1, <3>1 DEF SameInputs
    <3>3. ~tested.emergency /\ tested.connected /\ (tested.motion \/ tested.test)
      BY <1>1, <2>2 DEF SameInputs
    <3>4. m.session.arm /\ m.session.ready
      BY <2>4, <3>1, <3>3
    <3>5. m.session.failed => m.motion
      BY <2>4, <3>1, <3>2 DEF SameInputs
    <3>6. QED
      BY <3>2, <3>4, <3>5
  <2>7. opened = m
    BY <2>4, <2>5, <2>6 DEF Ended, SameInputs
  <2>8. Holds(m, trouble)
    BY <2>2, <2>6 DEF Holds, BladeAllowed, SameInputs
  <2>9. Told(m)
    BY <2>1, <2>6 DEF Told
  <2>10. Promised(m, d, trouble)
    BY <2>1, <2>6, <2>8, <2>9 DEF Promised
  <2>11. QED
    BY <1>2, <1>3, <2>7, <2>10
<1>6. QED
  BY <1>4, <1>5

\* The caller of an ON asks the blade at once.
LEMMA AskedTrue ==
  ASSUME NEW caller \in Callers, NEW held, NEW ask, NEW X, NEW opened \in Nodes,
         Armed(opened), Tidy(opened), NEW d \in Rotations, NEW trouble,
         Promised(opened, d, trouble), \A s \in opened.starts : ~s.late /\ s.direction = d,
         NEW second \in Outcomes, NEW m,
         AskedInTurn(opened, caller, held, d, trouble, second, ask, X, m)
  PROVE  Tidy(m) /\ Truthful(m)
<1>1. PICK permitted, taken, result, queued :
        /\ opened.session.ready /\ ~opened.session.failed
        /\ permitted \in Nodes /\ OnlyBlade(opened, permitted)
        /\ permitted.blade = Permission(opened.blade, BladeAllowed(opened, trouble))
        /\ result = RequestResult(permitted, d, trouble)
        /\ OnlyBlade(permitted, taken)
        /\ taken.blade = Requested(permitted, d, trouble)
        /\ AskedFor(taken, caller, d, result, queued)
        /\ Sound(queued, held \cup {caller}) /\ Orderly(queued, ask, X)
        /\ m = DriveBlade(queued, trouble, second)
  BY DEF AskedInTurn
<1>2. d \in Demands /\ d # "Off" /\ opened.blade \in Blades /\ permitted.blade \in Blades
  BY <1>1 DEF Demands, Rotations, Nodes
<1>3. /\ SameRest(opened, queued) /\ queued.blade = taken.blade
      /\ queued.starts = opened.starts
      /\ \A t \in queued.told :
           \/ t \in opened.told
           \/ /\ t.direction = d /\ t.success = (result = "Confirmed")
              /\ t.success /\ Achieved(taken.blade, d) => t.achieved
  BY <1>1 DEF OnlyBlade, AskedFor, SameRest, SameInputs
<1>4. Armed(queued) /\ Holds(queued, trouble) = Holds(opened, trouble)
  BY <1>3, ArmedSame, HoldsSame
<1>5. PICK allowed \in BOOLEAN : allowed = BladeAllowed(opened, trouble)
  BY DEF BladeAllowed
<1>6. /\ permitted.blade.allowed = allowed
      /\ \/ /\ ~(opened.blade.allowed /\ ~allowed)
            /\ permitted.blade.requested = opened.blade.requested
            /\ permitted.blade.satisfied = opened.blade.satisfied
         \/ /\ opened.blade.allowed /\ ~allowed
            /\ permitted.blade.requested = "Off" /\ ~permitted.blade.satisfied
  BY <1>1, <1>2, <1>5, PermissionFields
<1>7. /\ taken.blade.allowed = allowed
      /\ \/ /\ taken.blade = permitted.blade
            /\ result = "Rejected" \/ d = permitted.blade.requested
         \/ /\ result # "Rejected" /\ d # permitted.blade.requested
            /\ taken.blade.requested = d
  BY <1>1, <1>2, <1>6, RequestedFields
<1>8. result # "Rejected" => permitted.blade.allowed /\ "esc" \notin trouble
  BY <1>1, <1>2 DEF RequestResult
<1>9. Permitted(queued.blade)
  <2>1. Permitted(permitted.blade)
    BY <1>6 DEF Tidy, Permitted
  <2>2. QED
    BY <1>3, <1>6, <1>7, <1>8, <2>1 DEF Permitted
<1>10. allowed => Holds(opened, trouble)
  BY <1>1, <1>5 DEF Holds
<1>11. \/ Quiet(queued)
       \/ /\ queued.blade.requested = d /\ queued.blade.satisfied /\ queued.blade.allowed
          /\ Holds(opened, trouble) /\ "esc" \notin trouble
          /\ \A t \in queued.told : t.success => t.direction = d /\ t.achieved
  <2>1. CASE Quiet(opened) /\ result # "Confirmed"
    BY <1>3, <2>1 DEF Quiet
  <2>2. CASE Quiet(opened) /\ result = "Confirmed"
    <3>1. d = permitted.blade.requested /\ permitted.blade.satisfied
      BY <1>1, <2>2 DEF RequestResult
    <3>2. queued.blade = permitted.blade /\ Achieved(taken.blade, d)
      BY <1>3, <1>7, <3>1 DEF Achieved
    <3>3. \A t \in queued.told : t.success => t.direction = d /\ t.achieved
      BY <1>3, <2>2, <3>2 DEF Quiet
    <3>4. permitted.blade.allowed /\ "esc" \notin trouble
      BY <1>8, <2>2
    <3>5. QED
      BY <1>6, <1>10, <3>1, <3>2, <3>3, <3>4
  <2>3. CASE ~Quiet(opened)
    <3>1. /\ Told(opened) /\ opened.blade.requested = d
          /\ opened.blade.satisfied /\ opened.blade.allowed
          /\ Holds(opened, trouble) /\ "esc" \notin trouble
      BY <2>3 DEF Promised
    <3>2. allowed
      BY <1>5, <3>1 DEF Holds
    <3>3. permitted.blade.requested = d /\ permitted.blade.satisfied
      BY <1>6, <3>1, <3>2
    <3>4. queued.blade = permitted.blade /\ Achieved(taken.blade, d)
      BY <1>3, <1>7, <3>3 DEF Achieved
    <3>5. \A t \in queued.told : t.success => t.direction = d /\ t.achieved
      BY <1>3, <3>1, <3>4 DEF Told
    <3>6. QED
      BY <1>6, <3>1, <3>2, <3>3, <3>4, <3>5
  <2>4. QED
    BY <2>1, <2>2, <2>3
<1>12. Told(queued)
  BY <1>11 DEF Told, Quiet
<1>13. Backed(queued, trouble)
  BY <1>3, <1>4, <1>11 DEF Backed, Agreeing
<1>14. Told(m) /\ Clear(m, trouble)
  BY <1>1, <1>4, <1>9, <1>12, <1>13, DriveBladeWithin
<1>15. Tidy(m)
  BY <1>1, <1>9, DriveBladeTidy
<1>16. QED
  BY <1>14, <1>15, WithinTruthful

LEMMA TurnOnTrue ==
  ASSUME NEW caller \in Callers, NEW held, caller \notin held,
         NEW driven, Sound(driven, held), NEW ask, NEW X, Orderly(driven, ask, X),
         NEW d \in Rotations, ask[caller] = d, caller \notin X,
         \A s \in driven.starts : ~s.late /\ s.direction = d,
         Armed(driven), Tidy(driven), NEW trouble, Promised(driven, d, trouble),
         NEW second \in Outcomes, second \in SecondDrive(driven),
         NEW m, m = TurnOn(driven, caller, d, trouble, second)
  PROVE  Tidy(m) /\ Truthful(m)
<1>1. PICK tested, opened :
        /\ OnOpened(driven, held, second, tested, opened)
        /\ \/ m = Refuse(driven, caller, d)
           \/ /\ driven.connected
              /\ \/ OnRefused(opened, caller, d, second, m)
                 \/ OnWaits(opened, caller, d, m)
                 \/ OnAsked(opened, caller, held, d, trouble, second, m)
  BY TurnOnStages
<1>2. d \in Demands /\ driven \in Nodes
  BY DEF Demands, Sound
<1>3. /\ opened \in Nodes /\ Armed(opened) /\ Tidy(opened) /\ Promised(opened, d, trouble)
  BY <1>1, OpenedPromised
<1>4. Orderly(opened, ask, X) /\ opened.starts \subseteq driven.starts
  BY <1>1, OpenedLeads DEF Leads
<1>5. ASSUME NEW n \in Nodes, Tidy(n), Promised(n, d, trouble), m = Refuse(n, caller, d)
      PROVE  Tidy(m) /\ Truthful(m)
  <2>1. /\ SameRest(n, m) /\ m.blade = n.blade /\ m.replies = n.replies
        /\ \A t \in m.told : t \in n.told \/ ~t.success
    BY <1>2, <1>5, RefuseFields
  <2>2. Tidy(m) /\ Promised(m, d, trouble)
    BY <1>5, <2>1, RefusedPromised
  <2>3. QED
    BY <2>2, PromisedTruthful
<1>6. CASE m = Refuse(driven, caller, d)
  BY <1>2, <1>5, <1>6
<1>7. CASE OnRefused(opened, caller, d, second, m)
  <2>1. PICK ended : ended = EndFailedBladeTest(opened, second)
    OBVIOUS
  <2>2. ended = opened \/ Ended(opened, ended)
    BY <1>3, <2>1, EndTestFields
  <2>3. CASE Ended(opened, ended)
    <3>1. ended \in Nodes /\ Tidy(ended) /\ (Quiet(opened) => Quiet(ended))
      BY <1>3, <2>3, EndedTidy, EndedQuiet, EndedBlade
    <3>2. Quiet(opened)
      BY <1>3, <1>7, <2>3 DEF Promised, Holds, OnRefused, Ended
    <3>3. Promised(ended, d, trouble)
      BY <3>1, <3>2 DEF Promised
    <3>4. QED
      BY <1>5, <1>7, <2>1, <3>1, <3>3 DEF OnRefused
  <2>4. CASE ended = opened
    BY <1>3, <1>5, <1>7, <2>1, <2>4 DEF OnRefused
  <2>5. QED
    BY <2>2, <2>3, <2>4
<1>8. CASE OnWaits(opened, caller, d, m)
  <2>1. /\ SameRest(opened, m) /\ m.blade = opened.blade /\ m.replies = opened.replies
        /\ \A t \in m.told : t \in opened.told \/ ~t.success
    BY <1>3, <1>8, WaitsFields
  <2>2. Tidy(m) /\ Promised(m, d, trouble)
    BY <1>3, <2>1, RefusedPromised
  <2>3. QED
    BY <2>2, PromisedTruthful
<1>9. CASE OnAsked(opened, caller, held, d, trouble, second, m)
  <2>1. AskedInTurn(opened, caller, held, d, trouble, second, ask, X, m)
    BY <1>3, <1>4, <1>9, OnQueued
  <2>2. \A s \in opened.starts : ~s.late /\ s.direction = d
    BY <1>4
  <2>3. QED
    BY <1>3, <2>1, <2>2, AskedTrue
<1>10. QED
  BY <1>1, <1>6, <1>7, <1>8, <1>9

-----------------------------------------------------------------------------
(* Every handler tells the truth. *)

SuccessInv == OrderInv /\ Reasoned(node) /\ Tidy(node) /\ Truthful(node)

\* Nothing was told yet.
LEMMA FreshTidy ==
  ASSUME SuccessInv
  PROVE  /\ MowerInv /\ Sound(Fresh, Waiting(node)) /\ Fresh \in Nodes
         /\ Orderly(Fresh, Asked, Barred)
         /\ Fresh.told = {} /\ Quiet(Fresh) /\ Tidy(Fresh) /\ Armed(Fresh)
<1>1. /\ MowerInv /\ Orderly(Fresh, Asked, Barred) /\ Tidy(node) /\ Armed(node)
  BY FreshOrderly DEF SuccessInv, OrderInv, Reasoned
<1>2. /\ Sound(Fresh, Waiting(node)) /\ Fresh \in Nodes /\ SameRest(node, Fresh)
      /\ Fresh.blade = node.blade /\ Fresh.replies = node.replies /\ Fresh.told = {}
  BY <1>1, FreshFields
<1>3. Quiet(Fresh) /\ Tidy(Fresh)
  BY <1>1, <1>2 DEF Quiet, Tidy, Permitted, Settled
<1>4. Armed(Fresh)
  BY <1>1, <1>2, ArmedSame
<1>5. QED
  BY <1>1, <1>2, <1>3, <1>4

\* The revisions do not matter.
LEMMA RenumberedTrue ==
  ASSUME NEW n \in Nodes, Tidy(n), Truthful(n), NEW m, m = Renumbered(n)
  PROVE  Tidy(m) /\ Truthful(m)
<1>1. PICK q : q = {[r EXCEPT !.revision = IF @ = n.blade.revision THEN 0 ELSE -1] :
                      r \in n.replies}
  OBVIOUS
<1>2. PICK b : b = [n.blade EXCEPT !.revision = 0]
  OBVIOUS
<1>3. n.blade \in Blades
  BY DEF Nodes
<1>4. /\ b.requested = n.blade.requested /\ b.satisfied = n.blade.satisfied
      /\ b.allowed = n.blade.allowed
  BY <1>2, <1>3 DEF Blades
<1>5. m = [n EXCEPT !.blade = b, !.replies = q]
  BY <1>1, <1>2 DEF Renumbered, Nodes
<1>6. /\ m.blade = b /\ m.replies = q /\ m.told = n.told /\ SameRest(n, m)
  BY <1>5 DEF Nodes, SameRest, SameInputs
<1>7. n.replies = {} => q = {}
  BY <1>1
<1>8. Tidy(m)
  BY <1>4, <1>6, <1>7 DEF Tidy, Permitted, Settled
<1>9. Truthful(m)
  BY <1>4, <1>6 DEF Truthful, SameRest, SameInputs
<1>10. QED
  BY <1>8, <1>9

SuccessStep == Tidy(node') /\ Truthful(node')

LEMMA TrueAfter ==
  ASSUME NEW after \in Nodes, Tidy(after), Truthful(after), node' = Renumbered(after)
  PROVE  SuccessStep
  BY RenumberedTrue DEF SuccessStep

LEMMA RequestIsTrue ==
  ASSUME SuccessInv, NEW caller \in Callers, NEW d \in Demands,
         NEW trouble, NEW outcome \in Outcomes,
         MowerRequest(caller, d, trouble, outcome)
  PROVE  SuccessStep
<1>1. /\ MowerInv /\ Sound(Fresh, Waiting(node)) /\ Orderly(Fresh, Asked, Barred)
      /\ Fresh.told = {} /\ Tidy(Fresh) /\ caller \notin Waiting(node)
  BY FreshTidy DEF MowerRequest
<1>2. PICK ask : ask = [c \in Callers |-> IF c = caller THEN d ELSE clients[c].direction]
  OBVIOUS
<1>3. /\ \A c \in Waiting(node) : ask[c] = Asked[c]
      /\ ask[caller] = d /\ caller \notin Barred
  BY <1>1, <1>2, WaitingCallers DEF Asked
<1>4. Orderly(Fresh, ask, Barred)
  BY <1>1, <1>3, OrderlyTransfer
<1>5. CASE d = "Off"
  <2>1. PICK after : after = TurnOff(Fresh, caller, trouble, outcome)
    OBVIOUS
  <2>2. Sound(after, Waiting(node) \cup {caller})
    BY <1>1, <2>1, TurnOffSound
  <2>3. Tidy(after) /\ Truthful(after)
    BY <1>1, <1>3, <1>4, <1>5, <2>1, TurnOffTrue
  <2>4. node' = Renumbered(after)
    BY <1>5, <2>1 DEF MowerRequest, Request
  <2>5. QED
    BY <2>2, <2>3, <2>4, TrueAfter DEF Sound
<1>6. CASE d # "Off"
  <2>1. d \in Rotations
    BY <1>6 DEF Demands
  <2>2. PICK driven : driven = Prepared(Fresh, d, trouble, outcome)
    OBVIOUS
  <2>3. Sound(driven, Waiting(node))
    BY <1>1, <2>2, PreparedSound
  <2>4. Leads(Fresh, driven, ask, Barred) /\ \A s \in driven.starts : s.direction = d
    BY <1>1, <1>4, <2>2, PreparedLeads
  <2>5. /\ Told(driven) /\ Clear(driven, trouble) /\ Tidy(driven) /\ Scoped(driven, d)
        /\ \A s \in driven.starts : ~s.late
        /\ Armed(driven)
    BY <1>1, <1>4, <2>2, PreparedTrue
  <2>6. Promised(driven, d, trouble)
    BY <2>1, <2>5, DrivenPromised
  <2>7. PICK second \in SecondDrive(driven) :
          Request(caller, d, TurnOn(driven, caller, d, trouble, second))
    BY <1>6, <2>2, Zenon DEF MowerRequest
  <2>8. second \in Outcomes
    BY <2>3, <2>7, SecondDriveType DEF Sound
  <2>9. PICK after : after = TurnOn(driven, caller, d, trouble, second)
    OBVIOUS
  <2>10. Orderly(driven, ask, Barred)
    BY <2>4 DEF Leads
  <2>11. \A s \in driven.starts : ~s.late /\ s.direction = d
    BY <2>4, <2>5
  <2>12. Tidy(after) /\ Truthful(after)
    BY <1>1, <1>3, <2>1, <2>3, <2>5, <2>6, <2>7, <2>8, <2>9, <2>10, <2>11, TurnOnTrue
  <2>13. Sound(after, Waiting(node) \cup {caller})
    BY <1>1, <2>1, <2>3, <2>8, <2>9, TurnOnSound
  <2>14. node' = Renumbered(after)
    BY <2>7, <2>9 DEF Request
  <2>15. QED
    BY <2>12, <2>13, <2>14, TrueAfter DEF Sound
<1>7. QED
  BY <1>5, <1>6

\* A handler that ends with both drives of a bridge that told no success yet.
LEMMA DrivesAreTrue ==
  ASSUME NEW n, Sound(n, Waiting(node)), NEW X, Orderly(n, Asked, X),
         Quiet(n), Permitted(n.blade), NEW trouble, NEW outcome \in Outcomes, NEW calledOff,
         Handler(DriveBlade(DriveSession(n, outcome), trouble, outcome), calledOff)
  PROVE  SuccessStep
<1>1. PICK after : after = DriveBlade(DriveSession(n, outcome), trouble, outcome)
  OBVIOUS
<1>2. Sound(after, Waiting(node))
  BY <1>1, DriveBoth
<1>3. Told(after) /\ Clear(after, trouble) /\ Tidy(after)
  BY <1>1, DrivesTrue
<1>4. Truthful(after)
  BY <1>3, WithinTruthful
<1>5. node' = Renumbered(after)
  BY <1>1 DEF Handler
<1>6. QED
  BY <1>2, <1>3, <1>4, <1>5, TrueAfter DEF Sound

LEMMA TimerIsTrue ==
  ASSUME SuccessInv, NEW outcome \in Outcomes, Timer(outcome)
  PROVE  SuccessStep
<1>1. /\ MowerInv /\ Sound(Fresh, Waiting(node)) /\ Orderly(Fresh, Asked, Barred)
      /\ Quiet(Fresh) /\ Permitted(Fresh.blade)
  BY FreshTidy DEF Tidy
<1>2. PICK t : Handler(DriveBlade(DriveSession(Fresh, outcome), t, outcome), FALSE)
  BY <1>1, TimerStart
<1>3. QED
  BY <1>1, <1>2, DrivesAreTrue

LEMMA StatusIsTrue ==
  ASSUME SuccessInv, NEW motion \in BOOLEAN, NEW trouble, NEW outcome \in Outcomes,
         HighLevelStatus(motion, trouble, outcome)
  PROVE  SuccessStep
<1>1. Fresh \in Nodes /\ Fresh.blade \in Blades /\ Permitted(Fresh.blade)
  BY FreshTidy DEF Nodes, Tidy
<1>2. PICK ends, left, X :
        /\ Sound(left, Waiting(node)) /\ Orderly(left, Asked, X)
        /\ Barred \subseteq X /\ (ends => X = Waiting(node))
        /\ \/ ~ends /\ left.blade = Fresh.blade /\ left.told = {}
           \/ ends /\ \E off : /\ Sound(off, Waiting(node)) /\ Voided(Fresh, off)
                               /\ left = DriveBlade(off, trouble, outcome)
        /\ Handler(DriveBlade(DriveSession(left, outcome), trouble, outcome), ends)
  BY StatusOrder DEF SuccessInv
<1>3. Quiet(left) /\ Permitted(left.blade)
  <2>1. CASE ~ends
    BY <1>1, <1>2, <2>1 DEF Quiet
  <2>2. CASE ends
    <3>1. PICK off : /\ Sound(off, Waiting(node)) /\ Voided(Fresh, off)
                     /\ left = DriveBlade(off, trouble, outcome)
      BY <1>2, <2>2
    <3>2. Permitted(off.blade)
      BY <1>1, <3>1, ForceOffFields DEF Voided, Permitted
    <3>3. Permitted(left.blade)
      BY <3>1, <3>2, DriveBladeTidy DEF Tidy
    <3>4. Quiet(left)
      BY <1>2, <2>2, QuietByOrder
    <3>5. QED
      BY <3>3, <3>4
  <2>3. QED
    BY <2>1, <2>2
<1>4. QED
  BY <1>2, <1>3, DrivesAreTrue

LEMMA StateIsTrue ==
  ASSUME SuccessInv, NEW connected \in BOOLEAN, NEW emergency \in BOOLEAN, NEW trouble,
         NEW outcome \in Outcomes, MavrosState(connected, emergency, trouble, outcome)
  PROVE  SuccessStep
<1>1. Fresh \in Nodes /\ Fresh.blade \in Blades /\ Permitted(Fresh.blade)
  BY FreshTidy DEF Nodes, Tidy
<1>2. PICK changes, left, X :
        /\ Sound(left, Waiting(node)) /\ Orderly(left, Asked, X)
        /\ Barred \subseteq X /\ (changes => X = Waiting(node))
        /\ left.blade = Fresh.blade \/ left.blade = ForceOff(Fresh.blade)
        /\ left.told \subseteq Refusals(Fresh.starts)
        /\ Handler(DriveBlade(DriveSession(left, outcome), trouble, outcome), changes)
  BY StateOrder DEF SuccessInv
<1>3. Quiet(left)
  BY <1>2, RefusalFields DEF Quiet
<1>4. Permitted(left.blade)
  BY <1>1, <1>2, ForceOffFields DEF Permitted
<1>5. QED
  BY <1>2, <1>3, <1>4, DrivesAreTrue

LEMMA ReleaseIsTrue ==
  ASSUME SuccessInv, NEW emergency \in BOOLEAN, NEW trouble, NEW outcome \in Outcomes,
         EmergencyReleased(emergency, trouble, outcome)
  PROVE  SuccessStep
<1>1. /\ MowerInv /\ Orderly(Fresh, Asked, Barred) /\ Fresh.told = {}
      /\ Permitted(Fresh.blade)
  BY FreshTidy DEF Tidy
<1>2. PICK n : /\ Sound(n, Waiting(node)) /\ n.connected = Fresh.connected
               /\ n.blade = Fresh.blade /\ n.starts = Fresh.starts
               /\ n.replies = Fresh.replies /\ n.told = Fresh.told
               /\ Handler(DriveBlade(DriveSession(n, outcome), trouble, outcome), FALSE)
  BY <1>1, ReleaseStart
<1>3. Orderly(n, Asked, Barred)
  BY <1>1, <1>2, OrderlySame
<1>4. Quiet(n) /\ Permitted(n.blade)
  BY <1>1, <1>2 DEF Quiet
<1>5. QED
  BY <1>2, <1>3, <1>4, DrivesAreTrue

LEMMA VelocityIsTrue ==
  ASSUME SuccessInv, NEW outcome \in Outcomes, CommandVelocity(outcome)
  PROVE  SuccessStep
<1>1. Fresh \in Nodes /\ Sound(Fresh, Waiting(node)) /\ Quiet(Fresh) /\ Tidy(Fresh)
  BY FreshTidy
<1>2. PICK after : after = DriveSession(Fresh, outcome)
  OBVIOUS
<1>3. Sound(after, Waiting(node)) /\ Tidy(after) /\ Quiet(after)
  BY <1>1, <1>2, DriveSessionSound, DriveSessionTidy
<1>4. Truthful(after)
  BY <1>3, QuietTruthful
<1>5. node' = Renumbered(after)
  BY <1>2 DEF CommandVelocity, Handler
<1>6. QED
  BY <1>3, <1>4, <1>5, TrueAfter DEF Sound

LEMMA BladeIsTrue ==
  ASSUME SuccessInv, NEW trouble, NEW outcome \in Outcomes,
         \/ BladeObserved(trouble, outcome)
         \/ BladeSettles(trouble, outcome)
         \/ BladeRefuses(trouble, outcome)
         \/ BladeDisturbed(trouble, outcome)
  PROVE  SuccessStep
<1>1. /\ MowerInv /\ Fresh \in Nodes /\ Orderly(Fresh, Asked, Barred)
      /\ Quiet(Fresh) /\ Tidy(Fresh) /\ Armed(Fresh)
  BY FreshTidy
<1>2. PICK n : /\ Sound(n, Waiting(node)) /\ OnlyBlade(Fresh, n)
               /\ \/ n.blade = Fresh.blade
                  \/ /\ ~Fresh.blade.failed
                     /\ n.blade = [Fresh.blade EXCEPT !.satisfied = TRUE]
                  \/ n.blade = Fail(Fresh.blade)
                  \/ n.blade = ForceOff(Fresh.blade)
               /\ Handler(DriveBlade(n, trouble, outcome), FALSE)
  BY <1>1, BladeStart
<1>3. Fresh.blade \in Blades /\ SafeBlade(Fresh.blade, Fresh.connected)
      /\ Permitted(Fresh.blade)
  BY <1>1 DEF Nodes, Orderly, Tidy
<1>4. /\ Newer(Fresh.blade, n.blade) /\ SafeBlade(n.blade, Fresh.connected)
      /\ Permitted(n.blade)
  <2>1. CASE n.blade = Fresh.blade
    BY <1>3, <2>1 DEF Newer
  <2>2. CASE n.blade = [Fresh.blade EXCEPT !.satisfied = TRUE]
    BY <1>3, <2>2 DEF Newer, SafeBlade, Blades, Permitted
  <2>3. CASE n.blade = Fail(Fresh.blade) \/ n.blade = ForceOff(Fresh.blade)
    <3>1. Newer(Fresh.blade, n.blade) /\ SafeBlade(n.blade, Fresh.connected)
      BY <1>3, <2>3, BladeStepsNewer
    <3>2. n.blade.requested = "Off"
      BY <1>3, <2>3, FailFields, ForceOffFields
    <3>3. QED
      BY <3>1, <3>2 DEF Permitted
  <2>4. QED
    BY <1>2, <2>1, <2>2, <2>3
<1>5. Leads(Fresh, n, Asked, Barred)
  BY <1>1, <1>2, <1>4, OnlyBladeLeads
<1>6. PICK after : after = DriveBlade(n, trouble, outcome)
  OBVIOUS
<1>7. Orderly(n, Asked, Barred)
  BY <1>5 DEF Leads
<1>8. Armed(n) /\ Quiet(n)
  <2>1. SameRest(Fresh, n) /\ n.told = Fresh.told
    BY <1>2 DEF OnlyBlade
  <2>2. QED
    BY <1>1, <2>1, ArmedSame DEF Quiet
<1>9. Told(n) /\ Backed(n, trouble)
  BY <1>8, QuietTold DEF Backed
<1>10. Told(after) /\ Clear(after, trouble)
  BY <1>2, <1>4, <1>6, <1>7, <1>8, <1>9, DriveBladeWithin
<1>11. Tidy(after) /\ Sound(after, Waiting(node))
  BY <1>2, <1>4, <1>6, DriveBladeTidy, DriveBladeSound
<1>12. Truthful(after)
  BY <1>10, WithinTruthful
<1>13. node' = Renumbered(after)
  BY <1>2, <1>6 DEF Handler
<1>14. QED
  BY <1>11, <1>12, <1>13, TrueAfter DEF Sound

LEMMA SafetyIsTrue ==
  ASSUME SuccessInv, NEW emergency \in BOOLEAN, NEW released \in BOOLEAN,
         NEW trouble, NEW outcome \in Outcomes,
         \/ SafetyRequest(released, trouble, outcome)
         \/ SafetyInput(emergency, released)
  PROVE  SuccessStep
<1>1. /\ MowerInv /\ Fresh.told = {} /\ Orderly(Fresh, Asked, Barred) /\ Tidy(Fresh)
  BY FreshTidy
<1>2. CASE SafetyRequest(released, trouble, outcome)
  <2>1. PICK e \in BOOLEAN : e = TRUE
    OBVIOUS
  <2>2. PICK n : n = [Fresh EXCEPT !.emergency = e, !.released = released]
    OBVIOUS
  <2>3. /\ Sound(n, Waiting(node)) /\ n.connected = Fresh.connected
        /\ n.blade = Fresh.blade /\ n.starts = Fresh.starts
        /\ n.replies = Fresh.replies /\ n.told = Fresh.told
    BY <1>1, <2>2, InputsStart
  <2>4. Orderly(n, Asked, Barred) /\ n.told = {}
    BY <1>1, <2>3, OrderlySame
  <2>5. PICK after : after = SafetyDisarm(n, trouble, outcome)
    OBVIOUS
  <2>6. Sound(after, Waiting(node)) /\ Tidy(after)
    BY <2>3, <2>4, <2>5, SafetyDisarmSound, SafetyDisarmTidy
  <2>7. Orderly(after, Asked, Waiting(node))
    BY <2>3, <2>4, <2>5, SafetyDisarmLeads
  <2>8. Truthful(after)
    BY <2>6, <2>7, QuietByOrder, QuietTruthful
  <2>9. Handler(after, TRUE)
    BY <1>2, <2>1, <2>2, <2>5 DEF SafetyRequest
  <2>10. node' = Renumbered(after)
    BY <2>9 DEF Handler
  <2>11. QED
    BY <2>6, <2>8, <2>10, TrueAfter DEF Sound
<1>3. CASE SafetyInput(emergency, released)
  <2>1. PICK n : n = [Fresh EXCEPT !.emergency = emergency, !.released = released]
    OBVIOUS
  <2>2. /\ n \in Nodes /\ n.blade = Fresh.blade /\ n.replies = Fresh.replies
        /\ n.told = Fresh.told
    BY <1>1, <2>1, InputsStart
  <2>3. Tidy(n) /\ Truthful(n)
    BY <1>1, <2>2 DEF Tidy, Permitted, Settled, Truthful
  <2>4. Handler(n, FALSE)
    BY <1>3, <2>1 DEF SafetyInput
  <2>5. QED
    BY <2>2, <2>3, <2>4, TrueAfter DEF Handler
<1>4. QED
  BY <1>2, <1>3

LEMMA DeadlineIsTrue ==
  ASSUME SuccessInv, NEW caller \in Callers, DeadlinePasses(caller)
  PROVE  SuccessStep
<1>1. MowerInv /\ Fresh.told = {} /\ Tidy(Fresh)
  BY FreshTidy
<1>2. PICK n :
        /\ Sound(n, Waiting(node)) /\ n \in Nodes /\ SameRest(Fresh, n)
        /\ n.blade = Fresh.blade /\ n.told = Fresh.told
        /\ Handler(n, FALSE)
        /\ (Fresh.starts # {} => n.starts # {})
        /\ \A s \in n.starts : \E e \in Fresh.starts :
             /\ s.caller = e.caller /\ s.direction = e.direction
             /\ e.late => s.late
        /\ \A r \in n.replies : \E e \in Fresh.replies :
             /\ r.caller = e.caller /\ r.direction = e.direction
             /\ r.revision = e.revision /\ (e.late => r.late)
  BY <1>1, DeadlineStart
<1>3. Fresh.replies = {} => n.replies = {}
  BY <1>2
<1>4. Tidy(n) /\ Truthful(n)
  BY <1>1, <1>2, <1>3 DEF Tidy, Permitted, Settled, Truthful
<1>5. QED
  BY <1>2, <1>4, TrueAfter DEF Handler

LEMMA NextIsTrue ==
  ASSUME SuccessInv, Next
  PROVE  SuccessStep
<1>1. SessionOutcomes \subseteq Outcomes
  BY MowerControlAssumption DEF Outcomes
<1>2. ASSUME NEW c \in Callers, DeadlinePasses(c) PROVE SuccessStep
  BY <1>2, DeadlineIsTrue
<1>3. ASSUME NEW e \in BOOLEAN, NEW r \in BOOLEAN, SafetyInput(e, r) PROVE SuccessStep
  <2>1. PICK o \in Outcomes : o = [broken |-> FALSE, ready |-> FALSE, failed |-> FALSE]
    BY DEF Outcomes
  <2>2. QED
    BY <1>3, <2>1, SafetyIsTrue
<1>4. ASSUME NEW o \in SessionOutcomes, CommandVelocity(o) \/ Timer(o) PROVE SuccessStep
  BY <1>1, <1>4, VelocityIsTrue, TimerIsTrue
<1>5. ASSUME NEW o \in SessionOutcomes, NEW t \in Troubles,
             \/ BladeObserved(t, o) \/ BladeSettles(t, o)
             \/ BladeRefuses(t, o) \/ BladeDisturbed(t, o)
      PROVE  SuccessStep
  BY <1>1, <1>5, BladeIsTrue
<1>6. ASSUME NEW o \in SessionOutcomes, NEW t \in Troubles, NEW c \in Callers,
             NEW d \in Demands, MowerRequest(c, d, t, o)
      PROVE  SuccessStep
  BY <1>1, <1>6, RequestIsTrue
<1>7. ASSUME NEW o \in SessionOutcomes, NEW t \in Troubles, NEW b \in BOOLEAN,
             \/ HighLevelStatus(b, t, o) \/ SafetyRequest(b, t, o)
             \/ EmergencyReleased(b, t, o)
      PROVE  SuccessStep
  BY <1>1, <1>7, StatusIsTrue, SafetyIsTrue, ReleaseIsTrue
<1>8. ASSUME NEW o \in SessionOutcomes, NEW t \in Troubles, NEW l \in BOOLEAN,
             NEW e \in BOOLEAN, MavrosState(l, e, t, o)
      PROVE  SuccessStep
  BY <1>1, <1>8, StateIsTrue
<1>9. QED
  BY <1>2, <1>3, <1>4, <1>5, <1>6, <1>7, <1>8 DEF Next

LEMMA NextSuccess == SuccessInv /\ [Next]_vars => SuccessInv'
<1>1. ASSUME SuccessInv, Next PROVE SuccessInv'
  <2>1. OrderInv' /\ Reasoned(node)'
    BY <1>1, NextOrder, NextReasoned DEF SuccessInv, OrderInv, ReasonInv
  <2>2. SuccessStep
    BY <1>1, NextIsTrue
  <2>3. QED
    BY <2>1, <2>2 DEF SuccessInv, SuccessStep
<1>2. ASSUME SuccessInv, UNCHANGED vars PROVE SuccessInv'
  <2>1. OrderInv' /\ node' = node
    BY <1>2, OrderInvSame DEF SuccessInv, vars
  <2>2. Reasoned(node') /\ Tidy(node') /\ Truthful(node')
    BY <1>2, <2>1 DEF SuccessInv
  <2>3. QED
    BY <2>1, <2>2 DEF SuccessInv
<1>3. QED
  BY <1>1, <1>2

\* At the end of every handler the blade is demanded ON only while it is permitted, nobody
\* waits for a settled blade, and every success just told agrees with blade, session and
\* safety inputs.
THEOREM SuccessInvariance == Spec => []SuccessInv
<1>1. Init => SuccessInv
  <2>1. Init => OrderInv
    <3>1. Init => Orderly(node, Asked, CalledOff)
      BY DEF Init, Orderly, SafeBlade
    <3>2. QED
      BY <3>1, InitInv DEF OrderInv
  <2>2. Init => Reasoned(node) /\ Tidy(node) /\ Truthful(node)
    BY DEF Init, Reasoned, Armed, Tidy, Permitted, Settled, Truthful
  <2>3. QED
    BY <2>1, <2>2 DEF SuccessInv
<1>2. QED
  BY <1>1, NextSuccess, PTL DEF Spec

\* "success = true" is sent only for what the caller asked, when the blade is demanded and
\* confirmed so, OFF like ON; through all the drives that follow the answer the demand stands,
\* and for an ON also the confirmation and what link, switch, session and emergency permit.
THEOREM SuccessesAreTrue == Spec => []SuccessIsTrue
<1>1. SuccessInv => SuccessIsTrue
  <2>1. SUFFICES ASSUME SuccessInv, NEW t \in node.told, t.success
                 PROVE  /\ t.direction = clients[t.caller].direction
                        /\ t.achieved
                        /\ t.direction = node.blade.requested
                        /\ t.direction \in Rotations =>
                             /\ node.blade.satisfied /\ node.blade.allowed
                             /\ node.connected /\ node.released /\ ~node.emergency
                             /\ node.session.arm
    BY DEF SuccessIsTrue
  <2>2. t.caller \in Callers
    BY <2>1 DEF SuccessInv, OrderInv, MowerInv, Sound, Nodes, Responses
  <2>3. t.direction = Asked[t.caller]
    BY <2>1 DEF SuccessInv, OrderInv, Orderly, GoodAnswer
  <2>4. QED
    BY <2>1, <2>2, <2>3 DEF SuccessInv, Truthful, Asked
<1>2. QED
  BY <1>1, SuccessInvariance, PTL
=============================================================================
