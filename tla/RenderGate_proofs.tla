-------------------------- MODULE RenderGate_proofs --------------------------
(***************************************************************************)
(* Safety of the render gate, for any set of threads and any priorities.   *)
(***************************************************************************)
EXTENDS RenderGate, TLAPS

-----------------------------------------------------------------------------
(* Types.                                                                  *)

\* Every step of a caller keeps the types.
LEMMA TypeStep == TypeOK /\ [Next]_vars => TypeOK'
  <1> SUFFICES ASSUME TypeOK, [Next]_vars
               PROVE  TypeOK'
    OBVIOUS
  <1> USE PrioritiesAssumption DEF TypeOK, Waiting
  <1>1. ASSUME NEW c \in Callers, NEW p \in Priorities, Enter(c, p)
        PROVE  TypeOK'
    <2>1. p \in Nat /\ priority' \in [Callers -> Nat]
      BY <1>1 DEF Enter
    <2>2. CASE /\ pc' = [pc EXCEPT ![c] = "Turn"]
               /\ busy' = TRUE
               /\ UNCHANGED <<earlier, asleep>>
      BY <1>1, <2>1, <2>2 DEF Enter
    <2>3. CASE /\ pc' = [pc EXCEPT ![c] = "Waiting"]
               /\ earlier' = [earlier EXCEPT ![c] = Waiting]
               /\ asleep' = asleep \cup {c}
               /\ UNCHANGED busy
      BY <1>1, <2>1, <2>3 DEF Enter
    <2>4. QED
      BY <1>1, <2>2, <2>3 DEF Enter
  <1>2. ASSUME NEW c \in Callers, Recheck(c)
        PROVE  TypeOK'
    <2>1. CASE /\ pc' = [pc EXCEPT ![c] = "Turn"]
               /\ busy' = TRUE
               /\ earlier' = [d \in Callers |-> IF d = c THEN {} ELSE earlier[d] \ {c}]
               /\ UNCHANGED asleep
      <3>1. Waiting' = Waiting \ {c} /\ c \notin asleep
        BY <1>2, <2>1 DEF Recheck
      <3>2. earlier' \in [Callers -> SUBSET Callers]
        BY <2>1
      <3>3. \A d \in Callers : earlier'[d] \subseteq Waiting' \ {d}
        BY <2>1, <3>1
      <3>4. /\ busy' \in BOOLEAN /\ asleep' \subseteq Waiting'
            /\ pc' \in [Callers -> {"Outside", "Waiting", "Turn", "Notifying"}]
            /\ priority' \in [Callers -> Nat]
        BY <1>2, <2>1, <3>1 DEF Recheck
      <3>5. QED
        BY <3>2, <3>3, <3>4
    <2>2. CASE asleep' = asleep \cup {c} /\ UNCHANGED <<busy, pc, earlier>>
      BY <1>2, <2>2 DEF Recheck
    <2>3. QED
      BY <1>2, <2>1, <2>2 DEF Recheck
  <1>3. ASSUME NEW c \in Callers, EndTurn(c)
        PROVE  TypeOK'
    BY <1>3 DEF EndTurn
  <1>4. ASSUME NEW c \in Callers, NotifyAll(c)
        PROVE  TypeOK'
    BY <1>4 DEF NotifyAll
  <1>5. ASSUME NEW c \in Callers, SpuriousWakeup(c)
        PROVE  TypeOK'
    BY <1>5 DEF SpuriousWakeup
  <1>6. CASE UNCHANGED vars
    BY <1>6 DEF vars
  <1>7. QED
    BY <1>1, <1>2, <1>3, <1>4, <1>5, <1>6 DEF Next

\* The variables of the gate always have their types; in particular only waiting
\* callers sleep, and only waiting callers stand before another one.
THEOREM TypeCorrect == Spec => []TypeOK
  <1>1. Init => TypeOK
    <2> SUFFICES ASSUME Init
                 PROVE  TypeOK
      OBVIOUS
    <2>1. /\ busy \in BOOLEAN /\ asleep = {}
          /\ pc \in [Callers -> {"Outside", "Waiting", "Turn", "Notifying"}]
          /\ \A c \in Callers : earlier[c] = {}
      BY DEF Init
    <2>2. earlier \in [Callers -> SUBSET Callers]
      BY DEF Init
    <2>3. priority \in [Callers -> Nat]
      BY DEF Init
    <2>4. QED
      BY <2>1, <2>2, <2>3 DEF TypeOK
  <1>2. QED
    BY <1>1, TypeStep, PTL DEF Spec

-----------------------------------------------------------------------------
(* Mutual exclusion.                                                       *)

\* Every step of a caller leaves at most one caller with the worker.
LEMMA ExclusionStep ==
    TypeOK /\ MutualExclusion /\ [Next]_vars => MutualExclusion'
  <1> SUFFICES ASSUME TypeOK, MutualExclusion, [Next]_vars
               PROVE  MutualExclusion'
    OBVIOUS
  <1> USE DEF TypeOK, MutualExclusion
  \* A turn begins only on a free worker, which nobody then holds.
  <1>1. ASSUME NEW c \in Callers, pc[c] # "Turn", ~ busy,
               pc' = [pc EXCEPT ![c] = "Turn"], busy' = TRUE
        PROVE  MutualExclusion'
    BY <1>1
  \* A step that moves nobody into or out of a turn changes nothing.
  <1>2. ASSUME UNCHANGED busy,
               \A c \in Callers : pc'[c] = "Turn" <=> pc[c] = "Turn"
        PROVE  MutualExclusion'
    BY <1>2
  <1>3. ASSUME NEW c \in Callers, NEW p \in Priorities, Enter(c, p)
        PROVE  MutualExclusion'
    BY <1>1, <1>2, <1>3 DEF Enter
  <1>4. ASSUME NEW c \in Callers, Recheck(c)
        PROVE  MutualExclusion'
    BY <1>1, <1>2, <1>4 DEF Recheck
  <1>5. ASSUME NEW c \in Callers, EndTurn(c)
        PROVE  MutualExclusion'
    BY <1>5 DEF EndTurn
  <1>6. ASSUME NEW c \in Callers, NotifyAll(c) \/ SpuriousWakeup(c)
        PROVE  MutualExclusion'
    BY <1>2, <1>6 DEF NotifyAll, SpuriousWakeup
  <1>7. CASE UNCHANGED vars
    BY <1>7 DEF vars
  <1>8. QED
    BY <1>3, <1>4, <1>5, <1>6, <1>7 DEF Next

\* However many threads ask, one at a time has the document's worker, and the
\* gate counts it as busy exactly then.
THEOREM WorkerIsExclusive == Spec => []MutualExclusion
  <1>1. Init => MutualExclusion
    BY DEF Init, MutualExclusion
  <1>2. QED
    BY <1>1, ExclusionStep, TypeCorrect, PTL DEF Spec

-----------------------------------------------------------------------------
(* No lost wakeup.                                                         *)

\* Every step of a caller leaves the next one awake, or about to be woken.
LEMMA WakeupStep == TypeOK /\ NoLostWakeup /\ [Next]_vars => NoLostWakeup'
  <1> SUFFICES ASSUME TypeOK, NoLostWakeup, [Next]_vars
               PROVE  NoLostWakeup'
    OBVIOUS
  <1> USE PrioritiesAssumption DEF NoLostWakeup, Waiting, TypeOK
  \* A caller that queues is asleep but not next: on a free gate someone of its
  \* priority or a higher one waits, and asked before.
  <1>1. ASSUME NEW c \in Callers, NEW p \in Priorities, Enter(c, p)
        PROVE  NoLostWakeup'
    <2>1. CASE busy'
      BY <2>1
    <2>2. CASE ~ busy'
      <3>1. /\ pc[c] = "Outside" /\ ~ busy
            /\ pc' = [pc EXCEPT ![c] = "Waiting"]
            /\ priority' = [priority EXCEPT ![c] = p]
            /\ earlier' = [earlier EXCEPT ![c] = Waiting]
            /\ asleep' = asleep \cup {c}
        BY <1>1, <2>2 DEF Enter
      <3>2. PICK d \in Waiting : ~ (priority[d] < p)
        BY <1>1, <2>2 DEF Enter
      <3>3. d # c /\ d \in Waiting' /\ priority'[d] = priority[d]
        BY <3>1, <3>2
      <3>4. priority'[c] = p /\ d \in earlier'[c]
        BY <3>1, <3>2
      <3>5. ~ IsTop(c)'
        BY <3>2, <3>3, <3>4 DEF IsTop
      <3>6. ASSUME NEW e \in Callers, e \in Waiting', e # c, IsTop(e)'
            PROVE  e \in Waiting /\ IsTop(e)
        <4>1. e \in Waiting /\ priority'[e] = priority[e] /\ earlier'[e] = earlier[e]
          BY <3>1, <3>6
        <4>2. ASSUME NEW f \in Waiting \ {e}
              PROVE  \/ priority[f] < priority[e]
                     \/ priority[f] = priority[e] /\ f \notin earlier[e]
          <5>1. f # c /\ f \in Waiting' \ {e} /\ priority'[f] = priority[f]
            BY <3>1, <4>2
          <5>2. QED
            BY <3>6, <4>1, <5>1 DEF IsTop
        <4>3. QED
          BY <4>1, <4>2 DEF IsTop
      <3>7. SUFFICES ASSUME NEW e \in Waiting', IsTop(e)', e \in asleep'
                     PROVE  \E n \in Callers : pc'[n] = "Notifying"
        OBVIOUS
      <3>8. e # c
        BY <3>5, <3>7
      <3>9. e \in Waiting /\ IsTop(e) /\ e \in asleep
        BY <3>1, <3>6, <3>7, <3>8
      <3>10. PICK n \in Callers : pc[n] = "Notifying"
        BY <3>1, <3>9
      <3>11. pc'[n] = "Notifying"
        BY <3>1, <3>10
      <3>12. QED
        BY <3>11
    <2>3. QED
      BY <2>1, <2>2
  \* A woken caller sleeps again only if it is not next.
  <1>2. ASSUME NEW c \in Callers, Recheck(c)
        PROVE  NoLostWakeup'
    <2>1. CASE busy'
      BY <2>1
    <2>2. CASE ~ busy'
      <3>1. /\ ~ busy /\ ~ IsTop(c)
            /\ asleep' = asleep \cup {c}
            /\ UNCHANGED <<busy, pc, earlier, priority>>
        BY <1>2, <2>2 DEF Recheck
      <3>2. \A e \in Callers : IsTop(e)' <=> IsTop(e)
        BY <3>1 DEF IsTop
      <3>3. QED
        BY <3>1, <3>2
    <2>3. QED
      BY <2>1, <2>2
  <1>3. ASSUME NEW c \in Callers, EndTurn(c)
        PROVE  NoLostWakeup'
    BY <1>3 DEF EndTurn
  <1>4. ASSUME NEW c \in Callers, NotifyAll(c)
        PROVE  NoLostWakeup'
    BY <1>4 DEF NotifyAll
  <1>5. ASSUME NEW c \in Callers, SpuriousWakeup(c)
        PROVE  NoLostWakeup'
    BY <1>5 DEF SpuriousWakeup, IsTop
  <1>6. CASE UNCHANGED vars
    BY <1>6 DEF vars, IsTop
  <1>7. QED
    BY <1>1, <1>2, <1>3, <1>4, <1>5, <1>6 DEF Next

\* Whenever the worker is free, the waiting caller whose turn it is is awake, or
\* the caller that freed the worker has yet to wake everyone.
THEOREM WakeupsAreKept == Spec => []NoLostWakeup
  <1>1. Init => NoLostWakeup
    BY DEF Init, NoLostWakeup, Waiting
  <1>2. QED
    BY <1>1, WakeupStep, TypeCorrect, PTL DEF Spec

-----------------------------------------------------------------------------
(* Order of service.                                                       *)

\* Of two waiting callers one asked first: what the tickets of the heap give.
TotalOrder ==
    \A c, d \in Waiting : c # d => c \in earlier[d] \/ d \in earlier[c]

\* Every step of a caller keeps the waiting callers ordered.
LEMMA OrderStep == TypeOK /\ TotalOrder /\ [Next]_vars => TotalOrder'
  <1> SUFFICES ASSUME TypeOK, TotalOrder, [Next]_vars
               PROVE  TotalOrder'
    OBVIOUS
  <1> USE DEF TypeOK, TotalOrder, Waiting
  <1>1. ASSUME NEW c \in Callers, NEW p \in Priorities, Enter(c, p)
        PROVE  TotalOrder'
    BY <1>1 DEF Enter
  <1>2. ASSUME NEW c \in Callers, Recheck(c)
        PROVE  TotalOrder'
    BY <1>2 DEF Recheck
  <1>3. ASSUME NEW c \in Callers, EndTurn(c) \/ NotifyAll(c) \/ SpuriousWakeup(c)
        PROVE  TotalOrder'
    BY <1>3 DEF EndTurn, NotifyAll, SpuriousWakeup
  <1>4. CASE UNCHANGED vars
    BY <1>4 DEF vars
  <1>5. QED
    BY <1>1, <1>2, <1>3, <1>4 DEF Next

\* No caller ever gets the worker while one of a higher priority waits, or one of
\* the same priority that asked before it.
THEOREM ServiceIsOrdered == Spec => ServedInOrder
  <1> DEFINE Served ==
        \A c \in Callers : pc[c] # "Turn" /\ pc'[c] = "Turn" =>
          \A d \in Waiting \ {c} :
              \/ priority[d] < priority'[c]
              \/ priority[d] = priority'[c] /\ pc[c] = "Waiting" /\ c \in earlier[d]
  <1>1. Init => TotalOrder
    BY DEF Init, TotalOrder, Waiting
  <1>2. TypeOK /\ TotalOrder /\ [Next]_vars => [Served]_vars
    <2> SUFFICES ASSUME TypeOK, TotalOrder, Next
                 PROVE  Served
      OBVIOUS
    <2> USE DEF TypeOK, Waiting
    <2>1. ASSUME NEW c \in Callers, NEW p \in Priorities, Enter(c, p)
          PROVE  Served
      BY <2>1 DEF Enter
    <2>2. ASSUME NEW c \in Callers, Recheck(c)
          PROVE  Served
      <3>1. SUFFICES ASSUME NEW b \in Callers, pc[b] # "Turn", pc'[b] = "Turn",
                            NEW d \in Waiting \ {b}
                     PROVE  \/ priority[d] < priority'[b]
                            \/ /\ priority[d] = priority'[b]
                               /\ pc[b] = "Waiting" /\ b \in earlier[d]
        OBVIOUS
      <3>2. b = c /\ IsTop(c) /\ pc[c] = "Waiting" /\ priority' = priority
        BY <2>2, <3>1 DEF Recheck
      <3>3. priority[d] < priority[c] \/ (priority[d] = priority[c] /\ d \notin earlier[c])
        BY <3>1, <3>2 DEF IsTop
      <3>4. d \notin earlier[c] => c \in earlier[d]
        BY <3>1, <3>2 DEF TotalOrder
      <3>5. QED
        BY <3>2, <3>3, <3>4
    <2>3. ASSUME NEW c \in Callers, EndTurn(c) \/ NotifyAll(c) \/ SpuriousWakeup(c)
          PROVE  Served
      BY <2>3 DEF EndTurn, NotifyAll, SpuriousWakeup
    <2>4. QED
      BY <2>1, <2>2, <2>3 DEF Next
  <1>3. QED
    BY <1>1, <1>2, OrderStep, TypeCorrect, PTL DEF Spec, ServedInOrder

=============================================================================
