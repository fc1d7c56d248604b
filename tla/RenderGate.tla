----------------------------- MODULE RenderGate -----------------------------
(***************************************************************************)
(* The gate of render_gate.rs before a document's one PDF worker: callers  *)
(* wait for their turn, the highest priority first and equals in the order *)
(* they asked.                                                             *)
(*                                                                         *)
(* A caller waits in a loop on a condition variable.  Every section under  *)
(* the mutex is a step; giving the turn back and waking the others are two *)
(* steps, because the mutex is released between them.  The tickets of the  *)
(* heap only order the requests that wait, so the model keeps, for each    *)
(* waiting caller, who asked before it.                                    *)
(***************************************************************************)
EXTENDS Naturals

CONSTANTS
    Callers,      \* threads that use the gate
    Priorities    \* the RenderPriority values they use, lowest first

ASSUME PrioritiesAssumption == Priorities \subseteq Nat

VARIABLES
    busy,       \* GateState::busy
    pc,         \* where each caller is
    priority,   \* the priority of each caller's last request
    earlier,    \* for a waiting caller, the callers that wait since before it
    asleep      \* waiting callers blocked in Condvar::wait

vars == <<busy, pc, priority, earlier, asleep>>

Waiting == {c \in Callers : pc[c] = "Waiting"}

TypeOK ==
    /\ busy \in BOOLEAN
    /\ pc \in [Callers -> {"Outside", "Waiting", "Turn", "Notifying"}]
    /\ priority \in [Callers -> Nat]
    /\ earlier \in [Callers -> SUBSET Callers]
    /\ asleep \subseteq Waiting
    /\ \A c \in Callers : earlier[c] \subseteq Waiting \ {c}

Init ==
    /\ busy = FALSE
    /\ pc = [c \in Callers |-> "Outside"]
    /\ priority = [c \in Callers |-> 0]
    /\ earlier = [c \in Callers |-> {}]
    /\ asleep = {}

-----------------------------------------------------------------------------

\* Bug: tickets are not compared, so equal priorities tie.
IsTopByPriority(c) == \A d \in Waiting \ {c} : priority[d] <= priority[c]

\* waiting.peek() is the ticket of c.
IsTop(c) ==
    \A d \in Waiting \ {c} :
        priority[d] < priority[c] \/ (priority[d] = priority[c] /\ d \notin earlier[c])

\* Bug: a caller that finds the gate idle goes straight in.
EnterIdleGate(c, p) ==
    /\ pc[c] = "Outside"
    /\ priority' = [priority EXCEPT ![c] = p]
    /\ IF ~ busy
       THEN /\ pc' = [pc EXCEPT ![c] = "Turn"]
            /\ busy' = TRUE
            /\ UNCHANGED <<earlier, asleep>>
       ELSE /\ pc' = [pc EXCEPT ![c] = "Waiting"]
            /\ earlier' = [earlier EXCEPT ![c] = Waiting]
            /\ asleep' = asleep \cup {c}
            /\ UNCHANGED busy

\* enter, up to the first wait: straight in when the gate is free and nobody of
\* the same or a higher priority waits.
Enter(c, p) ==
    /\ pc[c] = "Outside"
    /\ priority' = [priority EXCEPT ![c] = p]
    /\ IF ~ busy /\ \A d \in Waiting : priority[d] < p
       THEN /\ pc' = [pc EXCEPT ![c] = "Turn"]
            /\ busy' = TRUE
            /\ UNCHANGED <<earlier, asleep>>
       ELSE /\ pc' = [pc EXCEPT ![c] = "Waiting"]
            /\ earlier' = [earlier EXCEPT ![c] = Waiting]
            /\ asleep' = asleep \cup {c}
            /\ UNCHANGED busy

\* Bug: a woken caller looks at the queue but not at the worker.
RecheckQueueOnly(c) ==
    /\ pc[c] = "Waiting" /\ c \notin asleep
    /\ IF IsTop(c)
       THEN /\ pc' = [pc EXCEPT ![c] = "Turn"]
            /\ busy' = TRUE
            /\ earlier' = [d \in Callers |-> IF d = c THEN {} ELSE earlier[d] \ {c}]
            /\ UNCHANGED asleep
       ELSE /\ asleep' = asleep \cup {c}
            /\ UNCHANGED <<busy, pc, earlier>>
    /\ UNCHANGED priority

\* Bug: the ticket stays in the heap when its turn begins.
RecheckWithoutPop(c) ==
    /\ pc[c] = "Waiting" /\ c \notin asleep
    /\ IF ~ busy /\ IsTop(c)
       THEN /\ pc' = [pc EXCEPT ![c] = "Turn"]
            /\ busy' = TRUE
            /\ UNCHANGED <<earlier, asleep>>
       ELSE /\ asleep' = asleep \cup {c}
            /\ UNCHANGED <<busy, pc, earlier>>
    /\ UNCHANGED priority

\* The loop of enter after a wakeup.
Recheck(c) ==
    /\ pc[c] = "Waiting" /\ c \notin asleep
    /\ IF ~ busy /\ IsTop(c)
       THEN /\ pc' = [pc EXCEPT ![c] = "Turn"]
            /\ busy' = TRUE
            /\ earlier' = [d \in Callers |-> IF d = c THEN {} ELSE earlier[d] \ {c}]
            /\ UNCHANGED asleep
       ELSE /\ asleep' = asleep \cup {c}
            /\ UNCHANGED <<busy, pc, earlier>>
    /\ UNCHANGED priority

\* Drop of the RenderTurn: the worker is free first ...
EndTurn(c) ==
    /\ pc[c] = "Turn"
    /\ pc' = [pc EXCEPT ![c] = "Notifying"]
    /\ busy' = FALSE
    /\ UNCHANGED <<priority, earlier, asleep>>

\* Bug: one waiting caller is woken, whichever it is.
NotifyOne(c) ==
    /\ pc[c] = "Notifying"
    /\ pc' = [pc EXCEPT ![c] = "Outside"]
    /\ \/ asleep = {} /\ UNCHANGED asleep
       \/ \E d \in asleep : asleep' = asleep \ {d}
    /\ UNCHANGED <<busy, priority, earlier>>

\* ... and then every waiting caller is woken.
NotifyAll(c) ==
    /\ pc[c] = "Notifying"
    /\ pc' = [pc EXCEPT ![c] = "Outside"]
    /\ asleep' = {}
    /\ UNCHANGED <<busy, priority, earlier>>

\* A condition variable may wake a caller for no reason.
SpuriousWakeup(c) ==
    /\ c \in asleep
    /\ asleep' = asleep \ {c}
    /\ UNCHANGED <<busy, pc, priority, earlier>>

Next ==
    \E c \in Callers :
        \/ \E p \in Priorities : Enter(c, p)
        \/ Recheck(c) \/ EndTurn(c) \/ NotifyAll(c) \/ SpuriousWakeup(c)

Spec == Init /\ [][Next]_vars

\* Threads run, and a turn ends: the worker answers or its request fails.
\* Nobody has to ask, and no spurious wakeup is counted on.
FairSpec == Spec /\ \A c \in Callers : WF_vars(Recheck(c) \/ EndTurn(c) \/ NotifyAll(c))

-----------------------------------------------------------------------------
(* What the gate promises.                                                 *)

\* The worker is one caller's at a time, and "busy" says so.
MutualExclusion ==
    /\ \A c, d \in Callers : pc[c] = "Turn" /\ pc[d] = "Turn" => c = d
    /\ \A c \in Callers : pc[c] = "Turn" => busy
    /\ busy => \E c \in Callers : pc[c] = "Turn"

\* No wakeup is lost: when the worker is free, the caller whose turn it is does
\* not sleep on, unless a finished caller is just about to wake it.
NoLostWakeup ==
    \A c \in Waiting :
        ~ busy /\ IsTop(c) /\ c \in asleep => \E d \in Callers : pc[d] = "Notifying"

\* "whoever waits with the highest priority goes next, and requests of equal
\* priority go in order" (render_gate.rs:4-5): whoever gets the turn leaves
\* only requests of lower priority, or equal ones that asked after it.
ServedInOrder ==
    [][\A c \in Callers : pc[c] # "Turn" /\ pc'[c] = "Turn" =>
          \A d \in Waiting \ {c} :
              \/ priority[d] < priority'[c]
              \/ priority[d] = priority'[c] /\ pc[c] = "Waiting" /\ c \in earlier[d]]_vars

\* A request of the highest priority gets its turn, however many others ask.
\* (One of a lower priority may wait for ever, by design.)
HighestIsServed ==
    \A c \in Callers :
        (pc[c] = "Waiting" /\ \A p \in Priorities : p <= priority[c]) ~> pc[c] = "Turn"

=============================================================================
