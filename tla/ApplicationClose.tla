-------------------------- MODULE ApplicationClose --------------------------
(***************************************************************************)
(* The application-close coordinator of application_close.rs: one          *)
(* transaction at a time takes the documents of a window from "close       *)
(* requested" through Save All / Discard All, the session checkpoint and   *)
(* the release of every document to the confirmed close.                   *)
(*                                                                         *)
(* The coordinator issues requests that carry a token and is told their    *)
(* results.  Each request gets one answer, but the adapter may deliver an  *)
(* answer late, repeatedly and after its transaction has ended.  A result  *)
(* that the coordinator rejects as stale changes nothing, so it is a       *)
(* stuttering step.                                                        *)
(***************************************************************************)
EXTENDS Naturals, Sequences

CONSTANTS
    Documents,        \* document identities
    Snapshots,        \* the workspaces a close may be requested for
    MaxTransactions   \* bound on the transactions of a behaviour

Revisions == Nat \ {0}
Clean == 0            \* dirty_revision: None; a release token carries 0 for it

Entries == [id : Documents, dirty : Revisions \cup {Clean}, saveAs : BOOLEAN]

\* A snapshot lists each open document once, in tab order.
ValidSnapshots ==
    {s \in Seq(Entries) : \A i, j \in DOMAIN s : s[i].id = s[j].id => i = j}

ASSUME SnapshotsAssumption == Snapshots \subseteq ValidSnapshots
ASSUME MaxTransactionsAssumption == MaxTransactions \in Nat

VARIABLES
    state,            \* CoordinatorState
    nextTransaction,  \* next_transaction_id
    nextRequest,      \* next_request_sequence
    lastInterruption, \* last_interruption: its transaction and reason
    lastCompletion,   \* last_completion: its transaction, kind and documents
    recoverable,      \* recoverable_checkpoint
    issued,           \* tokens of every request handed to the adapter
    answers,          \* the adapter's answers to them
    publishing,       \* transaction whose checkpoint is being published, or 0
    checkpoints       \* the last result of each transaction's publication

coordinatorVars == <<state, nextTransaction, nextRequest, lastInterruption,
                     lastCompletion, recoverable>>
adapterVars == <<issued, answers, publishing, checkpoints>>
vars == <<coordinatorVars, adapterVars>>

-----------------------------------------------------------------------------

Kinds == {"SaveAs", "Save", "Release"}
Tokens == [tx : Nat, seq : Nat, doc : Documents, rev : Nat, kind : Kinds]

CompletionKinds == {"NoDirtyDocuments", "SavedAll", "DiscardedAll"}
InterruptionReasons == {"Cancelled", "SaveAsCancelled", "SaveFailed",
    "SavePublishedWithWarning", "SessionCheckpointFailed", "ReleaseFailed"}

Outcomes(kind) ==
    CASE kind = "SaveAs"  -> {"Selected", "SaveAsCancelled", "SaveAsFailed"}
      [] kind = "Save"    -> {"Saved", "SaveFailed", "SavedWithWarning"}
      [] kind = "Release" -> {"Released", "ReleaseFailed"}

None == [tx |-> 0]
Idle == [phase |-> "Idle"]

AwaitingStates == [phase : {"AwaitingDecision"}, tx : Nat, snapshot : ValidSnapshots]
SavingStates == [phase : {"Saving"}, tx : Nat, snapshot : ValidSnapshots,
    at : Nat, saved : SUBSET Documents, pending : Tokens]
CheckpointingStates == [phase : {"Checkpointing"}, tx : Nat, snapshot : ValidSnapshots,
    pending : SUBSET Tokens, saved : SUBSET Documents, kind : CompletionKinds]
ReleasingStates == [phase : {"Releasing"}, tx : Nat, snapshot : ValidSnapshots,
    pending : SUBSET Tokens, released : SUBSET Documents,
    saved : SUBSET Documents, kind : CompletionKinds]

DirtyPositions(snapshot) == {i \in DOMAIN snapshot : snapshot[i].dirty # Clean}
IsNextDirty(snapshot, i, j) ==
    /\ j \in DirtyPositions(snapshot) /\ i < j
    /\ \A k \in DirtyPositions(snapshot) : i < k => j <= k

Token(tx, seq, entry, kind) ==
    [tx |-> tx, seq |-> seq, doc |-> entry.id, rev |-> entry.dirty, kind |-> kind]

\* The tokens that start_checkpoint mints: one for every document of the
\* snapshot, numbered in tab order.
ReleaseTokens(tx, seq, snapshot) ==
    {Token(tx, seq + i, snapshot[i], "Release") : i \in DOMAIN snapshot}

\* The pending tokens stay in minting order: the first has the least sequence.
IsFirst(token, tokens) ==
    token \in tokens /\ \A other \in tokens : token.seq <= other.seq

Answered(token) == \E a \in answers : a.token = token
Waiting == {t \in issued : ~ Answered(t)}

-----------------------------------------------------------------------------

TypeOK ==
    /\ state \in {Idle} \cup AwaitingStates \cup SavingStates
                 \cup CheckpointingStates \cup ReleasingStates
    /\ nextTransaction \in Nat
    /\ nextRequest \in Nat
    /\ lastInterruption \in {None} \cup [tx : Nat, reason : InterruptionReasons]
    /\ lastCompletion \in {None} \cup
          [tx : Nat, kind : CompletionKinds, documents : SUBSET Documents]
    /\ recoverable \in {None} \cup CheckpointingStates
    /\ issued \subseteq Tokens
    /\ answers \subseteq [token : Tokens, outcome : UNION {Outcomes(k) : k \in Kinds}]
    /\ publishing \in Nat
    /\ checkpoints \subseteq [tx : Nat, ok : BOOLEAN]

Init ==
    /\ state = Idle
    /\ nextTransaction = 0
    /\ nextRequest = 0
    /\ lastInterruption = None
    /\ lastCompletion = None
    /\ recoverable = None
    /\ issued = {}
    /\ answers = {}
    /\ publishing = 0
    /\ checkpoints = {}

-----------------------------------------------------------------------------

\* start_checkpoint: mints every release token and asks for the manifest.
StartCheckpoint(tx, snapshot, kind, saved) ==
    /\ state' = [phase |-> "Checkpointing", tx |-> tx, snapshot |-> snapshot,
                 pending |-> ReleaseTokens(tx, nextRequest, snapshot),
                 saved |-> saved, kind |-> kind]
    /\ nextRequest' = nextRequest + Len(snapshot)
    /\ publishing' = tx
    /\ UNCHANGED <<issued, answers, checkpoints>>

\* initial_save_request for the dirty document at position i.
RequestSave(tx, snapshot, i, saved) ==
    LET token == Token(tx, nextRequest + 1, snapshot[i],
                       IF snapshot[i].saveAs THEN "SaveAs" ELSE "Save")
    IN  /\ state' = [phase |-> "Saving", tx |-> tx, snapshot |-> snapshot,
                     at |-> i, saved |-> saved, pending |-> token]
        /\ nextRequest' = nextRequest + 1
        /\ issued' = issued \cup {token}
        /\ UNCHANGED <<answers, publishing, checkpoints>>

\* Bug: a new transaction keeps the recoverable checkpoint of the last one.
RequestCloseKeepingCheckpoint(snapshot) ==
    /\ state = Idle
    /\ nextTransaction < MaxTransactions
    /\ nextTransaction' = nextTransaction + 1
    /\ lastInterruption' = None
    /\ lastCompletion' = None
    /\ UNCHANGED recoverable
    /\ \/ /\ DirtyPositions(snapshot) = {}
          /\ StartCheckpoint(nextTransaction + 1, snapshot, "NoDirtyDocuments", {})
       \/ /\ DirtyPositions(snapshot) # {}
          /\ state' = [phase |-> "AwaitingDecision", tx |-> nextTransaction + 1,
                       snapshot |-> snapshot]
          /\ UNCHANGED <<nextRequest, adapterVars>>

RequestClose(snapshot) ==
    /\ state = Idle
    /\ nextTransaction < MaxTransactions
    /\ nextTransaction' = nextTransaction + 1
    /\ lastInterruption' = None
    /\ lastCompletion' = None
    /\ recoverable' = None
    /\ \/ /\ DirtyPositions(snapshot) = {}
          /\ StartCheckpoint(nextTransaction + 1, snapshot, "NoDirtyDocuments", {})
       \/ /\ DirtyPositions(snapshot) # {}
          /\ state' = [phase |-> "AwaitingDecision", tx |-> nextTransaction + 1,
                       snapshot |-> snapshot]
          /\ UNCHANGED <<nextRequest, adapterVars>>

\* Bug: the phase is reset but the finished transaction stays in the state.
InterruptKeepingTransaction(reason) ==
    /\ state' = [state EXCEPT !.phase = "Idle"]
    /\ lastInterruption' = [tx |-> state.tx, reason |-> reason]
    /\ UNCHANGED <<nextTransaction, nextRequest, lastCompletion, issued, answers, checkpoints>>

Interrupt(reason) ==
    /\ state' = Idle
    /\ lastInterruption' = [tx |-> state.tx, reason |-> reason]
    /\ UNCHANGED <<nextTransaction, nextRequest, lastCompletion, issued, answers, checkpoints>>

ChooseCancel ==
    /\ state.phase = "AwaitingDecision"
    /\ Interrupt("Cancelled")
    /\ UNCHANGED <<recoverable, publishing>>

ChooseDiscardAll ==
    /\ state.phase = "AwaitingDecision"
    /\ StartCheckpoint(state.tx, state.snapshot, "DiscardedAll", {})
    /\ UNCHANGED <<nextTransaction, lastInterruption, lastCompletion, recoverable>>

ChooseSaveAll ==
    /\ state.phase = "AwaitingDecision"
    /\ \E i \in DOMAIN state.snapshot :
          /\ IsNextDirty(state.snapshot, 0, i)
          /\ RequestSave(state.tx, state.snapshot, i, {})
    /\ UNCHANGED <<nextTransaction, lastInterruption, lastCompletion, recoverable>>

\* The adapter settles a request, once.
Answer(token, outcome) ==
    /\ token \in Waiting
    /\ outcome \in Outcomes(token.kind)
    /\ answers' = answers \cup {[token |-> token, outcome |-> outcome]}
    /\ UNCHANGED <<coordinatorVars, issued, publishing, checkpoints>>

\* A result of a save request counts only for the request that is pending.
Expected(a) == state.phase = "Saving" /\ a.token = state.pending

HandleSaveAsSelected(a) ==
    /\ Expected(a)
    /\ a.outcome = "Selected"
    /\ LET token == Token(state.tx, nextRequest + 1, state.snapshot[state.at], "Save")
       IN  /\ state' = [state EXCEPT !.pending = token]
           /\ issued' = issued \cup {token}
    /\ nextRequest' = nextRequest + 1
    /\ UNCHANGED <<nextTransaction, lastInterruption, lastCompletion, recoverable,
                   answers, publishing, checkpoints>>

\* Bug: a save published with a durability warning counts as saved.
HandleSavedDespiteWarning(a) ==
    /\ Expected(a)
    /\ a.outcome \in {"Saved", "SavedWithWarning"}
    /\ LET saved == state.saved \cup {a.token.doc}
       IN  \/ \E i \in DOMAIN state.snapshot :
                 /\ IsNextDirty(state.snapshot, state.at, i)
                 /\ RequestSave(state.tx, state.snapshot, i, saved)
           \/ /\ \A i \in DirtyPositions(state.snapshot) : i <= state.at
              /\ StartCheckpoint(state.tx, state.snapshot, "SavedAll", saved)
    /\ UNCHANGED <<nextTransaction, lastInterruption, lastCompletion, recoverable>>

HandleSaved(a) ==
    /\ Expected(a)
    /\ a.outcome = "Saved"
    /\ LET saved == state.saved \cup {a.token.doc}
       IN  \/ \E i \in DOMAIN state.snapshot :
                 /\ IsNextDirty(state.snapshot, state.at, i)
                 /\ RequestSave(state.tx, state.snapshot, i, saved)
           \/ /\ \A i \in DirtyPositions(state.snapshot) : i <= state.at
              /\ StartCheckpoint(state.tx, state.snapshot, "SavedAll", saved)
    /\ UNCHANGED <<nextTransaction, lastInterruption, lastCompletion, recoverable>>

SaveInterruption(outcome) ==
    CASE outcome = "SaveAsCancelled"  -> "SaveAsCancelled"
      [] outcome = "SavedWithWarning" -> "SavePublishedWithWarning"
      [] OTHER                        -> "SaveFailed"

\* Bug: a published save with a warning is rejected as if it were stale.
HandleSaveInterruptedUnlessWarning(a) ==
    /\ Expected(a)
    /\ a.outcome \notin {"Selected", "Saved", "SavedWithWarning"}
    /\ Interrupt(SaveInterruption(a.outcome))
    /\ UNCHANGED <<recoverable, publishing>>

HandleSaveInterrupted(a) ==
    /\ Expected(a)
    /\ a.outcome \notin {"Selected", "Saved"}
    /\ Interrupt(SaveInterruption(a.outcome))
    /\ UNCHANGED <<recoverable, publishing>>

Complete(documents) ==
    /\ state' = Idle
    /\ lastCompletion' = [tx |-> state.tx, kind |-> state.kind, documents |-> documents]

\* The adapter publishes the manifest at once, so a publication has one result;
\* a retry publishes again and its result replaces the failed one.
PublishCheckpoint(ok) ==
    /\ publishing # 0
    /\ publishing' = 0
    /\ checkpoints' = {c \in checkpoints : c.tx # publishing}
                          \cup {[tx |-> publishing, ok |-> ok]}
    /\ UNCHANGED <<coordinatorVars, issued, answers>>

\* Bug: the transaction a checkpoint result belongs to is not compared.
HandleCheckpointPublishedUncorrelated(c) ==
    /\ state.phase = "Checkpointing"
    /\ c.ok
    /\ \/ /\ state.pending = {}
          /\ Complete(state.saved)
          /\ UNCHANGED issued
       \/ \E first \in state.pending :
             /\ IsFirst(first, state.pending)
             /\ state' = [phase |-> "Releasing", tx |-> state.tx,
                          snapshot |-> state.snapshot, pending |-> state.pending,
                          released |-> {}, saved |-> state.saved, kind |-> state.kind]
             /\ issued' = issued \cup {first}
             /\ UNCHANGED lastCompletion
    /\ UNCHANGED <<nextTransaction, nextRequest, lastInterruption, recoverable,
                   answers, publishing, checkpoints>>

HandleCheckpointPublished(c) ==
    /\ state.phase = "Checkpointing"
    /\ state.tx = c.tx
    /\ c.ok
    /\ \/ /\ state.pending = {}
          /\ Complete(state.saved)
          /\ UNCHANGED issued
       \/ \E first \in state.pending :
             /\ IsFirst(first, state.pending)
             /\ state' = [phase |-> "Releasing", tx |-> state.tx,
                          snapshot |-> state.snapshot, pending |-> state.pending,
                          released |-> {}, saved |-> state.saved, kind |-> state.kind]
             /\ issued' = issued \cup {first}
             /\ UNCHANGED lastCompletion
    /\ UNCHANGED <<nextTransaction, nextRequest, lastInterruption, recoverable,
                   answers, publishing, checkpoints>>

HandleCheckpointFailed(c) ==
    /\ state.phase = "Checkpointing"
    /\ state.tx = c.tx
    /\ ~ c.ok
    /\ Interrupt("SessionCheckpointFailed")
    /\ recoverable' = state
    /\ UNCHANGED publishing

RetrySessionCheckpoint(tx) ==
    /\ state = Idle
    /\ recoverable # None
    /\ recoverable.tx = tx
    /\ state' = recoverable
    /\ recoverable' = None
    /\ lastInterruption' = None
    /\ publishing' = tx
    /\ UNCHANGED <<nextTransaction, nextRequest, lastCompletion, issued, answers, checkpoints>>

\* Bug: a failed release is taken off the list like a successful one.
HandleReleasedWhateverItSays(a) ==
    /\ state.phase = "Releasing"
    /\ a.token \in state.pending
    /\ LET pending == state.pending \ {a.token}
           released == state.released \cup {a.token.doc}
       IN  \/ \E first \in pending :
                 /\ IsFirst(first, pending)
                 /\ state' = [state EXCEPT !.pending = pending, !.released = released]
                 /\ issued' = issued \cup {first}
                 /\ UNCHANGED lastCompletion
           \/ /\ pending = {}
              /\ Complete(IF state.kind = "SavedAll" THEN state.saved ELSE released)
              /\ UNCHANGED issued
    /\ UNCHANGED <<nextTransaction, nextRequest, lastInterruption, recoverable,
                   answers, publishing, checkpoints>>

HandleReleased(a) ==
    /\ state.phase = "Releasing"
    /\ a.token \in state.pending
    /\ a.outcome = "Released"
    /\ LET pending == state.pending \ {a.token}
           released == state.released \cup {a.token.doc}
       IN  \/ \E first \in pending :
                 /\ IsFirst(first, pending)
                 /\ state' = [state EXCEPT !.pending = pending, !.released = released]
                 /\ issued' = issued \cup {first}
                 /\ UNCHANGED lastCompletion
           \/ /\ pending = {}
              /\ Complete(IF state.kind = "SavedAll" THEN state.saved ELSE released)
              /\ UNCHANGED issued
    /\ UNCHANGED <<nextTransaction, nextRequest, lastInterruption, recoverable,
                   answers, publishing, checkpoints>>

HandleReleaseFailed(a) ==
    /\ state.phase = "Releasing"
    /\ a.token \in state.pending
    /\ a.outcome = "ReleaseFailed"
    /\ Interrupt("ReleaseFailed")
    /\ UNCHANGED <<recoverable, publishing>>

HandleResult(a) ==
    \/ HandleSaveAsSelected(a)
    \/ HandleSaved(a)
    \/ HandleSaveInterrupted(a)
    \/ HandleReleased(a)
    \/ HandleReleaseFailed(a)

Choose == ChooseCancel \/ ChooseDiscardAll \/ ChooseSaveAll

HandleCheckpoint(c) == HandleCheckpointPublished(c) \/ HandleCheckpointFailed(c)

\* A result may be delivered again at any time, except that the result of an
\* earlier attempt is not delivered while the same checkpoint is published anew.
Next ==
    \/ \E snapshot \in Snapshots : RequestClose(snapshot)
    \/ Choose
    \/ \E token \in Waiting : \E outcome \in Outcomes(token.kind) : Answer(token, outcome)
    \/ \E a \in answers : HandleResult(a)
    \/ \E ok \in BOOLEAN : PublishCheckpoint(ok)
    \/ \E c \in checkpoints : c.tx # publishing /\ HandleCheckpoint(c)
    \/ \E tx \in 1 .. nextTransaction : RetrySessionCheckpoint(tx)

Spec == Init /\ [][Next]_vars

\* Adapters settle every request they are given (a background save runs to its
\* end, a native picker is closed by the user) and deliver what they settled.
AdapterProgress ==
    \/ \E token \in Waiting : \E outcome \in Outcomes(token.kind) : Answer(token, outcome)
    \/ \E ok \in BOOLEAN : PublishCheckpoint(ok)
    \/ \E a \in answers : HandleResult(a)
    \/ \E c \in checkpoints : c.tx # publishing /\ HandleCheckpoint(c)

FairSpec == Spec /\ WF_vars(AdapterProgress)

-----------------------------------------------------------------------------
(* What the close transaction promises.                                    *)

Reported(tx, doc, kind, outcome) ==
    \E a \in answers : /\ a.token.tx = tx /\ a.token.doc = doc
                       /\ a.token.kind = kind /\ a.outcome = outcome

SavedByAdapter(tx, entry) ==
    \E a \in answers : /\ a.token.tx = tx /\ a.token.doc = entry.id
                       /\ a.token.rev = entry.dirty
                       /\ a.token.kind = "Save" /\ a.outcome = "Saved"

EarnedBy(s) ==
    \A i \in DirtyPositions(s.snapshot) : SavedByAdapter(s.tx, s.snapshot[i])

\* A transaction that goes on to its checkpoint as "saved all", now or by a
\* later retry, has for every dirty document a successful save of exactly the
\* revision the snapshot recorded, in this transaction: warnings, cancelled
\* pickers, failures and results of older transactions never count.
SavedAllIsEarned ==
    /\ state.phase \in {"Checkpointing", "Releasing"} /\ state.kind = "SavedAll"
          => EarnedBy(state)
    /\ recoverable # None /\ recoverable.kind = "SavedAll" => EarnedBy(recoverable)

\* No document is asked to be released before the session manifest of its own
\* transaction has been published.
ReleaseOnlyAfterCheckpoint ==
    \A t \in issued : t.kind = "Release" => [tx |-> t.tx, ok |-> TRUE] \in checkpoints

\* Whatever is late or repeated, only the newest transaction makes requests,
\* and none after it was confirmed.
OnlyTheLiveTransactionActs ==
    [][\A t \in issued' \ issued :
          t.tx = nextTransaction' /\ (lastCompletion # None => lastCompletion.tx # t.tx)]_vars

\* Once the decision is made the transaction ends: it is confirmed or the
\* coordinator is idle again, and never hangs on an answer it has rejected.
DecidedCloseEnds ==
    state.phase \in {"Saving", "Checkpointing", "Releasing"} ~> state.phase = "Idle"

-----------------------------------------------------------------------------
(* The abstract close that the coordinator and its adapter implement.      *)

\* The close under way: the transaction in the state or, after its manifest
\* could not be published, the one that a retry would resume.
Current == IF state # Idle THEN state ELSE recoverable

DocumentsOf(snapshot) == {snapshot[i].id : i \in DOMAIN snapshot}
DirtyOf(snapshot) == {snapshot[i].id : i \in DirtyPositions(snapshot)}

Decided(s, kind) == s.phase \in {"Checkpointing", "Releasing"} /\ s.kind = kind
Mode(s) ==
    IF s.phase = "Saving" \/ Decided(s, "SavedAll") THEN "save"
    ELSE IF Decided(s, "DiscardedAll") THEN "discard" ELSE "undecided"

\* What the adapter has reported for the close under way.
SavedNow ==
    IF Current = None THEN {}
    ELSE {Current.snapshot[i].id : i \in {j \in DirtyPositions(Current.snapshot) :
             SavedByAdapter(Current.tx, Current.snapshot[j])}}
ReleasedNow ==
    IF Current = None THEN {}
    ELSE {d \in Documents : Reported(Current.tx, d, "Release", "Released")}
ClosingNow ==
    IF Current = None THEN None
    ELSE [documents |-> DocumentsOf(Current.snapshot),
          dirty |-> DirtyOf(Current.snapshot), mode |-> Mode(Current)]
PublishedNow == Current # None /\ [tx |-> Current.tx, ok |-> TRUE] \in checkpoints

Contract == INSTANCE CloseContract WITH
    NoClose   <- None,
    requests  <- nextTransaction,
    closing   <- ClosingNow,
    active    <- state # Idle,
    saved     <- SavedNow,
    published <- PublishedNow,
    released  <- ReleasedNow,
    confirmed <- lastCompletion.tx

\* The coordinator with its adapter implements CloseContract: whatever is late,
\* repeated or fails, the manifest is published only when every dirty document
\* is saved or discarded, documents are released only after that, and a close is
\* confirmed only when all of its documents are released.
ImplementsContract == Contract!Spec

=============================================================================
