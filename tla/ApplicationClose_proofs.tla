----------------------- MODULE ApplicationClose_proofs -----------------------
(***************************************************************************)
(* The application close, for any documents, any windows and any number of *)
(* transactions: the coordinator is safe, with its adapter it implements   *)
(* CloseContract, and a window that runs it closes no document whose edits *)
(* the user did not decide about.                                          *)
(***************************************************************************)
EXTENDS ApplicationCloseWorkspace, WellFoundedInduction, TLAPS

\* A step of the coordinator or its adapter, where a close may be requested for any
\* window: the steps of the coordinator alone and those it takes in a workspace.
AnyNext ==
    \/ \E snapshot \in ValidSnapshots : RequestClose(snapshot)
    \/ Choose
    \/ \E token \in Waiting : \E outcome \in Outcomes(token.kind) : Answer(token, outcome)
    \/ \E a \in answers : HandleResult(a)
    \/ \E ok \in BOOLEAN : PublishCheckpoint(ok)
    \/ \E c \in checkpoints : c.tx # publishing /\ HandleCheckpoint(c)
    \/ \E tx \in Nat : RetrySessionCheckpoint(tx)

LEMMA NextIsAny == [Next]_vars => [AnyNext]_vars
  BY SnapshotsAssumption DEF Next, AnyNext

-----------------------------------------------------------------------------
(* Types.  A save is pending for a position of the snapshot; without that  *)
(* the request for its second half (Save after Save As) has no type.       *)

SavingInside ==
    state.phase = "Saving" => state.at \in DirtyPositions(state.snapshot)

TypeInv == TypeOK /\ SavingInside

States == {Idle} \cup AwaitingStates \cup SavingStates
              \cup CheckpointingStates \cup ReleasingStates

\* The phase of the coordinator's state tells which of its variants it is.
LEMMA Variants ==
    ASSUME NEW s \in States
    PROVE  /\ s.phase \in {"Idle", "AwaitingDecision", "Saving", "Checkpointing", "Releasing"}
           /\ s.phase = "Idle" <=> s = Idle
           /\ s.phase = "AwaitingDecision" => s \in AwaitingStates
           /\ s.phase = "Saving" => s \in SavingStates
           /\ s.phase = "Checkpointing" => s \in CheckpointingStates
           /\ s.phase = "Releasing" => s \in ReleasingStates
  BY DEF States, Idle, AwaitingStates, SavingStates, CheckpointingStates, ReleasingStates

\* A token minted for an entry of a snapshot is a token.
LEMMA TokenType ==
    ASSUME NEW tx \in Nat, NEW seq \in Nat, NEW s \in ValidSnapshots,
           NEW i \in DOMAIN s, NEW kind \in Kinds
    PROVE  Token(tx, seq, s[i], kind) \in Tokens
  <1>1. s \in Seq(Entries)
    BY DEF ValidSnapshots
  <1>2. s[i] \in Entries
    BY <1>1
  <1>3. s[i].id \in Documents /\ s[i].dirty \in Nat
    BY <1>2 DEF Entries, Revisions, Clean
  <1>4. QED
    BY <1>3 DEF Token, Tokens

\* Minting the release tokens of a snapshot yields tokens.
LEMMA ReleaseTokensType ==
    ASSUME NEW tx \in Nat, NEW seq \in Nat, NEW s \in ValidSnapshots
    PROVE  ReleaseTokens(tx, seq, s) \subseteq Tokens
  <1>1. SUFFICES ASSUME NEW i \in DOMAIN s
                 PROVE  Token(tx, seq + i, s[i], "Release") \in Tokens
    BY DEF ReleaseTokens
  <1>2. seq + i \in Nat
    BY DEF ValidSnapshots
  <1>3. QED
    BY <1>2, TokenType DEF Kinds

\* StartCheckpoint keeps the types of what it assigns.
LEMMA StartCheckpointType ==
    ASSUME TypeOK, NEW tx \in Nat, NEW s \in ValidSnapshots,
           NEW kind \in CompletionKinds, NEW settled \in SUBSET Documents,
           StartCheckpoint(tx, s, kind, settled)
    PROVE  /\ state' \in CheckpointingStates
           /\ state'.phase = "Checkpointing"
           /\ nextRequest' \in Nat
           /\ publishing' \in Nat
           /\ UNCHANGED <<issued, answers, checkpoints>>
  <1>1. ReleaseTokens(tx, nextRequest, s) \subseteq Tokens
    BY ReleaseTokensType DEF TypeOK
  <1>2. Len(s) \in Nat
    BY DEF ValidSnapshots
  <1>3. QED
    BY <1>1, <1>2 DEF StartCheckpoint, CheckpointingStates, TypeOK

\* RequestSave keeps the types of what it assigns.
LEMMA RequestSaveType ==
    ASSUME TypeOK, NEW tx \in Nat, NEW s \in ValidSnapshots,
           NEW i \in DirtyPositions(s), NEW settled \in SUBSET Documents,
           RequestSave(tx, s, i, settled)
    PROVE  /\ state' \in SavingStates
           /\ state'.phase = "Saving"
           /\ state'.at \in DirtyPositions(state'.snapshot)
           /\ nextRequest' \in Nat
           /\ issued' \subseteq Tokens
           /\ UNCHANGED <<answers, publishing, checkpoints>>
  <1> DEFINE token == Token(tx, nextRequest + 1, s[i],
                            IF s[i].saveAs THEN "SaveAs" ELSE "Save")
  <1>1. i \in DOMAIN s /\ i \in Nat
    BY DEF DirtyPositions, ValidSnapshots
  <1>2. nextRequest + 1 \in Nat
    BY DEF TypeOK
  <1>3. token \in Tokens
    BY <1>1, <1>2, TokenType DEF Kinds
  <1>4. state' = [phase |-> "Saving", tx |-> tx, snapshot |-> s, at |-> i,
                  saved |-> settled, pending |-> token]
    BY DEF RequestSave
  <1>5. issued' = issued \cup {token}
    BY DEF RequestSave
  <1> HIDE DEF token
  <1>6. QED
    BY <1>1, <1>2, <1>3, <1>4, <1>5 DEF RequestSave, SavingStates, TypeOK

\* Every step of the coordinator and its adapter keeps the types.
LEMMA TypeStep == TypeInv /\ [AnyNext]_vars => TypeInv'
  <1> SUFFICES ASSUME TypeInv, [AnyNext]_vars
               PROVE  TypeInv'
    OBVIOUS
  <1> USE MaxTransactionsAssumption
  <1>0. state \in States /\ TypeOK /\ SavingInside
    BY DEF TypeInv, TypeOK, States
  <1>a. /\ state.phase = "AwaitingDecision" => state \in AwaitingStates
        /\ state.phase = "Saving" => state \in SavingStates
        /\ state.phase = "Checkpointing" => state \in CheckpointingStates
        /\ state.phase = "Releasing" => state \in ReleasingStates
    BY <1>0, Variants
  <1>b. ASSUME NEW reason \in InterruptionReasons, state.tx \in Nat,
               Interrupt(reason)
        PROVE  /\ state' = Idle /\ state'.phase # "Saving"
               /\ lastInterruption' \in [tx : Nat, reason : InterruptionReasons]
               /\ UNCHANGED <<nextTransaction, nextRequest, lastCompletion,
                              issued, answers, checkpoints>>
    BY <1>b DEF Interrupt, Idle
  <1>1. ASSUME NEW snapshot \in ValidSnapshots, RequestClose(snapshot)
        PROVE  TypeInv'
    <2>1. snapshot \in ValidSnapshots /\ nextTransaction + 1 \in Nat
      BY <1>0 DEF TypeOK
    <2>2. CASE StartCheckpoint(nextTransaction + 1, snapshot, "NoDirtyDocuments", {})
      <3>1. "NoDirtyDocuments" \in CompletionKinds /\ {} \in SUBSET Documents
        BY DEF CompletionKinds
      <3>2. /\ state' \in CheckpointingStates /\ state'.phase = "Checkpointing"
            /\ nextRequest' \in Nat /\ publishing' \in Nat
            /\ UNCHANGED <<issued, answers, checkpoints>>
        BY <1>0, <2>1, <2>2, <3>1, StartCheckpointType
      <3>3. QED
        BY <1>0, <1>1, <2>1, <3>2 DEF RequestClose, TypeInv, TypeOK, SavingInside
    <2>3. CASE /\ state' = [phase |-> "AwaitingDecision", tx |-> nextTransaction + 1,
                            snapshot |-> snapshot]
               /\ UNCHANGED <<nextRequest, adapterVars>>
      <3>1. state' \in AwaitingStates /\ state'.phase # "Saving"
        BY <2>1, <2>3 DEF AwaitingStates
      <3>2. QED
        BY <1>0, <1>1, <2>1, <2>3, <3>1
        DEF RequestClose, TypeInv, TypeOK, SavingInside, adapterVars
    <2>4. QED
      BY <1>1, <2>2, <2>3 DEF RequestClose
  <1>2. CASE ChooseCancel
    BY <1>0, <1>2, <1>a, <1>b
    DEF ChooseCancel, AwaitingStates, InterruptionReasons, TypeInv, TypeOK, SavingInside
  <1>3. CASE ChooseDiscardAll
    <2>1. state.tx \in Nat /\ state.snapshot \in ValidSnapshots
      BY <1>3, <1>a DEF ChooseDiscardAll, AwaitingStates
    <2>2. "DiscardedAll" \in CompletionKinds /\ {} \in SUBSET Documents
      BY DEF CompletionKinds
    <2>3. /\ state' \in CheckpointingStates /\ state'.phase = "Checkpointing"
          /\ nextRequest' \in Nat /\ publishing' \in Nat
          /\ UNCHANGED <<issued, answers, checkpoints>>
      BY <1>0, <1>3, <2>1, <2>2, StartCheckpointType DEF ChooseDiscardAll
    <2>4. QED
      BY <1>0, <1>3, <2>3 DEF ChooseDiscardAll, TypeInv, TypeOK, SavingInside
  <1>4. CASE ChooseSaveAll
    <2>1. state.tx \in Nat /\ state.snapshot \in ValidSnapshots
      BY <1>4, <1>a DEF ChooseSaveAll, AwaitingStates
    <2>2. PICK i \in DirtyPositions(state.snapshot) :
             RequestSave(state.tx, state.snapshot, i, {})
      BY <1>4 DEF ChooseSaveAll, IsNextDirty
    <2>3. /\ state' \in SavingStates /\ state'.at \in DirtyPositions(state'.snapshot)
          /\ nextRequest' \in Nat /\ issued' \subseteq Tokens
          /\ UNCHANGED <<answers, publishing, checkpoints>>
      BY <1>0, <2>1, <2>2, RequestSaveType
    <2>4. QED
      BY <1>0, <1>4, <2>3 DEF ChooseSaveAll, TypeInv, TypeOK, SavingInside
  <1>5. ASSUME NEW token \in Waiting, NEW outcome \in Outcomes(token.kind),
               Answer(token, outcome)
        PROVE  TypeInv'
    <2>1. token \in Tokens /\ token.kind \in Kinds
      BY <1>0 DEF Waiting, TypeOK, Tokens
    <2>2. outcome \in UNION {Outcomes(k) : k \in Kinds}
      BY <2>1
    <2>3. QED
      BY <1>0, <1>5, <2>1, <2>2
      DEF Answer, coordinatorVars, TypeInv, TypeOK, SavingInside
  <1>6. ASSUME NEW a \in answers, HandleResult(a)
        PROVE  TypeInv'
    <2>0. a.token \in Tokens /\ a.token.doc \in Documents
      BY <1>0 DEF TypeOK, Tokens
    <2>1. CASE HandleSaveAsSelected(a)
      <3>1. state \in SavingStates /\ state.at \in DirtyPositions(state.snapshot)
        BY <1>0, <1>a, <2>1 DEF HandleSaveAsSelected, Expected, SavingInside
      <3> DEFINE token == Token(state.tx, nextRequest + 1, state.snapshot[state.at], "Save")
      <3>2. token \in Tokens
        BY <1>0, <3>1, TokenType DEF SavingStates, DirtyPositions, TypeOK, Kinds
      <3>3. state' = [state EXCEPT !.pending = token] /\ issued' = issued \cup {token}
        BY <2>1 DEF HandleSaveAsSelected
      <3> HIDE DEF token
      <3>4. /\ state' \in SavingStates /\ state'.at = state.at
            /\ state'.snapshot = state.snapshot
        BY <3>1, <3>2, <3>3 DEF SavingStates
      <3>5. QED
        BY <1>0, <2>1, <3>1, <3>2, <3>3, <3>4
        DEF HandleSaveAsSelected, TypeInv, TypeOK, SavingInside
    <2>2. CASE HandleSaved(a)
      <3> DEFINE settled == state.saved \cup {a.token.doc}
      <3>1. state \in SavingStates
        BY <1>a, <2>2 DEF HandleSaved, Expected
      <3>2. state.tx \in Nat /\ state.snapshot \in ValidSnapshots /\ settled \in SUBSET Documents
        BY <2>0, <3>1 DEF SavingStates
      <3> HIDE DEF settled
      <3>3. CASE \E i \in DirtyPositions(state.snapshot) :
                    RequestSave(state.tx, state.snapshot, i, settled)
        <4>1. /\ state' \in SavingStates /\ state'.at \in DirtyPositions(state'.snapshot)
              /\ nextRequest' \in Nat /\ issued' \subseteq Tokens
              /\ UNCHANGED <<answers, publishing, checkpoints>>
          BY <1>0, <3>2, <3>3, RequestSaveType
        <4>2. QED
          BY <1>0, <2>2, <4>1 DEF HandleSaved, TypeInv, TypeOK, SavingInside
      <3>4. CASE StartCheckpoint(state.tx, state.snapshot, "SavedAll", settled)
        <4>1. /\ state' \in CheckpointingStates /\ state'.phase = "Checkpointing"
              /\ nextRequest' \in Nat /\ publishing' \in Nat
              /\ UNCHANGED <<issued, answers, checkpoints>>
          BY <1>0, <3>2, <3>4, StartCheckpointType DEF CompletionKinds
        <4>2. QED
          BY <1>0, <2>2, <4>1 DEF HandleSaved, TypeInv, TypeOK, SavingInside
      <3>5. QED
        BY <2>2, <3>3, <3>4 DEF HandleSaved, IsNextDirty, settled
    <2>3. CASE HandleSaveInterrupted(a)
      <3>1. state.tx \in Nat
        BY <1>a, <2>3 DEF HandleSaveInterrupted, Expected, SavingStates
      <3>2. SaveInterruption(a.outcome) \in InterruptionReasons
        BY DEF SaveInterruption, InterruptionReasons
      <3>3. QED
        BY <1>0, <1>b, <2>3, <3>1, <3>2
        DEF HandleSaveInterrupted, TypeInv, TypeOK, SavingInside
    <2>4. CASE HandleReleased(a)
      <3>1. state \in ReleasingStates
        BY <1>a, <2>4 DEF HandleReleased
      <3> DEFINE pending == state.pending \ {a.token}
                 released == state.released \cup {a.token.doc}
      <3>2. pending \subseteq Tokens /\ released \subseteq Documents
        BY <2>0, <3>1 DEF ReleasingStates
      <3> HIDE DEF pending, released
      <3>3. CASE \E first \in pending :
                    /\ state' = [state EXCEPT !.pending = pending, !.released = released]
                    /\ issued' = issued \cup {first}
                    /\ UNCHANGED lastCompletion
        <4>1. state' \in ReleasingStates /\ issued' \subseteq Tokens
          BY <1>0, <3>1, <3>2, <3>3 DEF ReleasingStates, TypeOK
        <4>2. state'.phase # "Saving"
          BY <4>1 DEF ReleasingStates
        <4>3. QED
          BY <1>0, <2>4, <3>3, <4>1, <4>2 DEF HandleReleased, TypeInv, TypeOK, SavingInside
      <3>4. CASE /\ Complete(IF state.kind = "SavedAll" THEN state.saved ELSE released)
                 /\ UNCHANGED issued
        <4>1. state' = Idle /\ state'.phase # "Saving"
          BY <3>4 DEF Complete, Idle
        <4>2. lastCompletion' \in
                 [tx : Nat, kind : CompletionKinds, documents : SUBSET Documents]
          BY <3>1, <3>2, <3>4 DEF Complete, ReleasingStates
        <4>3. QED
          BY <1>0, <2>4, <3>4, <4>1, <4>2 DEF HandleReleased, TypeInv, TypeOK, SavingInside
      <3>5. QED
        BY <2>4, <3>3, <3>4 DEF HandleReleased, pending, released
    <2>5. CASE HandleReleaseFailed(a)
      BY <1>0, <1>a, <1>b, <2>5
      DEF HandleReleaseFailed, ReleasingStates, InterruptionReasons,
          TypeInv, TypeOK, SavingInside
    <2>6. QED
      BY <1>6, <2>1, <2>2, <2>3, <2>4, <2>5 DEF HandleResult
  <1>7. ASSUME NEW ok \in BOOLEAN, PublishCheckpoint(ok)
        PROVE  TypeInv'
    BY <1>0, <1>7 DEF PublishCheckpoint, coordinatorVars, TypeInv, TypeOK, SavingInside
  <1>8. ASSUME NEW c \in checkpoints, HandleCheckpoint(c)
        PROVE  TypeInv'
    <2>0. state \in CheckpointingStates
      BY <1>8, <1>a
      DEF HandleCheckpoint, HandleCheckpointPublished, HandleCheckpointFailed
    <2>1. CASE HandleCheckpointPublished(c)
      <3>1. CASE Complete(state.saved) /\ UNCHANGED issued
        <4>1. state' = Idle /\ state'.phase # "Saving"
          BY <3>1 DEF Complete, Idle
        <4>2. lastCompletion' \in
                 [tx : Nat, kind : CompletionKinds, documents : SUBSET Documents]
          BY <2>0, <3>1 DEF Complete, CheckpointingStates
        <4>3. QED
          BY <1>0, <2>1, <3>1, <4>1, <4>2
          DEF HandleCheckpointPublished, TypeInv, TypeOK, SavingInside
      <3>2. CASE \E first \in state.pending :
                    /\ state' = [phase |-> "Releasing", tx |-> state.tx,
                          snapshot |-> state.snapshot, pending |-> state.pending,
                          released |-> {}, saved |-> state.saved, kind |-> state.kind]
                    /\ issued' = issued \cup {first}
                    /\ UNCHANGED lastCompletion
        <4>1. state' \in ReleasingStates /\ issued' \subseteq Tokens
          BY <1>0, <2>0, <3>2 DEF ReleasingStates, CheckpointingStates, TypeOK
        <4>2. state'.phase # "Saving"
          BY <4>1 DEF ReleasingStates
        <4>3. QED
          BY <1>0, <2>1, <3>2, <4>1, <4>2
          DEF HandleCheckpointPublished, TypeInv, TypeOK, SavingInside
      <3>3. QED
        BY <2>1, <3>1, <3>2 DEF HandleCheckpointPublished
    <2>2. CASE HandleCheckpointFailed(c)
      BY <1>0, <1>b, <2>0, <2>2
      DEF HandleCheckpointFailed, CheckpointingStates, InterruptionReasons,
          TypeInv, TypeOK, SavingInside
    <2>3. QED
      BY <1>8, <2>1, <2>2 DEF HandleCheckpoint
  <1>9. ASSUME NEW tx \in Nat, RetrySessionCheckpoint(tx)
        PROVE  TypeInv'
    <2>1. recoverable \in CheckpointingStates /\ tx \in Nat
      BY <1>0, <1>9 DEF RetrySessionCheckpoint, TypeOK
    <2>2. recoverable.phase # "Saving"
      BY <2>1 DEF CheckpointingStates
    <2>3. QED
      BY <1>0, <1>9, <2>1, <2>2 DEF RetrySessionCheckpoint, TypeInv, TypeOK, SavingInside
  <1>10. CASE UNCHANGED vars
    BY <1>0, <1>10 DEF vars, coordinatorVars, adapterVars, TypeInv, TypeOK, SavingInside
  <1>11. QED
    BY <1>1, <1>2, <1>3, <1>4, <1>5, <1>6, <1>7, <1>8, <1>9, <1>10 DEF AnyNext, Choose

\* The coordinator's state is always one of its five variants, with typed
\* tokens, and a pending save is always for a dirty document of its snapshot.
THEOREM TypeCorrect == Spec => [](TypeOK /\ SavingInside)
  <1>1. Init => TypeInv
    BY DEF Init, TypeInv, TypeOK, SavingInside, Idle
  <1>2. TypeInv => TypeOK /\ SavingInside
    BY DEF TypeInv
  <1>3. QED
    BY <1>1, <1>2, TypeStep, NextIsAny, PTL DEF Spec

-----------------------------------------------------------------------------
(* Only the newest transaction is alive.  Whatever has ended has left       *)
(* nothing behind that could act: neither a phase, nor a recoverable        *)
(* checkpoint, nor a publication.                                           *)

LiveInv ==
    /\ state.phase # "Idle" =>
          state.tx = nextTransaction /\ recoverable = None /\ lastCompletion = None
    /\ state.phase \in {"Checkpointing", "Releasing"} =>
          \A t \in state.pending : t.tx = nextTransaction
    /\ recoverable # None =>
          /\ recoverable.tx = nextTransaction /\ lastCompletion = None
          /\ \A t \in recoverable.pending : t.tx = nextTransaction
    /\ publishing # 0 => state.phase = "Checkpointing" /\ publishing = nextTransaction
    /\ \A t \in issued : t.tx <= nextTransaction

\* Release tokens belong to the transaction that minted them.
LEMMA ReleaseTokensOf ==
    ASSUME NEW tx, NEW seq, NEW s, NEW t \in ReleaseTokens(tx, seq, s)
    PROVE  t.tx = tx /\ t.kind = "Release"
  BY DEF ReleaseTokens, Token

\* Every step keeps the newest transaction the only live one.
LEMMA LiveStep == TypeInv /\ LiveInv /\ [AnyNext]_vars => LiveInv'
  <1> SUFFICES ASSUME TypeInv, LiveInv, [AnyNext]_vars
               PROVE  LiveInv'
    OBVIOUS
  <1>0. state \in States /\ TypeOK /\ nextTransaction \in Nat /\ issued \subseteq Tokens
    BY DEF TypeInv, TypeOK, States
  <1>a. /\ state.phase = "Saving" => state \in SavingStates
        /\ state.phase = "Checkpointing" => state \in CheckpointingStates
        /\ state.phase = "Releasing" => state \in ReleasingStates
    BY <1>0, Variants
  <1>b. ASSUME state.phase # "Idle", state.phase # "Checkpointing",
               NEW reason, Interrupt(reason), UNCHANGED <<recoverable, publishing>>
        PROVE  LiveInv'
    BY <1>0, <1>b DEF Interrupt, LiveInv, Idle
  <1>c. ASSUME state.phase # "Idle", NEW s, NEW kind, NEW settled,
               StartCheckpoint(state.tx, s, kind, settled),
               UNCHANGED <<nextTransaction, recoverable, lastCompletion>>
        PROVE  LiveInv'
    <2>1. \A t \in ReleaseTokens(state.tx, nextRequest, s) : t.tx = state.tx
      BY ReleaseTokensOf
    <2>2. QED
      BY <1>0, <1>c, <2>1 DEF StartCheckpoint, LiveInv
  <1>d. ASSUME state.phase \notin {"Idle", "Checkpointing"}, NEW s, NEW i, NEW settled,
               RequestSave(state.tx, s, i, settled),
               UNCHANGED <<nextTransaction, recoverable, lastCompletion>>
        PROVE  LiveInv'
    BY <1>0, <1>d DEF RequestSave, Token, LiveInv
  <1>1. ASSUME NEW snapshot \in ValidSnapshots, RequestClose(snapshot)
        PROVE  LiveInv'
    <2>1. \A t \in issued : t.tx <= nextTransaction + 1
      BY <1>0 DEF LiveInv, Tokens
    <2>2. publishing = 0
      BY <1>1 DEF RequestClose, LiveInv, Idle
    <2>3. \A t \in ReleaseTokens(nextTransaction + 1, nextRequest, snapshot) :
             t.tx = nextTransaction + 1
      BY ReleaseTokensOf
    <2>4. QED
      BY <1>0, <1>1, <2>1, <2>2, <2>3
      DEF RequestClose, StartCheckpoint, LiveInv, adapterVars
  <1>2. CASE Choose
    BY <1>2, <1>b, <1>c, <1>d
    DEF Choose, ChooseCancel, ChooseDiscardAll, ChooseSaveAll
  <1>3. ASSUME NEW token \in Waiting, NEW outcome \in Outcomes(token.kind),
               Answer(token, outcome)
        PROVE  LiveInv'
    BY <1>3 DEF Answer, coordinatorVars, LiveInv
  <1>4. ASSUME NEW a \in answers, HandleResult(a)
        PROVE  LiveInv'
    <2>1. CASE HandleSaveAsSelected(a)
      <3>1. state'.phase = "Saving" /\ state'.tx = state.tx
        BY <1>a, <2>1 DEF HandleSaveAsSelected, Expected, SavingStates
      <3>2. QED
        BY <1>0, <2>1, <3>1 DEF HandleSaveAsSelected, Expected, Token, LiveInv
    <2>2. CASE HandleSaved(a)
      BY <1>c, <1>d, <2>2 DEF HandleSaved, Expected
    <2>3. CASE HandleSaveInterrupted(a) \/ HandleReleaseFailed(a)
      BY <1>b, <2>3 DEF HandleSaveInterrupted, Expected, HandleReleaseFailed
    <2>4. CASE HandleReleased(a)
      <3> DEFINE pending == state.pending \ {a.token}
                 released == state.released \cup {a.token.doc}
      <3>1. CASE \E first \in pending :
                    /\ state' = [state EXCEPT !.pending = pending, !.released = released]
                    /\ issued' = issued \cup {first}
                    /\ UNCHANGED lastCompletion
        <4>1. /\ state'.phase = "Releasing" /\ state'.tx = state.tx
              /\ state'.pending = pending
          BY <1>a, <2>4, <3>1 DEF HandleReleased, ReleasingStates
        <4>2. QED
          BY <1>0, <2>4, <3>1, <4>1 DEF HandleReleased, LiveInv
      <3>2. CASE /\ Complete(IF state.kind = "SavedAll" THEN state.saved ELSE released)
                 /\ UNCHANGED issued
        BY <1>0, <2>4, <3>2 DEF HandleReleased, Complete, LiveInv, Idle
      <3>3. QED
        BY <2>4, <3>1, <3>2 DEF HandleReleased
    <2>5. QED
      BY <1>4, <2>1, <2>2, <2>3, <2>4 DEF HandleResult
  <1>5. ASSUME NEW ok \in BOOLEAN, PublishCheckpoint(ok)
        PROVE  LiveInv'
    BY <1>5 DEF PublishCheckpoint, coordinatorVars, LiveInv
  <1>6. ASSUME NEW c \in checkpoints, c.tx # publishing, HandleCheckpoint(c)
        PROVE  LiveInv'
    <2>1. publishing = 0
      BY <1>6 DEF HandleCheckpoint, HandleCheckpointPublished, HandleCheckpointFailed, LiveInv
    <2>2. CASE HandleCheckpointPublished(c)
      <3>1. CASE Complete(state.saved) /\ UNCHANGED issued
        BY <1>0, <2>1, <2>2, <3>1 DEF HandleCheckpointPublished, Complete, LiveInv, Idle
      <3>2. CASE ~ (Complete(state.saved) /\ UNCHANGED issued)
        BY <1>0, <2>1, <2>2, <3>2 DEF HandleCheckpointPublished, LiveInv
      <3>3. QED
        BY <3>1, <3>2
    <2>3. CASE HandleCheckpointFailed(c)
      BY <1>0, <2>1, <2>3 DEF HandleCheckpointFailed, Interrupt, LiveInv, Idle
    <2>4. QED
      BY <1>6, <2>2, <2>3 DEF HandleCheckpoint
  <1>7. ASSUME NEW tx \in Nat, RetrySessionCheckpoint(tx)
        PROVE  LiveInv'
    <2>1. recoverable \in CheckpointingStates
      BY <1>0, <1>7 DEF RetrySessionCheckpoint, TypeOK
    <2>2. recoverable.phase = "Checkpointing"
      BY <2>1 DEF CheckpointingStates
    <2>3. QED
      BY <1>0, <1>7, <2>2 DEF RetrySessionCheckpoint, LiveInv
  <1>8. CASE UNCHANGED vars
    BY <1>8 DEF vars, coordinatorVars, adapterVars, LiveInv
  <1>9. QED
    BY <1>1, <1>2, <1>3, <1>4, <1>5, <1>6, <1>7, <1>8 DEF AnyNext

\* The initial state has no live transaction.
LEMMA LiveInit == Init => LiveInv
  BY DEF Init, LiveInv, Idle

-----------------------------------------------------------------------------
(* No release before the manifest.  Until its checkpoint is published a     *)
(* transaction has issued no release; while it releases, the checkpoint is  *)
(* there and cannot be published anew.                                      *)

NoReleaseOf(tx) == \A t \in issued : t.kind = "Release" => t.tx # tx

ReleaseInv ==
    /\ ReleaseOnlyAfterCheckpoint
    /\ state.phase \in {"AwaitingDecision", "Saving", "Checkpointing"} =>
          NoReleaseOf(nextTransaction)
    /\ recoverable # None => NoReleaseOf(nextTransaction)
    /\ state.phase = "Releasing" => [tx |-> nextTransaction, ok |-> TRUE] \in checkpoints

\* Every step keeps releases behind their transaction's checkpoint.
LEMMA ReleaseStep ==
    TypeInv /\ LiveInv /\ ReleaseInv /\ [AnyNext]_vars => ReleaseInv'
  <1> SUFFICES ASSUME TypeInv, LiveInv, ReleaseInv, [AnyNext]_vars
               PROVE  ReleaseInv'
    OBVIOUS
  <1>0. /\ state \in States /\ TypeOK /\ nextTransaction \in Nat /\ issued \subseteq Tokens
        /\ checkpoints \subseteq [tx : Nat, ok : BOOLEAN]
    BY DEF TypeInv, TypeOK, States
  <1>a. /\ state.phase = "Saving" => state \in SavingStates
        /\ state.phase = "Releasing" => state \in ReleasingStates
    BY <1>0, Variants
  <1>b. ASSUME NEW reason, Interrupt(reason), UNCHANGED recoverable
        PROVE  ReleaseInv'
    BY <1>b DEF Interrupt, ReleaseInv, ReleaseOnlyAfterCheckpoint, NoReleaseOf, Idle
  <1>c. ASSUME state.phase \in {"AwaitingDecision", "Saving"}, NEW s, NEW kind, NEW settled,
               StartCheckpoint(state.tx, s, kind, settled),
               UNCHANGED <<nextTransaction, recoverable>>
        PROVE  ReleaseInv'
    BY <1>c DEF StartCheckpoint, ReleaseInv, ReleaseOnlyAfterCheckpoint, NoReleaseOf
  <1>d. ASSUME state.phase \in {"AwaitingDecision", "Saving"}, NEW s, NEW i, NEW settled,
               RequestSave(state.tx, s, i, settled),
               UNCHANGED <<nextTransaction, recoverable>>
        PROVE  ReleaseInv'
    <2> DEFINE token == Token(state.tx, nextRequest + 1, s[i],
                              IF s[i].saveAs THEN "SaveAs" ELSE "Save")
    <2>1. token.kind # "Release"
      BY DEF Token
    <2>2. /\ state'.phase = "Saving" /\ issued' = issued \cup {token}
          /\ checkpoints' = checkpoints
      BY <1>d DEF RequestSave
    <2> HIDE DEF token
    <2>3. QED
      BY <1>d, <2>1, <2>2 DEF ReleaseInv, ReleaseOnlyAfterCheckpoint, NoReleaseOf
  <1>1. ASSUME NEW snapshot \in ValidSnapshots, RequestClose(snapshot)
        PROVE  ReleaseInv'
    <2>1. \A t \in issued : t.tx # nextTransaction + 1
      BY <1>0 DEF LiveInv, Tokens
    <2>2. QED
      BY <1>0, <1>1, <2>1
      DEF RequestClose, StartCheckpoint, adapterVars, ReleaseInv,
          ReleaseOnlyAfterCheckpoint, NoReleaseOf
  <1>2. CASE Choose
    BY <1>2, <1>b, <1>c, <1>d DEF Choose, ChooseCancel, ChooseDiscardAll, ChooseSaveAll
  <1>3. ASSUME NEW token \in Waiting, NEW outcome \in Outcomes(token.kind),
               Answer(token, outcome)
        PROVE  ReleaseInv'
    BY <1>3 DEF Answer, coordinatorVars, ReleaseInv, ReleaseOnlyAfterCheckpoint, NoReleaseOf
  <1>4. ASSUME NEW a \in answers, HandleResult(a)
        PROVE  ReleaseInv'
    <2>1. CASE HandleSaveAsSelected(a)
      <3> DEFINE token == Token(state.tx, nextRequest + 1, state.snapshot[state.at], "Save")
      <3>1. token.kind # "Release"
        BY DEF Token
      <3>2. /\ state'.phase = "Saving" /\ issued' = issued \cup {token}
            /\ checkpoints' = checkpoints /\ state.phase = "Saving"
            /\ UNCHANGED <<nextTransaction, recoverable>>
        BY <1>a, <2>1 DEF HandleSaveAsSelected, Expected, SavingStates
      <3> HIDE DEF token
      <3>3. QED
        BY <3>1, <3>2 DEF ReleaseInv, ReleaseOnlyAfterCheckpoint, NoReleaseOf
    <2>2. CASE HandleSaved(a)
      BY <1>c, <1>d, <2>2 DEF HandleSaved, Expected
    <2>3. CASE HandleSaveInterrupted(a) \/ HandleReleaseFailed(a)
      BY <1>b, <2>3 DEF HandleSaveInterrupted, HandleReleaseFailed
    <2>4. CASE HandleReleased(a)
      <3>1. CASE \E first \in state.pending \ {a.token} :
                    /\ state' = [state EXCEPT !.pending = state.pending \ {a.token},
                                              !.released = state.released \cup {a.token.doc}]
                    /\ issued' = issued \cup {first}
        <4>1. state'.phase = "Releasing"
          BY <1>a, <2>4, <3>1 DEF HandleReleased, ReleasingStates
        <4>2. \A t \in issued' \ issued : t.tx = nextTransaction
          BY <2>4, <3>1 DEF HandleReleased, LiveInv
        <4>3. recoverable = None
          BY <2>4 DEF HandleReleased, LiveInv
        <4>4. QED
          BY <2>4, <4>1, <4>2, <4>3
          DEF HandleReleased, ReleaseInv, ReleaseOnlyAfterCheckpoint
      <3>2. CASE state' = Idle /\ UNCHANGED issued
        BY <2>4, <3>2
        DEF HandleReleased, ReleaseInv, ReleaseOnlyAfterCheckpoint, NoReleaseOf, Idle
      <3>3. QED
        BY <2>4, <3>1, <3>2 DEF HandleReleased, Complete
    <2>5. QED
      BY <1>4, <2>1, <2>2, <2>3, <2>4 DEF HandleResult
  <1>5. ASSUME NEW ok \in BOOLEAN, PublishCheckpoint(ok)
        PROVE  ReleaseInv'
    <2>1. state.phase = "Checkpointing" /\ publishing = nextTransaction
      BY <1>5 DEF PublishCheckpoint, LiveInv
    <2>2. \A t \in issued : t.kind = "Release" => [tx |-> t.tx, ok |-> TRUE] \in checkpoints'
      BY <1>5, <2>1 DEF PublishCheckpoint, ReleaseInv, ReleaseOnlyAfterCheckpoint, NoReleaseOf
    <2>3. QED
      BY <1>5, <2>1, <2>2
      DEF PublishCheckpoint, coordinatorVars, ReleaseInv, ReleaseOnlyAfterCheckpoint, NoReleaseOf
  <1>6. ASSUME NEW c \in checkpoints, c.tx # publishing, HandleCheckpoint(c)
        PROVE  ReleaseInv'
    <2>1. CASE HandleCheckpointPublished(c)
      <3>1. c = [tx |-> nextTransaction, ok |-> TRUE]
        BY <1>0, <2>1 DEF HandleCheckpointPublished, LiveInv
      <3>2. CASE state' = Idle /\ UNCHANGED issued
        BY <2>1, <3>2
        DEF HandleCheckpointPublished, ReleaseInv, ReleaseOnlyAfterCheckpoint, NoReleaseOf, Idle
      <3>3. CASE \E first \in state.pending :
                    state'.phase = "Releasing" /\ issued' = issued \cup {first}
        <4>1. \A t \in issued' \ issued : t.tx = nextTransaction
          BY <2>1, <3>3 DEF HandleCheckpointPublished, LiveInv
        <4>2. recoverable = None
          BY <2>1 DEF HandleCheckpointPublished, LiveInv
        <4>3. QED
          BY <2>1, <3>1, <3>3, <4>1, <4>2
          DEF HandleCheckpointPublished, ReleaseInv, ReleaseOnlyAfterCheckpoint
      <3>4. QED
        BY <2>1, <3>2, <3>3 DEF HandleCheckpointPublished, Complete
    <2>2. CASE HandleCheckpointFailed(c)
      BY <2>2 DEF HandleCheckpointFailed, Interrupt, ReleaseInv,
                  ReleaseOnlyAfterCheckpoint, NoReleaseOf, Idle
    <2>3. QED
      BY <1>6, <2>1, <2>2 DEF HandleCheckpoint
  <1>7. ASSUME NEW tx \in Nat, RetrySessionCheckpoint(tx)
        PROVE  ReleaseInv'
    <2>1. recoverable \in CheckpointingStates
      BY <1>0, <1>7 DEF RetrySessionCheckpoint, TypeOK
    <2>2. recoverable.phase = "Checkpointing"
      BY <2>1 DEF CheckpointingStates
    <2>3. QED
      BY <1>7, <2>2
      DEF RetrySessionCheckpoint, ReleaseInv, ReleaseOnlyAfterCheckpoint, NoReleaseOf
  <1>8. CASE UNCHANGED vars
    BY <1>8 DEF vars, coordinatorVars, adapterVars, ReleaseInv,
                ReleaseOnlyAfterCheckpoint, NoReleaseOf
  <1>9. QED
    BY <1>1, <1>2, <1>3, <1>4, <1>5, <1>6, <1>7, <1>8 DEF AnyNext

\* For any documents and any number of transactions, a document is asked to be
\* released only after its own transaction's session manifest was published.
THEOREM ReleaseFollowsCheckpoint == Spec => []ReleaseOnlyAfterCheckpoint
  <1>1. Init => TypeInv /\ LiveInv /\ ReleaseInv
    BY LiveInit
    DEF Init, TypeInv, TypeOK, SavingInside, ReleaseInv, ReleaseOnlyAfterCheckpoint, Idle
  <1>2. TypeInv /\ LiveInv /\ ReleaseInv /\ [AnyNext]_vars
           => (TypeInv /\ LiveInv /\ ReleaseInv)'
    BY TypeStep, LiveStep, ReleaseStep
  <1>3. ReleaseInv => ReleaseOnlyAfterCheckpoint
    BY DEF ReleaseInv
  <1>4. QED
    BY <1>1, <1>2, <1>3, NextIsAny, PTL DEF Spec

\* For any documents and any number of transactions, every new request is made
\* by the newest transaction, and not once that transaction was confirmed.
THEOREM LiveTransactionActs == Spec => OnlyTheLiveTransactionActs
  <1> DEFINE Act == \A t \in issued' \ issued :
                t.tx = nextTransaction' /\ (lastCompletion # None => lastCompletion.tx # t.tx)
  <1>1. Init => TypeInv /\ LiveInv
    BY LiveInit DEF Init, TypeInv, TypeOK, SavingInside, Idle
  <1>2. TypeInv /\ LiveInv /\ [AnyNext]_vars => [Act]_vars
    <2> SUFFICES ASSUME TypeInv, LiveInv, [AnyNext]_vars, NEW t \in issued' \ issued
                 PROVE  t.tx = nextTransaction' /\ lastCompletion = None
      OBVIOUS
    <2>0. AnyNext /\ issued' # issued
      BY DEF vars, adapterVars
    <2>1. ASSUME NEW s, NEW i, NEW settled, RequestSave(state.tx, s, i, settled),
                 state.phase # "Idle", UNCHANGED nextTransaction
          PROVE  t.tx = nextTransaction' /\ lastCompletion = None
      BY <2>1 DEF RequestSave, Token, LiveInv
    <2>2. CASE Choose
      BY <2>0, <2>1, <2>2
      DEF Choose, ChooseCancel, Interrupt, ChooseDiscardAll, StartCheckpoint, ChooseSaveAll
    <2>3. CASE \E a \in answers : HandleResult(a)
      <3> PICK a \in answers : HandleResult(a)
        BY <2>3
      <3>1. CASE HandleSaveAsSelected(a)
        BY <3>1 DEF HandleSaveAsSelected, Expected, Token, LiveInv
      <3>2. CASE HandleSaved(a)
        BY <2>0, <2>1, <3>2 DEF HandleSaved, Expected, StartCheckpoint
      <3>3. CASE HandleReleased(a)
        BY <3>3 DEF HandleReleased, LiveInv
      <3>4. QED
        BY <2>0, <3>1, <3>2, <3>3
        DEF HandleResult, HandleSaveInterrupted, HandleReleaseFailed, Interrupt
    <2>4. CASE \E c \in checkpoints : c.tx # publishing /\ HandleCheckpoint(c)
      BY <2>0, <2>4
      DEF HandleCheckpoint, HandleCheckpointPublished, HandleCheckpointFailed, Interrupt, LiveInv
    <2>5. QED
      BY <2>0, <2>2, <2>3, <2>4
      DEF AnyNext, RequestClose, StartCheckpoint, adapterVars, Answer,
          PublishCheckpoint, RetrySessionCheckpoint
  <1>3. TypeInv /\ LiveInv /\ [AnyNext]_vars => (TypeInv /\ LiveInv)'
    BY TypeStep, LiveStep
  <1>4. QED
    BY <1>1, <1>2, <1>3, NextIsAny, PTL DEF Spec, OnlyTheLiveTransactionActs

-----------------------------------------------------------------------------
(* "Saved all" is earned: the saving phase has a save behind every dirty    *)
(* position it has passed, and its pending token names the revision that    *)
(* the snapshot recorded at the position it is at.                          *)

PassedAreSaved(s) ==
    \A i \in DirtyPositions(s.snapshot) :
       i < s.at => SavedByAdapter(s.tx, s.snapshot[i])

EarnedInv ==
    /\ \A a \in answers : a.outcome \in Outcomes(a.token.kind)
    /\ state.phase = "Saving" =>
          /\ state.pending.tx = state.tx
          /\ state.pending.doc = state.snapshot[state.at].id
          /\ state.pending.rev = state.snapshot[state.at].dirty
          /\ PassedAreSaved(state)
    /\ SavedAllIsEarned

\* What the adapter has saved stays saved: answers are never withdrawn.
LEMMA SavedStays ==
    ASSUME NEW tx, NEW entry, answers \subseteq answers', SavedByAdapter(tx, entry)
    PROVE  SavedByAdapter(tx, entry)'
  BY DEF SavedByAdapter

\* Every step keeps "saved all" earned.
LEMMA EarnedStep ==
    TypeInv /\ LiveInv /\ EarnedInv /\ [AnyNext]_vars => EarnedInv'
  <1> SUFFICES ASSUME TypeInv, LiveInv, EarnedInv, [AnyNext]_vars
               PROVE  EarnedInv'
    OBVIOUS
  <1>0. state \in States /\ TypeOK /\ SavingInside
    BY DEF TypeInv, TypeOK, States
  <1>a. /\ state.phase = "Saving" => state \in SavingStates
        /\ state.phase = "Releasing" => state \in ReleasingStates
    BY <1>0, Variants
  \* An interrupted transaction is neither saving nor on its way to a release.
  <1>b. ASSUME NEW reason, Interrupt(reason), UNCHANGED recoverable
        PROVE  EarnedInv'
    <2>1. state'.phase = "Idle" /\ answers' = answers
      BY <1>b DEF Interrupt, Idle
    <2>2. QED
      BY <1>b, <2>1 DEF EarnedInv, SavedAllIsEarned, EarnedBy, SavedByAdapter
  <1>c. ASSUME NEW tx, NEW s, NEW kind, NEW settled, StartCheckpoint(tx, s, kind, settled),
               kind = "SavedAll" =>
                  \A i \in DirtyPositions(s) : SavedByAdapter(tx, s[i]),
               UNCHANGED recoverable \/ recoverable' = None
        PROVE  EarnedInv'
    <2>1. /\ state'.phase = "Checkpointing" /\ state'.tx = tx /\ state'.snapshot = s
          /\ state'.kind = kind /\ answers' = answers
      BY <1>c DEF StartCheckpoint
    <2>2. QED
      BY <1>c, <2>1 DEF EarnedInv, SavedAllIsEarned, EarnedBy, SavedByAdapter
  <1>d. ASSUME NEW s, NEW i, NEW settled, RequestSave(state.tx, s, i, settled),
               \A k \in DirtyPositions(s) : k < i => SavedByAdapter(state.tx, s[k]),
               UNCHANGED recoverable
        PROVE  EarnedInv'
    <2>1. /\ state'.phase = "Saving" /\ state'.tx = state.tx /\ state'.snapshot = s
          /\ state'.at = i /\ state'.pending.tx = state.tx
          /\ state'.pending.doc = s[i].id /\ state'.pending.rev = s[i].dirty
          /\ answers' = answers
      BY <1>d DEF RequestSave, Token
    <2>2. QED
      BY <1>d, <2>1
      DEF EarnedInv, SavedAllIsEarned, EarnedBy, PassedAreSaved, SavedByAdapter
  <1>1. ASSUME NEW snapshot \in ValidSnapshots, RequestClose(snapshot)
        PROVE  EarnedInv'
    <2>1. CASE StartCheckpoint(nextTransaction + 1, snapshot, "NoDirtyDocuments", {})
      BY <1>1, <1>c, <2>1 DEF RequestClose
    <2>2. CASE /\ state' = [phase |-> "AwaitingDecision", tx |-> nextTransaction + 1,
                            snapshot |-> snapshot]
               /\ UNCHANGED adapterVars
      <3>1. state'.phase = "AwaitingDecision" /\ recoverable' = None /\ answers' = answers
        BY <1>1, <2>2 DEF RequestClose, adapterVars
      <3>2. QED
        BY <3>1 DEF EarnedInv, SavedAllIsEarned
    <2>3. QED
      BY <1>1, <2>1, <2>2 DEF RequestClose
  <1>2. CASE ChooseCancel
    BY <1>2, <1>b DEF ChooseCancel
  <1>3. CASE ChooseDiscardAll
    BY <1>3, <1>c DEF ChooseDiscardAll
  <1>4. CASE ChooseSaveAll
    <2>1. PICK i \in DOMAIN state.snapshot :
             /\ IsNextDirty(state.snapshot, 0, i)
             /\ RequestSave(state.tx, state.snapshot, i, {})
      BY <1>4 DEF ChooseSaveAll
    <2>2. state.snapshot \in ValidSnapshots
      BY <1>0, <1>4, Variants DEF ChooseSaveAll, AwaitingStates
    <2>3. \A k \in DirtyPositions(state.snapshot) : ~ (k < i)
      <3>1. \A k \in DirtyPositions(state.snapshot) : k \in Nat /\ 0 < k
        BY <2>2 DEF DirtyPositions, ValidSnapshots
      <3>2. i \in Nat
        BY <2>1, <3>1 DEF IsNextDirty
      <3>3. QED
        BY <2>1, <3>1, <3>2 DEF IsNextDirty
    <2>4. QED
      BY <1>4, <1>d, <2>1, <2>3 DEF ChooseSaveAll
  <1>5. ASSUME NEW token \in Waiting, NEW outcome \in Outcomes(token.kind),
               Answer(token, outcome)
        PROVE  EarnedInv'
    <2>1. answers \subseteq answers' /\ UNCHANGED <<state, recoverable>>
      BY <1>5 DEF Answer, coordinatorVars
    <2>2. \A a \in answers' : a.outcome \in Outcomes(a.token.kind)
      BY <1>5 DEF Answer, EarnedInv
    <2>3. QED
      BY <2>1, <2>2, SavedStays DEF EarnedInv, SavedAllIsEarned, EarnedBy, PassedAreSaved
  <1>6. ASSUME NEW a \in answers, HandleResult(a)
        PROVE  EarnedInv'
    <2>1. CASE HandleSaveAsSelected(a)
      <3> DEFINE token == Token(state.tx, nextRequest + 1, state.snapshot[state.at], "Save")
      <3>1. /\ token.tx = state.tx /\ token.doc = state.snapshot[state.at].id
            /\ token.rev = state.snapshot[state.at].dirty
        BY DEF Token
      <3>2. state' = [state EXCEPT !.pending = token]
        BY <2>1 DEF HandleSaveAsSelected
      <3> HIDE DEF token
      <3>3. /\ state'.phase = "Saving" /\ state'.tx = state.tx /\ state'.at = state.at
            /\ state'.snapshot = state.snapshot /\ state'.pending = token
        BY <1>a, <2>1, <3>2 DEF HandleSaveAsSelected, Expected, SavingStates
      <3>4. state.phase = "Saving" /\ UNCHANGED <<recoverable, answers>>
        BY <2>1 DEF HandleSaveAsSelected, Expected
      <3>5. QED
        BY <3>1, <3>3, <3>4
        DEF EarnedInv, SavedAllIsEarned, EarnedBy, PassedAreSaved, SavedByAdapter
    <2>2. CASE HandleSaved(a)
      <3> DEFINE settled == state.saved \cup {a.token.doc}
      <3>1. /\ state \in SavingStates /\ state.at \in DirtyPositions(state.snapshot)
            /\ state.phase = "Saving"
        BY <1>0, <1>a, <2>2 DEF HandleSaved, Expected, SavingInside
      <3>2. a.token.kind = "Save"
        BY <1>0, <2>2 DEF HandleSaved, EarnedInv, Outcomes, TypeOK, Tokens, Kinds
      <3>3. SavedByAdapter(state.tx, state.snapshot[state.at])
        BY <2>2, <3>1, <3>2 DEF HandleSaved, Expected, EarnedInv, SavedByAdapter
      <3>4. \A k \in DirtyPositions(state.snapshot) : k \in Nat
        BY <3>1 DEF DirtyPositions, ValidSnapshots, SavingStates
      <3>5. \A k \in DirtyPositions(state.snapshot) :
               k <= state.at => SavedByAdapter(state.tx, state.snapshot[k])
        BY <3>1, <3>3, <3>4 DEF EarnedInv, PassedAreSaved
      <3>6. ASSUME NEW i \in DOMAIN state.snapshot,
                   IsNextDirty(state.snapshot, state.at, i),
                   RequestSave(state.tx, state.snapshot, i, settled)
            PROVE  EarnedInv'
        <4>1. \A k \in DirtyPositions(state.snapshot) : k < i => k <= state.at
          BY <3>1, <3>4, <3>6 DEF IsNextDirty
        <4>2. QED
          BY <1>d, <2>2, <3>5, <3>6, <4>1 DEF HandleSaved
      <3>7. ASSUME \A i \in DirtyPositions(state.snapshot) : i <= state.at,
                   StartCheckpoint(state.tx, state.snapshot, "SavedAll", settled)
            PROVE  EarnedInv'
        BY <1>c, <2>2, <3>5, <3>7 DEF HandleSaved
      <3>8. QED
        BY <2>2, <3>6, <3>7 DEF HandleSaved
    <2>3. CASE HandleSaveInterrupted(a) \/ HandleReleaseFailed(a)
      BY <1>b, <2>3 DEF HandleSaveInterrupted, HandleReleaseFailed
    <2>4. CASE HandleReleased(a)
      <3>1. CASE state' = [state EXCEPT !.pending = state.pending \ {a.token},
                                        !.released = state.released \cup {a.token.doc}]
        <4>1. /\ state'.phase = "Releasing" /\ state'.tx = state.tx
              /\ state'.snapshot = state.snapshot /\ state'.kind = state.kind
          BY <1>a, <2>4, <3>1 DEF HandleReleased, ReleasingStates
        <4>2. QED
          BY <2>4, <4>1
          DEF HandleReleased, EarnedInv, SavedAllIsEarned, EarnedBy, SavedByAdapter
      <3>2. CASE state' = Idle
        BY <2>4, <3>2
        DEF HandleReleased, EarnedInv, SavedAllIsEarned, EarnedBy, SavedByAdapter, Idle
      <3>3. QED
        BY <2>4, <3>1, <3>2 DEF HandleReleased, Complete
    <2>5. QED
      BY <1>6, <2>1, <2>2, <2>3, <2>4 DEF HandleResult
  <1>7. ASSUME NEW ok \in BOOLEAN, PublishCheckpoint(ok)
        PROVE  EarnedInv'
    BY <1>7
    DEF PublishCheckpoint, coordinatorVars, EarnedInv, SavedAllIsEarned, EarnedBy,
        PassedAreSaved, SavedByAdapter
  <1>8. ASSUME NEW c \in checkpoints, HandleCheckpoint(c)
        PROVE  EarnedInv'
    <2>1. CASE HandleCheckpointPublished(c)
      <3>1. /\ state.phase = "Checkpointing" /\ UNCHANGED <<recoverable, answers>>
            /\ \/ state' = Idle
               \/ /\ state'.phase = "Releasing" /\ state'.tx = state.tx
                  /\ state'.snapshot = state.snapshot /\ state'.kind = state.kind
        BY <2>1 DEF HandleCheckpointPublished, Complete
      <3>2. QED
        BY <3>1 DEF EarnedInv, SavedAllIsEarned, EarnedBy, SavedByAdapter, Idle
    <2>2. CASE HandleCheckpointFailed(c)
      <3>1. /\ state.phase = "Checkpointing" /\ recoverable' = state
            /\ state'.phase = "Idle" /\ answers' = answers
        BY <2>2 DEF HandleCheckpointFailed, Interrupt, Idle
      <3>2. QED
        BY <3>1 DEF EarnedInv, SavedAllIsEarned, EarnedBy, SavedByAdapter
    <2>3. QED
      BY <1>8, <2>1, <2>2 DEF HandleCheckpoint
  <1>9. ASSUME NEW tx \in Nat, RetrySessionCheckpoint(tx)
        PROVE  EarnedInv'
    <2>1. recoverable \in CheckpointingStates
      BY <1>0, <1>9 DEF RetrySessionCheckpoint, TypeOK
    <2>2. /\ recoverable.phase = "Checkpointing" /\ recoverable # None
          /\ state' = recoverable /\ recoverable' = None /\ answers' = answers
      BY <1>9, <2>1 DEF RetrySessionCheckpoint, CheckpointingStates
    <2>3. QED
      BY <2>2 DEF EarnedInv, SavedAllIsEarned, EarnedBy, SavedByAdapter
  <1>10. CASE UNCHANGED vars
    BY <1>10
    DEF vars, coordinatorVars, adapterVars, EarnedInv, SavedAllIsEarned, EarnedBy,
        PassedAreSaved, SavedByAdapter
  <1>11. QED
    BY <1>1, <1>2, <1>3, <1>4, <1>5, <1>6, <1>7, <1>8, <1>9, <1>10 DEF AnyNext, Choose

\* For any documents and any number of transactions, a close goes on as "saved
\* all" only with a successful save of every dirty document's snapshot revision.
THEOREM SavedAllEarned == Spec => []SavedAllIsEarned
  <1>1. Init => TypeInv /\ LiveInv /\ EarnedInv
    BY LiveInit
    DEF Init, TypeInv, TypeOK, SavingInside, EarnedInv, SavedAllIsEarned, Idle
  <1>2. TypeInv /\ LiveInv /\ EarnedInv /\ [AnyNext]_vars => (TypeInv /\ LiveInv /\ EarnedInv)'
    BY TypeStep, LiveStep, EarnedStep
  <1>3. EarnedInv => SavedAllIsEarned
    BY DEF EarnedInv
  <1>4. QED
    BY <1>1, <1>2, <1>3, NextIsAny, PTL DEF Spec

-----------------------------------------------------------------------------
(* The refinement of CloseContract.  Beyond the invariants above the        *)
(* mapping needs to know where the requests of the newest transaction come  *)
(* from: its saves are answered but for the pending one, its releases are   *)
(* for documents of its snapshot, and its manifest is published at most     *)
(* once.                                                                    *)

Ending == Current # None /\ Current.phase \in {"Checkpointing", "Releasing"}

AnswersToRequests == \A a \in answers : a.token \in issued

PublishedOnce ==
    /\ \A c \in checkpoints : c.tx <= nextTransaction
    /\ \A c, e \in checkpoints : c.tx = e.tx => c = e
    /\ state.phase \in {"AwaitingDecision", "Saving"} \/ publishing # 0 \/ recoverable # None
          => [tx |-> nextTransaction, ok |-> TRUE] \notin checkpoints

Undecided ==
    /\ state.phase = "AwaitingDecision" => DirtyPositions(state.snapshot) # {}
    /\ Ending /\ Current.kind = "NoDirtyDocuments" => DirtyPositions(Current.snapshot) = {}

SavesAnswered ==
    \A t \in issued : Current # None /\ t.tx = nextTransaction /\ t.kind # "Release" =>
       Answered(t) \/ (state.phase = "Saving" /\ t = state.pending)

ReleasesInside ==
    /\ \A t \in issued : Current # None /\ t.tx = nextTransaction /\ t.kind = "Release" =>
          t.doc \in DocumentsOf(Current.snapshot)
    /\ Ending => \A t \in Current.pending :
          t.kind = "Release" /\ t.doc \in DocumentsOf(Current.snapshot)

\* What is not released yet is still to be released.
ReleasesPending ==
    Ending => \A d \in DocumentsOf(Current.snapshot) :
       Reported(Current.tx, d, "Release", "Released") \/ \E t \in Current.pending : t.doc = d

ContractInv ==
    /\ AnswersToRequests
    /\ PublishedOnce
    /\ Undecided
    /\ SavesAnswered
    /\ ReleasesInside
    /\ ReleasesPending

AllInv == TypeInv /\ LiveInv /\ ReleaseInv /\ EarnedInv /\ ContractInv

-----------------------------------------------------------------------------
(* The close under way.                                                    *)

LEMMA NotNone ==
    ASSUME NEW s \in States
    PROVE  s # None
  BY DEF States, None, Idle, AwaitingStates, SavingStates, CheckpointingStates, ReleasingStates

\* While the coordinator is at work the close under way is its own, otherwise
\* it is the recoverable one.  Either is of the newest transaction.
LEMMA CurrentIs ==
    ASSUME TypeInv, LiveInv
    PROVE  /\ state # Idle => /\ Current = state /\ Current # None
                              /\ recoverable = None /\ lastCompletion = None
           /\ state = Idle => Current = recoverable
           /\ state = Idle /\ Current # None => Current \in CheckpointingStates
           /\ Current # None => /\ Current.tx = nextTransaction
                                /\ Current.snapshot \in ValidSnapshots
  <1>1. state \in States /\ recoverable \in {None} \cup CheckpointingStates
    BY DEF TypeInv, TypeOK, States
  <1>2. state # Idle <=> state.phase # "Idle"
    BY <1>1, Variants
  <1>3. state # Idle => Current = state /\ Current # None
    BY <1>1, NotNone DEF Current
  <1>4. state = Idle => Current = recoverable
    BY DEF Current
  <1>5. state # Idle => state.snapshot \in ValidSnapshots
    BY <1>1 DEF States, AwaitingStates, SavingStates, CheckpointingStates, ReleasingStates
  <1>6. recoverable # None => recoverable.snapshot \in ValidSnapshots
    BY <1>1 DEF CheckpointingStates
  <1>7. QED
    BY <1>1, <1>2, <1>3, <1>4, <1>5, <1>6 DEF LiveInv

LEMMA SnapshotDocuments ==
    ASSUME NEW s \in ValidSnapshots
    PROVE  DocumentsOf(s) \subseteq Documents /\ DirtyOf(s) \subseteq DocumentsOf(s)
  <1>1. \A i \in DOMAIN s : s[i] \in Entries
    BY DEF ValidSnapshots
  <1>2. QED
    BY <1>1 DEF DocumentsOf, DirtyOf, DirtyPositions, Entries

\* The documents of the release tokens are those of the snapshot.
LEMMA ReleaseTokensCover ==
    ASSUME NEW tx, NEW seq, NEW s
    PROVE  /\ \A t \in ReleaseTokens(tx, seq, s) : t.kind = "Release" /\ t.doc \in DocumentsOf(s)
           /\ \A d \in DocumentsOf(s) : \E t \in ReleaseTokens(tx, seq, s) : t.doc = d
  <1>1. \A i \in DOMAIN s : /\ Token(tx, seq + i, s[i], "Release").kind = "Release"
                            /\ Token(tx, seq + i, s[i], "Release").doc = s[i].id
    BY DEF Token
  <1>2. \A i \in DOMAIN s : Token(tx, seq + i, s[i], "Release") \in ReleaseTokens(tx, seq, s)
    BY DEF ReleaseTokens
  <1>3. \A d \in DocumentsOf(s) : \E i \in DOMAIN s : d = s[i].id
    BY DEF DocumentsOf
  <1>4. \A i \in DOMAIN s : s[i].id \in DocumentsOf(s)
    BY DEF DocumentsOf
  <1>5. \A t \in ReleaseTokens(tx, seq, s) : \E i \in DOMAIN s :
           t = Token(tx, seq + i, s[i], "Release")
    BY DEF ReleaseTokens
  <1>6. QED
    BY <1>1, <1>2, <1>3, <1>4, <1>5

\* A step that goes on with the same transaction, without news from the
\* adapter, may only change the mode of the abstract close.
LEMMA SameClose ==
    ASSUME Current # None, Current' # None,
           Current'.tx = Current.tx, Current'.snapshot = Current.snapshot,
           UNCHANGED <<answers, checkpoints>>
    PROVE  /\ UNCHANGED <<SavedNow, ReleasedNow, PublishedNow>>
           /\ ClosingNow = [documents |-> DocumentsOf(Current.snapshot),
                            dirty |-> DirtyOf(Current.snapshot), mode |-> Mode(Current)]
           /\ ClosingNow' = [ClosingNow EXCEPT !.mode = Mode(Current')]
  <1>1. UNCHANGED SavedNow
    BY DEF SavedNow, SavedByAdapter
  <1>2. UNCHANGED ReleasedNow
    BY DEF ReleasedNow, Reported
  <1>3. UNCHANGED PublishedNow
    BY DEF PublishedNow
  <1>4. ClosingNow = [documents |-> DocumentsOf(Current.snapshot),
                      dirty |-> DirtyOf(Current.snapshot), mode |-> Mode(Current)]
    BY DEF ClosingNow
  <1>5. ClosingNow' = [documents |-> DocumentsOf(Current.snapshot),
                       dirty |-> DirtyOf(Current.snapshot), mode |-> Mode(Current')]
    BY DEF ClosingNow, DocumentsOf, DirtyOf, DirtyPositions, Mode, Decided
  <1>6. QED
    BY <1>1, <1>2, <1>3, <1>4, <1>5

LEMMA NoCloseIsNothing ==
    ASSUME Current = None
    PROVE  ClosingNow = None /\ SavedNow = {} /\ ReleasedNow = {} /\ PublishedNow = FALSE
  BY DEF ClosingNow, SavedNow, ReleasedNow, PublishedNow

-----------------------------------------------------------------------------
(* A close is asked for.                                                   *)

LEMMA RequestMaps ==
    ASSUME AllInv, TypeInv', NEW snapshot \in ValidSnapshots, RequestClose(snapshot)
    PROVE  ContractInv' /\ Contract!Next
  <1> USE DEF AllInv
  <1>1. /\ state = Idle /\ nextTransaction \in Nat /\ nextTransaction' = nextTransaction + 1
        /\ recoverable' = None /\ lastCompletion' = None /\ snapshot \in ValidSnapshots
        /\ UNCHANGED <<issued, answers, checkpoints>>
    BY DEF RequestClose, StartCheckpoint, adapterVars, TypeInv, TypeOK
  <1>2. \/ /\ DirtyPositions(snapshot) = {} /\ state'.phase = "Checkpointing"
           /\ state'.pending = ReleaseTokens(nextTransaction', nextRequest, snapshot)
           /\ state'.kind = "NoDirtyDocuments"
        \/ DirtyPositions(snapshot) # {} /\ state'.phase = "AwaitingDecision"
    BY <1>1 DEF RequestClose, StartCheckpoint
  <1>3. state'.tx = nextTransaction' /\ state'.snapshot = snapshot /\ state' # Idle
    BY <1>1, <1>2 DEF RequestClose, StartCheckpoint, Idle
  <1>4. state' # None /\ Current' = state'
    BY <1>3, NotNone DEF Current, TypeInv, TypeOK, States
  <1>5. /\ \A t \in issued : t.tx # nextTransaction'
        /\ \A a \in answers : a.token.tx # nextTransaction'
        /\ \A c \in checkpoints : c.tx # nextTransaction'
    <2>1. issued \subseteq Tokens /\ checkpoints \subseteq [tx : Nat, ok : BOOLEAN]
      BY DEF TypeInv, TypeOK
    <2>2. \A t \in issued : t.tx \in Nat /\ t.tx <= nextTransaction
      BY <2>1 DEF LiveInv, Tokens
    <2>3. \A c \in checkpoints : c.tx \in Nat /\ c.tx <= nextTransaction
      BY <2>1 DEF ContractInv, PublishedOnce
    <2>4. QED
      BY <1>1, <2>2, <2>3 DEF ContractInv, AnswersToRequests
  <1>6. SavedNow' = {} /\ ReleasedNow' = {} /\ PublishedNow' = FALSE
    BY <1>1, <1>3, <1>4, <1>5 DEF SavedNow, SavedByAdapter, ReleasedNow, Reported, PublishedNow
  <1>7. ClosingNow' = [documents |-> DocumentsOf(snapshot), dirty |-> DirtyOf(snapshot),
                       mode |-> "undecided"]
    <2>1. Mode(state') = "undecided"
      BY <1>2 DEF Mode, Decided
    <2>2. Mode(Current)' = "undecided"
      BY <1>4, <2>1 DEF Mode, Decided
    <2>3. QED
      BY <1>3, <1>4, <2>2 DEF ClosingNow, DocumentsOf, DirtyOf, DirtyPositions
  <1>8. ContractInv'
    <2>1. AnswersToRequests'
      BY <1>1 DEF ContractInv, AnswersToRequests
    <2>2. PublishedOnce'
      BY <1>1, <1>5 DEF ContractInv, PublishedOnce, TypeInv, TypeOK
    <2>3. Undecided'
      BY <1>2, <1>3, <1>4 DEF Undecided, Ending, DirtyPositions
    <2>4. SavesAnswered'
      BY <1>1, <1>5 DEF SavesAnswered
    <2>5. DocumentsOf(Current.snapshot)' = DocumentsOf(snapshot)
      BY <1>3, <1>4 DEF DocumentsOf
    <2>6. Ending' => /\ \A t \in Current'.pending :
                           t.kind = "Release" /\ t.doc \in DocumentsOf(snapshot)
                     /\ \A d \in DocumentsOf(snapshot) : \E t \in Current'.pending : t.doc = d
      BY <1>2, <1>4, ReleaseTokensCover DEF Ending
    <2>7. ReleasesInside'
      BY <1>1, <1>5, <2>5, <2>6 DEF ReleasesInside
    <2>8. ReleasesPending'
      BY <2>5, <2>6 DEF ReleasesPending
    <2>9. QED
      BY <2>1, <2>2, <2>3, <2>4, <2>7, <2>8 DEF ContractInv
  <1>9. Contract!Request(DocumentsOf(snapshot), DirtyOf(snapshot))
    BY <1>1, <1>3, <1>6, <1>7 DEF Contract!Request, Contract!Nothing, None
  <1>10. DocumentsOf(snapshot) \in SUBSET Documents
         /\ DirtyOf(snapshot) \in SUBSET DocumentsOf(snapshot)
    BY <1>1, SnapshotDocuments
  <1>11. QED
    BY <1>8, <1>9, <1>10 DEF Contract!Next

-----------------------------------------------------------------------------
(* The transaction goes on, without news from the adapter.                 *)

GoesOn ==
    /\ state # Idle /\ state' # Idle
    /\ state'.tx = state.tx /\ state'.snapshot = state.snapshot
    /\ issued \subseteq issued'
    /\ UNCHANGED <<nextTransaction, recoverable, lastCompletion, answers, checkpoints>>

\* Then only the mode of the abstract close may change.
LEMMA GoesOnMaps ==
    ASSUME AllInv, TypeInv', GoesOn
    PROVE  /\ Current = state /\ Current' = state' /\ Current # None /\ Current' # None
           /\ AnswersToRequests'
           /\ UNCHANGED <<SavedNow, ReleasedNow, PublishedNow, DocumentsOf(Current.snapshot)>>
           /\ ClosingNow = [documents |-> DocumentsOf(state.snapshot),
                            dirty |-> DirtyOf(state.snapshot), mode |-> Mode(state)]
           /\ ClosingNow' = [ClosingNow EXCEPT !.mode = Mode(state')]
           /\ Mode(state) = Mode(state') => UNCHANGED Contract!vars
  <1> USE DEF AllInv
  <1>1. Current = state /\ Current # None
    BY CurrentIs DEF GoesOn
  <1>2. Current' = state' /\ Current' # None
    BY NotNone DEF GoesOn, Current, TypeInv, TypeOK, States
  <1>3. AnswersToRequests'
    BY DEF GoesOn, ContractInv, AnswersToRequests
  <1>4. UNCHANGED DocumentsOf(Current.snapshot)
    BY <1>1, <1>2 DEF GoesOn, DocumentsOf
  <1>5. /\ UNCHANGED <<SavedNow, ReleasedNow, PublishedNow>>
        /\ ClosingNow = [documents |-> DocumentsOf(Current.snapshot),
                         dirty |-> DirtyOf(Current.snapshot), mode |-> Mode(Current)]
        /\ ClosingNow' = [ClosingNow EXCEPT !.mode = Mode(Current')]
    BY <1>1, <1>2, SameClose DEF GoesOn
  <1>6. ASSUME Mode(state) = Mode(state')
        PROVE  ClosingNow' = ClosingNow
    BY <1>1, <1>2, <1>5, <1>6
  <1>7. Mode(state) = Mode(state') => UNCHANGED Contract!vars
    BY <1>5, <1>6 DEF Contract!vars, GoesOn
  <1>8. QED
    BY <1>1, <1>2, <1>3, <1>4, <1>5, <1>7

\* The checkpoint starts: every document of the snapshot is to be released.
LEMMA CheckpointKeeps ==
    ASSUME AllInv, TypeInv', state.phase \in {"AwaitingDecision", "Saving"},
           NEW kind, NEW settled, StartCheckpoint(state.tx, state.snapshot, kind, settled),
           kind # "NoDirtyDocuments",
           state.phase = "Saving" => Answered(state.pending),
           UNCHANGED <<nextTransaction, lastCompletion, recoverable>>
    PROVE  GoesOn /\ ContractInv' /\ Decided(state', kind)
  <1> USE DEF AllInv
  <1>1. /\ state'.phase = "Checkpointing" /\ state'.tx = state.tx
        /\ state'.snapshot = state.snapshot /\ state'.kind = kind
        /\ state'.pending = ReleaseTokens(state.tx, nextRequest, state.snapshot)
        /\ UNCHANGED <<issued, answers, checkpoints>>
    BY DEF StartCheckpoint
  <1>2. GoesOn
    BY <1>1 DEF GoesOn, Idle
  <1>3. /\ Current = state /\ Current' = state' /\ Current # None /\ AnswersToRequests'
        /\ UNCHANGED DocumentsOf(Current.snapshot)
    BY <1>2, GoesOnMaps
  <1>4. PublishedOnce'
    BY <1>1 DEF ContractInv, PublishedOnce
  <1>5. Undecided'
    BY <1>1, <1>3 DEF Undecided, Ending
  <1>6. SavesAnswered'
    BY <1>1, <1>3 DEF ContractInv, SavesAnswered, Answered
  <1>7. /\ \A t \in Current'.pending :
              t.kind = "Release" /\ t.doc \in DocumentsOf(Current.snapshot)
        /\ \A d \in DocumentsOf(Current.snapshot) : \E t \in Current'.pending : t.doc = d
    BY <1>1, <1>3, ReleaseTokensCover
  <1>8. ReleasesInside'
    BY <1>1, <1>3, <1>7 DEF ContractInv, ReleasesInside
  <1>9. ReleasesPending'
    BY <1>3, <1>7 DEF ReleasesPending
  <1>10. QED
    BY <1>1, <1>2, <1>3, <1>4, <1>5, <1>6, <1>8, <1>9 DEF ContractInv, Decided

\* A save is requested, and the one before it is answered.
LEMMA SaveKeeps ==
    ASSUME AllInv, TypeInv', GoesOn, NEW token,
           state.phase \in {"AwaitingDecision", "Saving"}, state'.phase = "Saving",
           state'.pending = token, token.kind # "Release",
           issued' = issued \cup {token},
           state.phase = "Saving" => Answered(state.pending), UNCHANGED publishing
    PROVE  ContractInv'
  <1> USE DEF AllInv
  <1>1. /\ Current = state /\ Current' = state' /\ Current # None /\ AnswersToRequests'
        /\ UNCHANGED DocumentsOf(Current.snapshot)
    BY GoesOnMaps
  <1>2. PublishedOnce'
    BY DEF ContractInv, PublishedOnce, GoesOn
  <1>3. Undecided' /\ ReleasesPending'
    BY <1>1 DEF Undecided, ReleasesPending, Ending
  <1>4. SavesAnswered'
    BY <1>1 DEF ContractInv, SavesAnswered, Answered, GoesOn
  <1>5. ReleasesInside'
    BY <1>1 DEF ContractInv, ReleasesInside, Ending, GoesOn
  <1>6. QED
    BY <1>1, <1>2, <1>3, <1>4, <1>5 DEF ContractInv

-----------------------------------------------------------------------------
(* The transaction ends.                                                   *)

LEMMA EndsKeeps ==
    ASSUME AllInv, state # Idle, state' = Idle, publishing' = 0,
           UNCHANGED <<nextTransaction, recoverable, issued, answers, checkpoints>>
    PROVE  /\ ContractInv'
           /\ ClosingNow' = None /\ SavedNow' = {} /\ ReleasedNow' = {} /\ PublishedNow' = FALSE
  <1> USE DEF AllInv
  <1>1. Current' = None /\ recoverable' = None /\ state'.phase = "Idle"
    BY CurrentIs DEF Current, Idle
  <1>2. ContractInv'
    BY <1>1 DEF ContractInv, AnswersToRequests, PublishedOnce, Undecided, SavesAnswered,
                ReleasesInside, ReleasesPending, Ending
  <1>3. QED
    BY <1>1, <1>2 DEF ClosingNow, SavedNow, ReleasedNow, PublishedNow

\* A close that is interrupted is given up.
LEMMA GivenUp ==
    ASSUME AllInv, state # Idle, publishing' = 0, NEW reason, Interrupt(reason),
           UNCHANGED recoverable
    PROVE  ContractInv' /\ Contract!Next
  <1>1. /\ ContractInv'
        /\ ClosingNow' = None /\ SavedNow' = {} /\ ReleasedNow' = {} /\ PublishedNow' = FALSE
    BY EndsKeeps DEF Interrupt
  <1>2. Contract!GiveUp
    BY <1>1 DEF Interrupt, Contract!GiveUp, Contract!Nothing
  <1>3. QED
    BY <1>1, <1>2 DEF Contract!Next

\* A close that completes is confirmed: its manifest is published and every
\* document of its snapshot is released.
LEMMA Confirmed ==
    ASSUME AllInv, state.phase \in {"Checkpointing", "Releasing"}, publishing' = 0,
           NEW documents, Complete(documents),
           [tx |-> nextTransaction, ok |-> TRUE] \in checkpoints,
           \A t \in state.pending : Reported(state.tx, t.doc, "Release", "Released"),
           UNCHANGED <<nextTransaction, recoverable, issued, answers, checkpoints>>
    PROVE  ContractInv' /\ Contract!Next
  <1> USE DEF AllInv
  <1>1. state # Idle /\ state' = Idle /\ lastCompletion'.tx = state.tx
    BY DEF Complete, Idle
  <1>2. /\ ContractInv'
        /\ ClosingNow' = None /\ SavedNow' = {} /\ ReleasedNow' = {} /\ PublishedNow' = FALSE
    BY <1>1, EndsKeeps
  <1>3. /\ Current = state /\ Current # None /\ Current.tx = nextTransaction
        /\ Current.snapshot \in ValidSnapshots /\ Ending
    BY <1>1, CurrentIs DEF Ending
  <1>4. PublishedNow
    BY <1>3 DEF PublishedNow
  <1>5. ReleasedNow = DocumentsOf(Current.snapshot)
    <2>1. ReleasedNow = {d \in Documents : Reported(Current.tx, d, "Release", "Released")}
      BY <1>3 DEF ReleasedNow
    <2>2. \A d \in DocumentsOf(Current.snapshot) :
             Reported(Current.tx, d, "Release", "Released")
      BY <1>3 DEF ContractInv, ReleasesPending
    <2>3. ASSUME NEW d, Reported(Current.tx, d, "Release", "Released")
          PROVE  d \in DocumentsOf(Current.snapshot)
      BY <1>3, <2>3 DEF Reported, ContractInv, AnswersToRequests, ReleasesInside
    <2>4. QED
      BY <1>3, <2>1, <2>2, <2>3, SnapshotDocuments
  <1>6. ClosingNow.documents = DocumentsOf(Current.snapshot)
    BY <1>3 DEF ClosingNow
  <1>7. Contract!Confirm
    BY <1>1, <1>2, <1>3, <1>4, <1>5, <1>6 DEF Contract!Confirm, Contract!Nothing
  <1>8. QED
    BY <1>2, <1>7 DEF Contract!Next

-----------------------------------------------------------------------------
(* The decision.                                                           *)

LEMMA ChooseMaps ==
    ASSUME AllInv, TypeInv', Choose
    PROVE  ContractInv' /\ Contract!Next
  <1> USE DEF AllInv
  <1>1. state.phase = "AwaitingDecision" /\ state # Idle
    BY DEF Choose, ChooseCancel, ChooseDiscardAll, ChooseSaveAll, Idle
  <1>2. publishing = 0
    BY <1>1 DEF LiveInv
  <1>3. ASSUME GoesOn, NEW mode \in {"save", "discard"}, Mode(state') = mode
        PROVE  Contract!Next
    <2>1. /\ UNCHANGED <<SavedNow, ReleasedNow, PublishedNow>>
          /\ ClosingNow = [documents |-> DocumentsOf(state.snapshot),
                           dirty |-> DirtyOf(state.snapshot), mode |-> Mode(state)]
          /\ ClosingNow' = [ClosingNow EXCEPT !.mode = Mode(state')]
      BY <1>3, GoesOnMaps
    <2>2. Mode(state) = "undecided"
      BY <1>1 DEF Mode, Decided
    <2>3. DirtyOf(state.snapshot) # {}
      BY <1>1 DEF ContractInv, Undecided, DirtyOf
    <2>4. Contract!Decide(mode)
      BY <1>1, <1>3, <2>1, <2>2, <2>3 DEF Contract!Decide, GoesOn
    <2>5. QED
      BY <1>3, <2>4 DEF Contract!Next
  <1>4. CASE ChooseCancel
    BY <1>1, <1>2, <1>4, GivenUp DEF ChooseCancel
  <1>5. CASE ChooseDiscardAll
    <2>1. GoesOn /\ ContractInv' /\ Decided(state', "DiscardedAll")
      BY <1>1, <1>5, CheckpointKeeps DEF ChooseDiscardAll
    <2>2. Mode(state') = "discard"
      BY <2>1 DEF Mode, Decided
    <2>3. QED
      BY <1>3, <2>1, <2>2
  <1>6. CASE ChooseSaveAll
    <2>1. PICK i \in DOMAIN state.snapshot : RequestSave(state.tx, state.snapshot, i, {})
      BY <1>6 DEF ChooseSaveAll
    <2> DEFINE token == Token(state.tx, nextRequest + 1, state.snapshot[i],
                              IF state.snapshot[i].saveAs THEN "SaveAs" ELSE "Save")
    <2>2. /\ state'.phase = "Saving" /\ state'.tx = state.tx /\ state'.pending = token
          /\ state'.snapshot = state.snapshot /\ issued' = issued \cup {token}
          /\ UNCHANGED <<answers, publishing, checkpoints>>
      BY <2>1 DEF RequestSave
    <2>3. token.kind # "Release"
      BY DEF Token
    <2> HIDE DEF token
    <2>4. GoesOn
      BY <1>1, <1>6, <2>2 DEF GoesOn, ChooseSaveAll, Idle
    <2>5. ContractInv'
      BY <1>1, <2>2, <2>3, <2>4, SaveKeeps
    <2>6. Mode(state') = "save"
      BY <2>2 DEF Mode
    <2>7. QED
      BY <1>3, <2>4, <2>5, <2>6
  <1>7. QED
    BY <1>4, <1>5, <1>6 DEF Choose

-----------------------------------------------------------------------------
(* The adapter answers.  Of answers to older transactions the abstract     *)
(* close knows nothing.                                                    *)

LEMMA SavedAfter ==
    ASSUME NEW tx, NEW entry, NEW token, NEW outcome,
           answers' = answers \cup {[token |-> token, outcome |-> outcome]}
    PROVE  SavedByAdapter(tx, entry)' <=>
              \/ SavedByAdapter(tx, entry)
              \/ /\ token.tx = tx /\ token.doc = entry.id /\ token.rev = entry.dirty
                 /\ token.kind = "Save" /\ outcome = "Saved"
  <1> DEFINE answer == [token |-> token, outcome |-> outcome]
  <1>1. answer.token = token /\ answer.outcome = outcome /\ answers' = answers \cup {answer}
    OBVIOUS
  <1> HIDE DEF answer
  <1>2. QED
    BY <1>1 DEF SavedByAdapter

LEMMA ReportedAfter ==
    ASSUME NEW tx, NEW doc, NEW kind, NEW result, NEW token, NEW outcome,
           answers' = answers \cup {[token |-> token, outcome |-> outcome]}
    PROVE  Reported(tx, doc, kind, result)' <=>
              \/ Reported(tx, doc, kind, result)
              \/ token.tx = tx /\ token.doc = doc /\ token.kind = kind /\ outcome = result
  <1> DEFINE answer == [token |-> token, outcome |-> outcome]
  <1>1. answer.token = token /\ answer.outcome = outcome /\ answers' = answers \cup {answer}
    OBVIOUS
  <1> HIDE DEF answer
  <1>2. QED
    BY <1>1 DEF Reported

LEMMA AnswerMaps ==
    ASSUME AllInv, NEW token \in Waiting, NEW outcome, Answer(token, outcome)
    PROVE  ContractInv' /\ [Contract!Next]_Contract!vars
  <1> USE DEF AllInv
  <1> DEFINE Saves == token.kind = "Save" /\ outcome = "Saved"
             Releases == token.kind = "Release" /\ outcome = "Released"
             News == Current # None /\ token.tx = nextTransaction
  <1>1. /\ token \in issued /\ ~ Answered(token)
        /\ answers' = answers \cup {[token |-> token, outcome |-> outcome]}
        /\ UNCHANGED <<state, recoverable, nextTransaction, lastCompletion, issued,
                       publishing, checkpoints>>
    BY DEF Waiting, Answer, coordinatorVars
  <1>2. Current' = Current
    BY <1>1 DEF Current
  <1>3. /\ UNCHANGED <<ClosingNow, PublishedNow>>
        /\ (state # Idle)' = (state # Idle)
    BY <1>1, <1>2 DEF ClosingNow, PublishedNow, DocumentsOf, DirtyOf, DirtyPositions, Mode, Decided
  <1>4. ASSUME NEW tx, NEW doc, Reported(tx, doc, "Release", "Released")
        PROVE  Reported(tx, doc, "Release", "Released")'
    BY <1>1, <1>4 DEF Reported
  <1>5. ContractInv'
    <2>1. AnswersToRequests'
      BY <1>1 DEF ContractInv, AnswersToRequests
    <2>2. PublishedOnce' /\ Undecided'
      BY <1>1, <1>2 DEF ContractInv, PublishedOnce, Undecided, Ending, DirtyPositions
    <2>3. SavesAnswered'
      BY <1>1, <1>2 DEF ContractInv, SavesAnswered, Answered
    <2>4. ReleasesInside'
      BY <1>1, <1>2 DEF ContractInv, ReleasesInside, Ending, DocumentsOf
    <2>5. ReleasesPending'
      BY <1>2, <1>4 DEF ContractInv, ReleasesPending, Ending, DocumentsOf
    <2>6. QED
      BY <2>1, <2>2, <2>3, <2>4, <2>5 DEF ContractInv
  <1>6. Current # None => Current.tx = nextTransaction /\ Current.snapshot \in ValidSnapshots
    BY CurrentIs
  <1>7. ASSUME ~ (News /\ Saves)
        PROVE  SavedNow' = SavedNow
    <2>1. ASSUME Current # None, NEW i \in DirtyPositions(Current.snapshot)
          PROVE  SavedByAdapter(Current.tx, Current.snapshot[i])'
                    = SavedByAdapter(Current.tx, Current.snapshot[i])
      BY <1>1, <1>2, <1>6, <1>7, <2>1 DEF SavedByAdapter
    <2>2. QED
      BY <1>2, <2>1 DEF SavedNow
  <1>8. ASSUME ~ (News /\ Releases)
        PROVE  ReleasedNow' = ReleasedNow
    <2>1. ASSUME Current # None, NEW d
          PROVE  Reported(Current.tx, d, "Release", "Released")'
                    = Reported(Current.tx, d, "Release", "Released")
      BY <1>1, <1>2, <1>6, <1>8, <2>1 DEF Reported
    <2>2. QED
      BY <1>2, <2>1 DEF ReleasedNow
  <1>9. CASE News /\ Saves
    <2>1. state.phase = "Saving" /\ token = state.pending
      BY <1>1, <1>9 DEF ContractInv, SavesAnswered
    <2>2. state # Idle /\ Current = state
      BY <2>1, CurrentIs DEF Idle
    <2>3. /\ state.at \in DirtyPositions(Current.snapshot)
          /\ token.doc = Current.snapshot[state.at].id
          /\ token.rev = Current.snapshot[state.at].dirty
      BY <2>1, <2>2 DEF TypeInv, SavingInside, EarnedInv
    <2>4. ClosingNow.mode = "save" /\ token.doc \in ClosingNow.dirty /\ token.doc \in Documents
      <3>1. ClosingNow.mode = "save" /\ ClosingNow.dirty = DirtyOf(Current.snapshot)
        BY <1>9, <2>1, <2>2 DEF ClosingNow, Mode
      <3>2. token.doc \in DirtyOf(Current.snapshot)
        BY <2>3 DEF DirtyOf
      <3>3. QED
        BY <1>6, <1>9, <3>1, <3>2, SnapshotDocuments
    <2>5. SavedNow' = SavedNow \cup {token.doc}
      <3> DEFINE S(i) == SavedByAdapter(Current.tx, Current.snapshot[i])
                 T(i) == /\ token.doc = Current.snapshot[i].id
                         /\ token.rev = Current.snapshot[i].dirty
      <3>1. ASSUME NEW i \in DirtyPositions(Current.snapshot)
            PROVE  SavedByAdapter(Current.tx, Current.snapshot[i])' <=> S(i) \/ T(i)
        <4>1. ASSUME NEW tx, NEW entry, token.tx = tx
              PROVE  SavedByAdapter(tx, entry)' <=>
                        \/ SavedByAdapter(tx, entry)
                        \/ token.doc = entry.id /\ token.rev = entry.dirty
          BY <1>1, <1>9, <4>1, SavedAfter
        <4>2. QED
          BY <1>1, <1>2, <1>6, <1>9, <4>1 DEF SavedByAdapter
      <3>2. SavedNow = {Current.snapshot[i].id :
                           i \in {j \in DirtyPositions(Current.snapshot) : S(j)}}
        BY <1>9 DEF SavedNow
      <3>3. SavedNow' = {Current.snapshot[i].id :
                            i \in {j \in DirtyPositions(Current.snapshot) : S(j) \/ T(j)}}
        BY <1>2, <1>9, <3>1 DEF SavedNow, DirtyPositions
      <3>4. T(state.at) /\ \A i \in DirtyPositions(Current.snapshot) :
                              T(i) => Current.snapshot[i].id = token.doc
        BY <2>3
      <3> HIDE DEF S, T
      <3>5. QED
        BY <2>3, <3>2, <3>3, <3>4
    <2>6. Contract!Save(token.doc)
      BY <1>1, <1>3, <1>8, <1>9, <2>2, <2>4, <2>5 DEF Contract!Save
    <2>7. QED
      BY <1>5, <2>4, <2>6 DEF Contract!Next
  <1>10. CASE News /\ Releases
    <2>1. recoverable = None
      BY <1>1, <1>10 DEF ReleaseInv, NoReleaseOf
    <2>2. state # Idle /\ Current = state
      BY <1>10, <2>1, CurrentIs
    <2>3. state.phase = "Releasing"
      <3>1. state.phase \in {"AwaitingDecision", "Saving", "Checkpointing", "Releasing"}
        BY <2>2, Variants DEF TypeInv, TypeOK, States
      <3>2. QED
        BY <1>1, <1>10, <3>1 DEF ReleaseInv, NoReleaseOf
    <2>4. PublishedNow
      BY <1>6, <1>10, <2>3 DEF ReleaseInv, PublishedNow
    <2>5. token.doc \in DocumentsOf(Current.snapshot)
      BY <1>1, <1>10 DEF ContractInv, ReleasesInside
    <2>6. token.doc \in ClosingNow.documents /\ token.doc \in Documents
      BY <1>6, <1>10, <2>5, SnapshotDocuments DEF ClosingNow
    <2>7. ReleasedNow' = ReleasedNow \cup {token.doc}
      <3>1. ASSUME NEW d
            PROVE  Reported(Current.tx, d, "Release", "Released")'
                      <=> Reported(Current.tx, d, "Release", "Released") \/ d = token.doc
        <4>1. Reported(nextTransaction, d, "Release", "Released")'
                 <=> Reported(nextTransaction, d, "Release", "Released") \/ d = token.doc
          BY <1>1, <1>10, ReportedAfter
        <4>2. QED
          BY <1>1, <1>2, <1>6, <1>10, <4>1 DEF Reported
      <3>2. QED
        BY <1>2, <1>10, <2>6, <3>1 DEF ReleasedNow
    <2>8. Contract!Release(token.doc)
      BY <1>1, <1>3, <1>7, <1>10, <2>2, <2>4, <2>6, <2>7 DEF Contract!Release
    <2>9. QED
      BY <1>5, <2>6, <2>8 DEF Contract!Next
  <1>11. CASE ~ (News /\ Saves) /\ ~ (News /\ Releases)
    BY <1>1, <1>3, <1>5, <1>7, <1>8, <1>11 DEF Contract!vars
  <1>12. QED
    BY <1>9, <1>10, <1>11

-----------------------------------------------------------------------------
(* Results of saves and releases.  The abstract close learned of them when *)
(* the adapter answered; now it goes on unseen, is given up, or confirmed. *)

LEMMA ResultMaps ==
    ASSUME AllInv, TypeInv', NEW a \in answers, HandleResult(a)
    PROVE  ContractInv' /\ [Contract!Next]_Contract!vars
  <1> USE DEF AllInv
  <1>0. state \in States /\ a.token \in Tokens /\ Answered(a.token)
    BY DEF TypeInv, TypeOK, States, Answered
  <1>a. /\ state.phase = "Saving" => state \in SavingStates
        /\ state.phase = "Releasing" => state \in ReleasingStates
    BY <1>0, Variants
  <1>1. state.phase \in {"Saving", "Releasing"} /\ state # Idle /\ publishing = 0
    BY DEF HandleResult, HandleSaveAsSelected, HandleSaved, HandleSaveInterrupted, HandleReleased,
           HandleReleaseFailed, Expected, LiveInv, Idle
  <1>2. CASE HandleSaveAsSelected(a)
    <2> DEFINE token == Token(state.tx, nextRequest + 1, state.snapshot[state.at], "Save")
    <2>1. token.kind # "Release"
      BY DEF Token
    <2>2. /\ state' = [state EXCEPT !.pending = token] /\ issued' = issued \cup {token}
          /\ a.token = state.pending /\ state.phase = "Saving"
          /\ UNCHANGED <<nextTransaction, recoverable, lastCompletion, answers, publishing,
                         checkpoints>>
      BY <1>2 DEF HandleSaveAsSelected, Expected
    <2> HIDE DEF token
    <2>3. /\ state'.phase = "Saving" /\ state'.tx = state.tx /\ state'.snapshot = state.snapshot
          /\ state'.pending = token
      BY <1>a, <2>2 DEF SavingStates
    <2>4. GoesOn
      BY <1>1, <2>2, <2>3 DEF GoesOn, Idle
    <2>5. ContractInv'
      BY <1>0, <2>1, <2>2, <2>3, <2>4, SaveKeeps
    <2>6. Mode(state) = Mode(state')
      BY <2>2, <2>3 DEF Mode
    <2>7. QED
      BY <2>4, <2>5, <2>6, GoesOnMaps
  <1>3. CASE HandleSaved(a)
    <2> DEFINE settled == state.saved \cup {a.token.doc}
    <2>1. /\ state.phase = "Saving" /\ Answered(state.pending)
          /\ UNCHANGED <<nextTransaction, lastCompletion, recoverable>>
      BY <1>0, <1>3 DEF HandleSaved, Expected
    <2>2. Mode(state) = "save"
      BY <2>1 DEF Mode
    <2>3. ASSUME NEW i \in DOMAIN state.snapshot, RequestSave(state.tx, state.snapshot, i, settled)
          PROVE  GoesOn /\ ContractInv' /\ Mode(state') = "save"
      <3> DEFINE token == Token(state.tx, nextRequest + 1, state.snapshot[i],
                                IF state.snapshot[i].saveAs THEN "SaveAs" ELSE "Save")
      <3>1. /\ state'.phase = "Saving" /\ state'.tx = state.tx /\ state'.pending = token
            /\ state'.snapshot = state.snapshot /\ issued' = issued \cup {token}
            /\ UNCHANGED <<answers, publishing, checkpoints>>
        BY <2>3 DEF RequestSave
      <3>2. token.kind # "Release"
        BY DEF Token
      <3> HIDE DEF token
      <3>3. GoesOn
        BY <1>1, <2>1, <3>1 DEF GoesOn, Idle
      <3>4. ContractInv'
        BY <2>1, <3>1, <3>2, <3>3, SaveKeeps
      <3>5. QED
        BY <3>1, <3>3, <3>4 DEF Mode
    <2>4. ASSUME StartCheckpoint(state.tx, state.snapshot, "SavedAll", settled)
          PROVE  GoesOn /\ ContractInv' /\ Mode(state') = "save"
      BY <2>1, <2>4, CheckpointKeeps DEF Mode
    <2>5. GoesOn /\ ContractInv' /\ Mode(state') = "save"
      BY <1>3, <2>3, <2>4 DEF HandleSaved
    <2>6. QED
      BY <2>2, <2>5, GoesOnMaps
  <1>4. CASE HandleSaveInterrupted(a) \/ HandleReleaseFailed(a)
    BY <1>1, <1>4, GivenUp DEF HandleSaveInterrupted, HandleReleaseFailed
  <1>5. CASE HandleReleased(a)
    <2> DEFINE pending == state.pending \ {a.token}
               released == state.released \cup {a.token.doc}
    <2>1. /\ state.phase = "Releasing" /\ a.token \in state.pending /\ a.outcome = "Released"
          /\ UNCHANGED <<nextTransaction, recoverable, answers, publishing, checkpoints>>
      BY <1>5 DEF HandleReleased
    <2>2. Current = state /\ Ending /\ state.tx = nextTransaction
      BY <1>1, <2>1, CurrentIs DEF Ending
    <2>3. Reported(state.tx, a.token.doc, "Release", "Released")
      BY <2>1, <2>2 DEF Reported, LiveInv, ContractInv, ReleasesInside
    <2>4. CASE \E first \in pending :
                  /\ state' = [state EXCEPT !.pending = pending, !.released = released]
                  /\ issued' = issued \cup {first}
                  /\ UNCHANGED lastCompletion
      <3> PICK first \in pending :
              /\ state' = [state EXCEPT !.pending = pending, !.released = released]
              /\ issued' = issued \cup {first}
              /\ UNCHANGED lastCompletion
        BY <2>4
      <3>1. /\ state'.phase = "Releasing" /\ state'.tx = state.tx /\ state'.kind = state.kind
            /\ state'.snapshot = state.snapshot /\ state'.pending = pending
        BY <1>a, <2>1 DEF ReleasingStates
      <3>2. GoesOn
        BY <1>1, <2>1, <3>1 DEF GoesOn, Idle
      <3>3. /\ Current' = state' /\ AnswersToRequests' /\ Current' # None
            /\ UNCHANGED DocumentsOf(Current.snapshot)
        BY <3>2, GoesOnMaps
      <3>4. first \in state.pending /\ first.kind = "Release"
            /\ first.doc \in DocumentsOf(Current.snapshot)
        BY <2>2 DEF ContractInv, ReleasesInside
      <3>5. PublishedOnce'
        BY <1>1, <2>1, <3>1 DEF ContractInv, PublishedOnce
      <3>6. Undecided'
        BY <2>2, <3>1, <3>3 DEF ContractInv, Undecided, Ending, DirtyPositions
      <3>7. SavesAnswered'
        BY <2>1, <2>2, <3>3, <3>4 DEF ContractInv, SavesAnswered, Answered, Ending
      <3>8. ReleasesInside'
        BY <2>1, <2>2, <3>1, <3>3, <3>4 DEF ContractInv, ReleasesInside, Ending
      <3>9. ReleasesPending'
        <4>1. ASSUME NEW d \in DocumentsOf(Current.snapshot)
              PROVE  Reported(state.tx, d, "Release", "Released") \/ \E t \in pending : t.doc = d
          BY <2>2, <2>3 DEF ContractInv, ReleasesPending
        <4>2. QED
          BY <2>1, <2>2, <3>1, <3>3, <4>1 DEF ReleasesPending, Reported
      <3>10. ContractInv'
        BY <3>3, <3>5, <3>6, <3>7, <3>8, <3>9 DEF ContractInv
      <3>11. Mode(state) = Mode(state')
        BY <2>1, <3>1 DEF Mode, Decided
      <3>12. QED
        BY <3>2, <3>10, <3>11, GoesOnMaps
    <2>5. CASE /\ pending = {}
               /\ Complete(IF state.kind = "SavedAll" THEN state.saved ELSE released)
               /\ UNCHANGED issued
      <3>1. [tx |-> nextTransaction, ok |-> TRUE] \in checkpoints
        BY <2>1 DEF ReleaseInv
      <3>2. \A t \in state.pending : Reported(state.tx, t.doc, "Release", "Released")
        BY <2>3, <2>5
      <3>3. QED
        BY <1>1, <2>1, <2>5, <3>1, <3>2, Confirmed
    <2>6. QED
      BY <1>5, <2>4, <2>5 DEF HandleReleased
  <1>6. QED
    BY <1>2, <1>3, <1>4, <1>5 DEF HandleResult

-----------------------------------------------------------------------------
(* The manifest.                                                           *)

LEMMA PublicationMaps ==
    ASSUME AllInv, NEW ok \in BOOLEAN, PublishCheckpoint(ok)
    PROVE  ContractInv' /\ [Contract!Next]_Contract!vars
  <1> USE DEF AllInv
  <1>1. /\ state.phase = "Checkpointing" /\ publishing = nextTransaction
        /\ publishing # 0 /\ publishing' = 0
        /\ checkpoints' = {c \in checkpoints : c.tx # nextTransaction}
                              \cup {[tx |-> nextTransaction, ok |-> ok]}
        /\ UNCHANGED <<state, recoverable, nextTransaction, lastCompletion, issued, answers>>
    BY DEF PublishCheckpoint, coordinatorVars, LiveInv
  <1>2. /\ state # Idle /\ Current = state /\ Current # None /\ recoverable = None
        /\ Current.tx = nextTransaction /\ Current' = Current
    BY <1>1, CurrentIs DEF Idle, Current
  <1>3. ContractInv'
    <2>1. PublishedOnce'
      <3>1. \A c \in checkpoints' : c.tx <= nextTransaction
        BY <1>1 DEF ContractInv, PublishedOnce, TypeInv, TypeOK
      <3>2. \A c, e \in checkpoints' : c.tx = e.tx => c = e
        BY <1>1 DEF ContractInv, PublishedOnce
      <3>3. QED
        BY <1>1, <1>2, <3>1, <3>2 DEF PublishedOnce
    <2>2. AnswersToRequests' /\ Undecided'
      BY <1>1, <1>2 DEF ContractInv, AnswersToRequests, Undecided, Ending, DirtyPositions
    <2>3. SavesAnswered'
      BY <1>1, <1>2 DEF ContractInv, SavesAnswered, Answered
    <2>4. ReleasesInside'
      BY <1>1, <1>2 DEF ContractInv, ReleasesInside, Ending, DocumentsOf
    <2>5. ReleasesPending'
      <3>1. \A d : Reported(Current.tx, d, "Release", "Released")'
                     <=> Reported(Current.tx, d, "Release", "Released")
        BY <1>1, <1>2 DEF Reported
      <3>2. DocumentsOf(Current.snapshot)' = DocumentsOf(Current.snapshot)
        BY <1>2 DEF DocumentsOf
      <3>3. QED
        BY <1>2, <3>1, <3>2 DEF ContractInv, ReleasesPending, Ending
    <2>6. QED
      BY <2>1, <2>2, <2>3, <2>4, <2>5 DEF ContractInv
  <1>4. UNCHANGED <<ClosingNow, SavedNow, ReleasedNow>>
    BY <1>1, <1>2 DEF ClosingNow, SavedNow, ReleasedNow, DocumentsOf, DirtyOf, DirtyPositions,
                      Mode, Decided, SavedByAdapter, Reported
  <1>5. ~ PublishedNow
    BY <1>1, <1>2 DEF ContractInv, PublishedOnce, PublishedNow, TypeInv, TypeOK
  <1>6. CASE ok
    <2>1. PublishedNow'
      BY <1>1, <1>2, <1>6 DEF PublishedNow
    <2>2. ClosingNow.mode = "discard" \/ ClosingNow.dirty \subseteq SavedNow
      <3>1. ClosingNow.mode = Mode(state) /\ ClosingNow.dirty = DirtyOf(state.snapshot)
        BY <1>2 DEF ClosingNow
      <3>2. state.kind \in {"SavedAll", "DiscardedAll", "NoDirtyDocuments"}
        BY <1>1, Variants DEF TypeInv, TypeOK, States, CheckpointingStates, CompletionKinds
      <3>3. CASE state.kind = "SavedAll"
        <4>1. \A i \in DirtyPositions(state.snapshot) : SavedByAdapter(state.tx, state.snapshot[i])
          BY <1>1, <3>3 DEF EarnedInv, SavedAllIsEarned, EarnedBy
        <4>2. DirtyOf(state.snapshot) \subseteq SavedNow
          BY <1>2, <4>1 DEF DirtyOf, SavedNow
        <4>3. QED
          BY <3>1, <4>2
      <3>4. CASE state.kind = "DiscardedAll"
        BY <1>1, <3>1, <3>4 DEF Mode, Decided
      <3>5. CASE state.kind = "NoDirtyDocuments"
        BY <1>1, <1>2, <3>1, <3>5 DEF ContractInv, Undecided, Ending, DirtyOf
      <3>6. QED
        BY <3>2, <3>3, <3>4, <3>5
    <2>3. Contract!Publish
      BY <1>1, <1>2, <1>4, <2>1, <2>2 DEF Contract!Publish, PublishedNow
    <2>4. QED
      BY <1>3, <2>3 DEF Contract!Next
  <1>7. CASE ~ ok
    <2>1. PublishedNow' = PublishedNow
      BY <1>1, <1>2, <1>5, <1>7 DEF PublishedNow
    <2>2. QED
      BY <1>1, <1>3, <1>4, <2>1 DEF Contract!vars
  <1>8. QED
    BY <1>6, <1>7

\* The result of a publication: the releases begin, or the close is suspended.
LEMMA CheckpointMaps ==
    ASSUME AllInv, TypeInv', NEW c \in checkpoints, c.tx # publishing, HandleCheckpoint(c)
    PROVE  ContractInv' /\ [Contract!Next]_Contract!vars
  <1> USE DEF AllInv
  <1>1. /\ state.phase = "Checkpointing" /\ c.tx = state.tx
        /\ state # Idle /\ c \in [tx : Nat, ok : BOOLEAN]
    BY DEF HandleCheckpoint, HandleCheckpointPublished, HandleCheckpointFailed, Idle,
           TypeInv, TypeOK
  <1>2. /\ Current = state /\ Current # None /\ state.tx = nextTransaction /\ publishing = 0
        /\ recoverable = None /\ Ending
    BY <1>1, CurrentIs DEF LiveInv, Ending
  <1>3. CASE HandleCheckpointPublished(c)
    <2>1. /\ [tx |-> nextTransaction, ok |-> TRUE] \in checkpoints
          /\ UNCHANGED <<nextTransaction, recoverable, answers, publishing, checkpoints>>
      BY <1>1, <1>2, <1>3 DEF HandleCheckpointPublished
    <2>2. CASE state.pending = {} /\ Complete(state.saved) /\ UNCHANGED issued
      BY <1>1, <1>2, <2>1, <2>2, Confirmed
    <2>3. ASSUME NEW first \in state.pending,
                 state' = [phase |-> "Releasing", tx |-> state.tx,
                           snapshot |-> state.snapshot, pending |-> state.pending,
                           released |-> {}, saved |-> state.saved, kind |-> state.kind],
                 issued' = issued \cup {first}, UNCHANGED lastCompletion
          PROVE  ContractInv' /\ UNCHANGED Contract!vars
      <3>1. /\ state'.phase = "Releasing" /\ state'.tx = state.tx /\ state'.kind = state.kind
            /\ state'.snapshot = state.snapshot /\ state'.pending = state.pending
        BY <2>3
      <3>2. GoesOn
        BY <1>1, <2>1, <2>3, <3>1 DEF GoesOn, Idle
      <3>3. /\ Current' = state' /\ AnswersToRequests' /\ Current' # None
            /\ UNCHANGED DocumentsOf(Current.snapshot)
        BY <3>2, GoesOnMaps
      <3>4. first.kind = "Release" /\ first.doc \in DocumentsOf(Current.snapshot)
        BY <1>2 DEF ContractInv, ReleasesInside
      <3>5. PublishedOnce'
        BY <1>2, <2>1, <3>1 DEF ContractInv, PublishedOnce
      <3>6. Undecided'
        BY <1>2, <3>1, <3>3 DEF ContractInv, Undecided, Ending, DirtyPositions
      <3>7. SavesAnswered'
        BY <1>1, <1>2, <2>1, <2>3, <3>3, <3>4 DEF ContractInv, SavesAnswered, Answered
      <3>8. ReleasesInside'
        BY <1>2, <2>1, <2>3, <3>1, <3>3, <3>4 DEF ContractInv, ReleasesInside, Ending
      <3>9. ReleasesPending'
        BY <1>2, <2>1, <3>1, <3>3 DEF ContractInv, ReleasesPending, Reported
      <3>10. ContractInv'
        BY <3>3, <3>5, <3>6, <3>7, <3>8, <3>9 DEF ContractInv
      <3>11. Mode(state) = Mode(state')
        BY <1>1, <3>1 DEF Mode, Decided
      <3>12. QED
        BY <3>2, <3>10, <3>11, GoesOnMaps
    <2>4. QED
      BY <1>3, <2>2, <2>3 DEF HandleCheckpointPublished
  <1>4. CASE HandleCheckpointFailed(c)
    <2>1. /\ state' = Idle /\ recoverable' = state /\ c = [tx |-> nextTransaction, ok |-> FALSE]
          /\ UNCHANGED <<nextTransaction, lastCompletion, issued, answers, publishing, checkpoints>>
      BY <1>1, <1>2, <1>4 DEF HandleCheckpointFailed, Interrupt
    <2>2. Current' = Current
      BY <1>2, <2>1 DEF Current
    <2>3. [tx |-> nextTransaction, ok |-> TRUE] \notin checkpoints
      BY <2>1 DEF ContractInv, PublishedOnce
    <2>4. ContractInv'
      <3>1. PublishedOnce'
        BY <1>2, <2>1, <2>3 DEF ContractInv, PublishedOnce, Idle
      <3>2. AnswersToRequests' /\ Undecided'
        BY <2>1, <2>2 DEF ContractInv, AnswersToRequests, Undecided, Ending, DirtyPositions, Idle
      <3>3. SavesAnswered'
        BY <1>1, <2>1, <2>2 DEF ContractInv, SavesAnswered, Answered
      <3>4. ReleasesInside' /\ ReleasesPending'
        BY <2>1, <2>2
        DEF ContractInv, ReleasesInside, ReleasesPending, Ending, DocumentsOf, Reported
      <3>5. QED
        BY <3>1, <3>2, <3>3, <3>4 DEF ContractInv
    <2>5. UNCHANGED <<ClosingNow, SavedNow, ReleasedNow, PublishedNow>>
      BY <2>1, <2>2 DEF ClosingNow, SavedNow, ReleasedNow, PublishedNow, DocumentsOf, DirtyOf,
                        DirtyPositions, Mode, Decided, SavedByAdapter, Reported
    <2>6. ~ PublishedNow
      BY <1>2, <2>3 DEF PublishedNow
    <2>7. Contract!Suspend
      BY <1>1, <2>1, <2>5, <2>6 DEF Contract!Suspend
    <2>8. QED
      BY <2>4, <2>7 DEF Contract!Next
  <1>5. QED
    BY <1>3, <1>4 DEF HandleCheckpoint

\* A retry goes on with the suspended close.
LEMMA RetryMaps ==
    ASSUME AllInv, NEW tx \in Nat, RetrySessionCheckpoint(tx)
    PROVE  ContractInv' /\ Contract!Next
  <1> USE DEF AllInv
  <1>1. /\ state = Idle /\ recoverable # None /\ state' = recoverable /\ recoverable' = None
        /\ recoverable \in CheckpointingStates
        /\ UNCHANGED <<nextTransaction, lastCompletion, issued, answers, checkpoints>>
    BY DEF RetrySessionCheckpoint, TypeInv, TypeOK
  <1>2. state.phase = "Idle" /\ state'.phase = "Checkpointing" /\ state' # Idle
    BY <1>1 DEF CheckpointingStates, Idle
  <1>3. Current = recoverable /\ Current' = Current
    BY <1>1, <1>2 DEF Current
  <1>4. ContractInv'
    <2>1. PublishedOnce'
      BY <1>1, <1>2 DEF ContractInv, PublishedOnce
    <2>2. AnswersToRequests' /\ Undecided'
      BY <1>1, <1>2, <1>3 DEF ContractInv, AnswersToRequests, Undecided, Ending, DirtyPositions
    <2>3. SavesAnswered'
      BY <1>1, <1>2, <1>3 DEF ContractInv, SavesAnswered, Answered
    <2>4. ReleasesInside' /\ ReleasesPending'
      BY <1>1, <1>3
      DEF ContractInv, ReleasesInside, ReleasesPending, Ending, DocumentsOf, Reported
    <2>5. QED
      BY <2>1, <2>2, <2>3, <2>4 DEF ContractInv
  <1>5. UNCHANGED <<ClosingNow, SavedNow, ReleasedNow, PublishedNow>>
    BY <1>1, <1>3 DEF ClosingNow, SavedNow, ReleasedNow, PublishedNow, DocumentsOf, DirtyOf,
                      DirtyPositions, Mode, Decided, SavedByAdapter, Reported
  <1>6. ClosingNow # None
    BY <1>1, <1>3 DEF ClosingNow, None
  <1>7. Contract!GoOn
    BY <1>1, <1>2, <1>5, <1>6 DEF Contract!GoOn
  <1>8. QED
    BY <1>4, <1>7 DEF Contract!Next

-----------------------------------------------------------------------------
LEMMA StepMaps == AllInv /\ [AnyNext]_vars => AllInv' /\ [Contract!Next]_Contract!vars
  <1> SUFFICES ASSUME AllInv, [AnyNext]_vars
               PROVE  AllInv' /\ [Contract!Next]_Contract!vars
    OBVIOUS
  <1>1. TypeInv' /\ LiveInv' /\ ReleaseInv' /\ EarnedInv'
    BY TypeStep, LiveStep, ReleaseStep, EarnedStep DEF AllInv
  <1>2. CASE UNCHANGED vars
    <2>1. Current' = Current
      BY <1>2 DEF vars, coordinatorVars, Current
    <2>2. ContractInv'
      BY <1>2, <2>1
      DEF AllInv, vars, coordinatorVars, adapterVars, ContractInv, AnswersToRequests, PublishedOnce,
          Undecided, SavesAnswered, ReleasesInside, ReleasesPending, Ending, Answered, Reported,
          DocumentsOf, DirtyPositions
    <2>3. UNCHANGED Contract!vars
      BY <1>2, <2>1
      DEF vars, coordinatorVars, adapterVars, Contract!vars, ClosingNow, SavedNow, ReleasedNow,
          PublishedNow, DocumentsOf, DirtyOf, DirtyPositions, Mode, Decided, SavedByAdapter, Reported
    <2>4. QED
      BY <1>1, <2>2, <2>3 DEF AllInv
  <1>3. CASE AnyNext
    <2>1. ContractInv' /\ [Contract!Next]_Contract!vars
      BY <1>1, <1>3, RequestMaps, ChooseMaps, AnswerMaps, ResultMaps, PublicationMaps,
         CheckpointMaps, RetryMaps
      DEF AnyNext
    <2>2. QED
      BY <1>1, <2>1 DEF AllInv
  <1>4. QED
    BY <1>2, <1>3

LEMMA InitMaps == Init => AllInv /\ Contract!Init
  <1> SUFFICES ASSUME Init PROVE AllInv /\ Contract!Init
    OBVIOUS
  <1>1. Current = None /\ state = Idle
    BY DEF Init, Current
  <1>2. TypeInv /\ LiveInv /\ ReleaseInv /\ EarnedInv
    BY LiveInit
    DEF Init, TypeInv, TypeOK, SavingInside, ReleaseInv, ReleaseOnlyAfterCheckpoint,
        EarnedInv, SavedAllIsEarned, Idle
  <1>3. ContractInv
    BY <1>1 DEF Init, ContractInv, AnswersToRequests, PublishedOnce, Undecided, SavesAnswered,
                ReleasesInside, ReleasesPending, Ending, Idle
  <1>4. Contract!Init
    BY <1>1, NoCloseIsNothing DEF Init, Contract!Init, None
  <1>5. QED
    BY <1>2, <1>3, <1>4 DEF AllInv

\* For any documents, snapshots and number of transactions the coordinator of
\* application_close.rs, with an adapter that answers late, repeatedly and for
\* transactions that have ended, implements CloseContract.
THEOREM CoordinatorImplementsContract == Spec => ImplementsContract
  <1>1. QED
    BY InitMaps, StepMaps, NextIsAny, PTL DEF Spec, ImplementsContract, Contract!Spec

-----------------------------------------------------------------------------
(* The window around the coordinator.  Nothing but a save changes what the  *)
(* file of a document holds, nothing writes a document that is clean, and   *)
(* while a close is under way no document of its snapshot gains edits that  *)
(* the dialog has not shown, unless they were recovered edits or the close  *)
(* was taken up again.                                                      *)

\* Every tab is a document of its own; one that is still loading is unedited.
TabsInv ==
    /\ \A i, j \in DOMAIN tabs : tabs[i] = tabs[j] => i = j
    /\ \A d \in Documents : saved[d] <= revision[d]
    /\ loading \subseteq Open
    /\ \A d \in loading : revision[d] = 1

\* What is written is what the document was at some time after its last save; a
\* write for the coordinator is the one it waits for, of a document that stays.
OwnedWrite(w) ==
    /\ state.phase = "Saving" /\ w.by = state.pending /\ ~ Answered(w.by)
    /\ w.by.kind = "Save" /\ w.by.doc = w.doc /\ w.by.rev = w.rev
    /\ w.doc \in Open \ loading

WritersInv ==
    /\ OneWriterPerDocument
    /\ \A w \in writing : /\ DirtyDoc(w.doc)
                          /\ saved[w.doc] <= w.rev /\ w.rev <= revision[w.doc]
                          /\ w.by # NoOne => OwnedWrite(w)

\* The sheet is down while a close goes on, whoever goes on with it.
SheetInv ==
    /\ AlertCanBeResumed
    /\ following => state.phase = "AwaitingDecision" /\ alert = None

\* A save is reported only when the file holds at least what was asked for.
OnDisk ==
    \A a \in answers : a.outcome = "Saved" =>
       a.token.kind = "Save" /\ saved[a.token.doc] >= a.token.rev

\* The dialog has shown what an open document of the snapshot has to lose.
Shown(entry) ==
    /\ state.phase # "Releasing" => entry.id \in Open
    /\ entry.id \notin Recovered /\ DirtyDoc(entry.id) => entry.dirty = revision[entry.id]

\* A document saved for this close is clean and stays so.
SavedForGood(a) ==
    /\ ~ DirtyDoc(a.token.doc) /\ a.token.doc \notin loading
    /\ state.phase # "Releasing" => a.token.doc \in Open

CoveredInv ==
    state # Idle /\ state.tx \notin resumed =>
       /\ \A i \in DOMAIN state.snapshot : Shown(state.snapshot[i])
       /\ \A a \in answers : a.token.tx = state.tx /\ a.outcome = "Saved" => SavedForGood(a)

WindowInv ==
    /\ AllInv /\ WorkspaceTypeOK
    /\ TabsInv /\ WritersInv /\ SheetInv /\ OnDisk /\ CoveredInv

-----------------------------------------------------------------------------
(* The tabs.                                                               *)

\* Removing one element of a sequence without duplicates leaves one, of the others.
LEMMA RemoveOne ==
    ASSUME NEW S, NEW s \in Seq(S), NEW n \in DOMAIN s,
           \A i, j \in DOMAIN s : s[i] = s[j] => i = j
    PROVE  LET r == RemoveAt(s, n)
           IN  /\ r \in Seq(S)
               /\ \A i, j \in DOMAIN r : r[i] = r[j] => i = j
               /\ {r[i] : i \in DOMAIN r} = {s[i] : i \in DOMAIN s} \ {s[n]}
  <1> DEFINE r == RemoveAt(s, n)
  <1>1. n \in 1 .. Len(s) /\ Len(s) \in Nat
    OBVIOUS
  <1> DEFINE a == SubSeq(s, 1, n - 1)
             b == SubSeq(s, n + 1, Len(s))
  <1>2. /\ a \in Seq(S) /\ Len(a) = n - 1 /\ \A i \in 1 .. n - 1 : a[i] = s[i]
        /\ b \in Seq(S) /\ Len(b) = Len(s) - n /\ \A i \in 1 .. Len(s) - n : b[i] = s[n + i]
    BY <1>1
  <1>r. r = a \o b
    BY DEF RemoveAt
  <1> HIDE DEF a, b, r
  <1>3. r \in Seq(S) /\ Len(r) = Len(s) - 1
    BY <1>1, <1>2, <1>r
  <1>4. \A i \in 1 .. Len(s) - 1 : r[i] = IF i < n THEN s[i] ELSE s[i + 1]
    <2> SUFFICES ASSUME NEW i \in 1 .. Len(s) - 1
                 PROVE  r[i] = IF i < n THEN s[i] ELSE s[i + 1]
      OBVIOUS
    <2>1. CASE i < n
      BY <1>1, <1>2, <1>r, <2>1
    <2>2. CASE i >= n
      <3>1. r[i] = b[i - (n - 1)]
        BY <1>1, <1>2, <1>r, <2>2, SMTT(30)
      <3>2. i - (n - 1) \in 1 .. Len(s) - n /\ n + (i - (n - 1)) = i + 1
        BY <1>1, <2>2
      <3>3. QED
        BY <1>1, <1>2, <2>2, <3>1, <3>2, SMTT(30)
    <2>3. QED
      BY <1>1, <2>1, <2>2
  <1>5. DOMAIN r = 1 .. Len(s) - 1 /\ DOMAIN s = 1 .. Len(s)
    BY <1>3
  <1>6. \A i, j \in DOMAIN r : r[i] = r[j] => i = j
    BY <1>1, <1>4, <1>5
  <1>7. \A i \in DOMAIN r : \E j \in DOMAIN s : j # n /\ r[i] = s[j]
    BY <1>1, <1>4, <1>5
  <1>8. \A j \in DOMAIN s : j # n => \E i \in DOMAIN r : r[i] = s[j]
    <2> SUFFICES ASSUME NEW j \in DOMAIN s, j # n PROVE \E i \in DOMAIN r : r[i] = s[j]
      OBVIOUS
    <2>1. CASE j < n
      BY <1>1, <1>4, <1>5, <2>1
    <2>2. CASE j > n
      <3>1. j - 1 \in DOMAIN r /\ r[j - 1] = s[j]
        BY <1>1, <1>4, <1>5, <2>2
      <3>2. QED
        BY <3>1
    <2>3. QED
      BY <1>1, <1>5, <2>1, <2>2
  <1>9. {r[i] : i \in DOMAIN r} = {s[i] : i \in DOMAIN s} \ {s[n]}
    BY <1>7, <1>8
  <1>10. QED
    BY <1>3, <1>6, <1>9 DEF r

\* Closing a document takes its one tab away.
LEMMA WithoutDocument ==
    ASSUME WorkspaceTypeOK, TabsInv, NEW d \in Open, tabs' = Without(d)
    PROVE  /\ tabs' \in Seq(Documents)
           /\ (\A i, j \in DOMAIN tabs : tabs[i] = tabs[j] => i = j)'
           /\ Open' = Open \ {d}
  <1> DEFINE n == CHOOSE i \in DOMAIN tabs : tabs[i] = d
  <1>1. n \in DOMAIN tabs /\ tabs[n] = d
    BY DEF Open
  <1>2. tabs' = RemoveAt(tabs, n)
    BY DEF Without
  <1> HIDE DEF n
  <1>3. tabs \in Seq(Documents) /\ \A i, j \in DOMAIN tabs : tabs[i] = tabs[j] => i = j
    BY DEF WorkspaceTypeOK, TabsInv
  <1>4. /\ tabs' \in Seq(Documents)
        /\ \A i, j \in DOMAIN tabs' : tabs'[i] = tabs'[j] => i = j
        /\ {tabs'[i] : i \in DOMAIN tabs'} = {tabs[i] : i \in DOMAIN tabs} \ {tabs[n]}
    <2>1. LET r == RemoveAt(tabs, n)
          IN  /\ r \in Seq(Documents)
              /\ \A i, j \in DOMAIN r : r[i] = r[j] => i = j
              /\ {r[i] : i \in DOMAIN r} = {tabs[i] : i \in DOMAIN tabs} \ {tabs[n]}
      BY ONLY <1>1, <1>3, RemoveOne
    <2>2. QED
      BY ONLY <1>2, <2>1
  <1>5. QED
    BY <1>1, <1>4 DEF Open

\* A tab for a document that has none.
LEMMA WithDocument ==
    ASSUME WorkspaceTypeOK, TabsInv, NEW d \in Documents \ Open, tabs' = Append(tabs, d)
    PROVE  /\ tabs' \in Seq(Documents)
           /\ (\A i, j \in DOMAIN tabs : tabs[i] = tabs[j] => i = j)'
           /\ Open' = Open \cup {d}
  <1>1. tabs \in Seq(Documents) /\ tabs' \in Seq(Documents) /\ Len(tabs') = Len(tabs) + 1
    BY DEF WorkspaceTypeOK
  <1>2. /\ DOMAIN tabs = 1 .. Len(tabs) /\ DOMAIN tabs' = 1 .. Len(tabs) + 1
        /\ \A i \in 1 .. Len(tabs) : tabs'[i] = tabs[i]
        /\ tabs'[Len(tabs) + 1] = d
    BY <1>1
  <1>3. \A i \in DOMAIN tabs : tabs[i] # d
    BY DEF Open
  <1>4. (\A i, j \in DOMAIN tabs : tabs[i] = tabs[j] => i = j)'
    BY <1>1, <1>2, <1>3 DEF TabsInv
  <1>5. Open' = Open \cup {d}
    BY <1>1, <1>2 DEF Open
  <1>6. QED
    BY <1>1, <1>4, <1>5

\* What a close is asked for is a snapshot of the window.
LEMMA CapturedIs ==
    ASSUME WorkspaceTypeOK, TabsInv
    PROVE  /\ CapturedSnapshot \in ValidSnapshots
           /\ \A i \in DOMAIN CapturedSnapshot :
                 /\ CapturedSnapshot[i].id \in Open
                 /\ DirtyDoc(CapturedSnapshot[i].id) =>
                       CapturedSnapshot[i].dirty = revision[CapturedSnapshot[i].id]
  <1> DEFINE s == CapturedSnapshot
  <1>1. /\ tabs \in Seq(Documents) /\ DOMAIN tabs = 1 .. Len(tabs) /\ Len(tabs) \in Nat
        /\ revision \in [Documents -> 1 .. MaxRevision] /\ MaxRevision \in Nat
    BY WorkspaceAssumption DEF WorkspaceTypeOK
  <1>2. \A i \in DOMAIN tabs : tabs[i] \in Documents /\ revision[tabs[i]] \in Nat \ {0}
    BY <1>1
  <1>3. /\ DOMAIN s = 1 .. Len(tabs)
        /\ \A i \in DOMAIN tabs : s[i] = [id |-> tabs[i], dirty |-> DirtyRevision(tabs[i]),
                                          saveAs |-> tabs[i] \in untitled]
    BY <1>1 DEF CapturedSnapshot
  <1>a. \A i \in DOMAIN tabs : DirtyRevision(tabs[i]) \in Nat
    BY <1>2 DEF DirtyRevision, Clean
  <1> HIDE DEF s
  <1>4. \A i \in DOMAIN tabs : s[i] \in Entries
    <2> SUFFICES ASSUME NEW i \in DOMAIN tabs PROVE s[i] \in Entries
      OBVIOUS
    <2> DEFINE r == DirtyRevision(tabs[i])
               b == tabs[i] \in untitled
    <2>1. s[i] = [id |-> tabs[i], dirty |-> r, saveAs |-> b]
      BY <1>3
    <2>2. tabs[i] \in Documents /\ r \in Revisions \cup {Clean} /\ b \in BOOLEAN
      BY <1>2, <1>a DEF Revisions, Clean
    <2> HIDE DEF r, b
    <2>3. QED
      BY <2>1, <2>2 DEF Entries
  <1>5. s \in [1 .. Len(tabs) -> Entries]
    <2>1. s = [i \in 1 .. Len(tabs) |-> s[i]]
      BY <1>1, <1>3 DEF s, CapturedSnapshot
    <2>2. QED
      BY <1>1, <1>4, <2>1
  <1>6. s \in Seq(Entries)
    BY <1>1, <1>5
  <1>7. \A i, j \in DOMAIN s : s[i].id = s[j].id => i = j
    BY <1>1, <1>3 DEF TabsInv
  <1>8. s \in ValidSnapshots
    BY <1>6, <1>7 DEF ValidSnapshots
  <1>9. \A i \in DOMAIN s : s[i].id = tabs[i] /\ s[i].dirty = DirtyRevision(tabs[i])
    BY <1>1, <1>3
  <1>10. \A i \in DOMAIN s : /\ s[i].id \in Open
                             /\ DirtyDoc(s[i].id) => s[i].dirty = revision[s[i].id]
    BY <1>1, <1>3, <1>9 DEF Open, DirtyRevision
  <1>11. QED
    BY <1>8, <1>10 DEF s

-----------------------------------------------------------------------------
(* What the window does to the coordinator: nothing, or a step of its own.  *)

Apart(d) == Edit(d) \/ BeginSave(d) \/ OpenFile(d) \/ FileLoaded(d) \/ AttachDocument(d)

\* Steps of the coordinator that leave the documents and their files alone.
CoordinatorStep ==
    \/ RequestWindowClose \/ ResumeClose
    \/ ChooseInDialog \/ FollowWithSaveAll
    \/ ResumeCheckpoint
    \/ RejectPendingSave
    \/ \E outcome \in Outcomes("SaveAs") : PickerCloses(outcome)
    \/ \E ok \in BOOLEAN : PublishSessionCheckpoint(ok)
    \/ \E a \in answers : ApplySaveTransition(a) \/ ApplyReleaseTransition(a)
    \/ \E c \in checkpoints : ApplyCheckpointTransition(c)

LEMMA WorkspaceCases ==
    ASSUME [WorkspaceNext]_allVars
    PROVE  \/ \E d \in Documents : Apart(d)
           \/ DismissRecovery \/ StartPendingSave \/ UNCHANGED allVars
           \/ \E w \in writing : \E outcome \in Outcomes("Save") : OrdinarySaveEnds(w, outcome)
           \/ \E w \in writing : \E outcome \in Outcomes("Save") : PendingSaveEnds(w, outcome)
           \/ \E token \in issued : ReleaseDocument(token)
           \/ CoordinatorStep
  BY DEF WorkspaceNext, Apart, CoordinatorStep

LEMMA CoordinatorStepFrame ==
    ASSUME CoordinatorStep
    PROVE  UNCHANGED <<tabs, documentVars, writing>>
  BY DEF CoordinatorStep, RequestWindowClose, ResumeClose, ChooseInDialog, FollowWithSaveAll,
         ResumeCheckpoint, RejectPendingSave, PickerCloses, PublishSessionCheckpoint,
         ApplySaveTransition, ApplyReleaseTransition, ApplyCheckpointTransition,
         workspaceVars, documentVars

\* The least of some positions.
LEMMA LeastPosition ==
    ASSUME NEW S, S \subseteq Nat, S # {}
    PROVE  \E i \in S : \A j \in S : i <= j
  <1>1. \E R : IsWellFoundedOn(R, Nat) /\ \A i, j \in Nat : i < j => <<i, j>> \in R
    <2>1. \A i, j \in Nat : i < j => <<i, j>> \in OpToRel(<, Nat)
      BY DEF OpToRel
    <2>2. QED
      BY <2>1, NatLessThanWellFounded
  <1>2. PICK R : IsWellFoundedOn(R, Nat) /\ \A i, j \in Nat : i < j => <<i, j>> \in R
    BY <1>1
  <1>3. \E i \in S : \A j \in S : ~ (<<j, i>> \in R)
    <2>1. IsWellFoundedOn(R, Nat)
      BY <1>2
    <2>2. QED
      BY <2>1, WFMin, ZenonT(60)
  <1>4. \A i, j \in S : ~ (j < i) => i <= j
    OBVIOUS
  <1>5. \A i, j \in S : ~ (<<j, i>> \in R) => ~ (j < i)
    BY <1>2
  <1>6. QED
    BY <1>3, <1>4, <1>5

\* A request goes to the coordinator with the window as it is; otherwise nothing
\* changes but a warning and the sheet, which names an open document.
LEMMA StartCloseIs ==
    ASSUME WorkspaceTypeOK, NEW warned, StartClose(warned)
    PROVE  /\ warning' = warned
           /\ \/ /\ UNCHANGED vars
                 /\ \E d \in Open : alert' = Alert("PublishedWithWarning", 0, d, warned[d])
              \/ RequestClose(CapturedSnapshot) /\ alert' = None
  <1>1. ASSUME WarnedPositions(warned) # {}
        PROVE  FirstWarned(warned) \in Open
    <2>1. WarnedPositions(warned) \subseteq DOMAIN tabs /\ DOMAIN tabs \subseteq Nat
      BY DEF WarnedPositions, WorkspaceTypeOK
    <2>2. \E i \in WarnedPositions(warned) : \A j \in WarnedPositions(warned) : i <= j
      BY <1>1, <2>1, LeastPosition
    <2>3. QED
      BY <2>1, <2>2 DEF FirstWarned, Open
  <1>2. QED
    BY <1>1 DEF StartClose

\* Every step of the window is one that the coordinator and its adapter may take.
LEMMA WorkspaceIsAny ==
    ASSUME AllInv, WorkspaceTypeOK, TabsInv, [WorkspaceNext]_allVars
    PROVE  [AnyNext]_vars
  <1>1. CASE UNCHANGED vars
    BY <1>1
  <1>2. ASSUME NEW token, NEW outcome, Answer(token, outcome)
        PROVE  AnyNext
    BY <1>2 DEF AnyNext, Answer
  <1>3. ASSUME NEW warned, StartClose(warned)
        PROVE  [AnyNext]_vars
    BY <1>3, StartCloseIs, CapturedIs DEF AnyNext
  <1>4. ASSUME NEW tx, RetrySessionCheckpoint(tx)
        PROVE  AnyNext
    <2>1. tx \in Nat
      BY <1>4 DEF RetrySessionCheckpoint, AllInv, TypeInv, TypeOK, CheckpointingStates
    <2>2. QED
      BY <1>4, <2>1 DEF AnyNext
  <1>5. CASE CoordinatorStep
    <2>1. CASE RequestWindowClose \/ ResumeClose
      BY <1>3, <2>1 DEF RequestWindowClose, ResumeClose
    <2>2. CASE ChooseInDialog \/ FollowWithSaveAll
      BY <2>2 DEF ChooseInDialog, FollowWithSaveAll, Choose, AnyNext
    <2>3. CASE ResumeCheckpoint
      BY <1>4, <2>3 DEF ResumeCheckpoint
    <2>4. CASE RejectPendingSave \/ \E outcome \in Outcomes("SaveAs") : PickerCloses(outcome)
      BY <1>2, <2>4 DEF RejectPendingSave, PickerCloses
    <2>5. ASSUME NEW ok \in BOOLEAN, PublishSessionCheckpoint(ok) PROVE AnyNext
      BY <2>5 DEF PublishSessionCheckpoint, AnyNext
    <2>6. ASSUME NEW a \in answers, ApplySaveTransition(a) \/ ApplyReleaseTransition(a)
          PROVE  AnyNext
      BY <2>6 DEF ApplySaveTransition, ApplyReleaseTransition, AnyNext, HandleResult
    <2>7. ASSUME NEW c \in checkpoints, ApplyCheckpointTransition(c) PROVE AnyNext
      BY <2>7 DEF ApplyCheckpointTransition, AnyNext, HandleCheckpoint
    <2>8. QED
      BY <1>5, <2>1, <2>2, <2>3, <2>4, <2>5, <2>6, <2>7 DEF CoordinatorStep
  <1>6. CASE \/ \E d \in Documents : Apart(d)
             \/ DismissRecovery \/ StartPendingSave \/ UNCHANGED allVars
             \/ \E w \in writing : \E outcome \in Outcomes("Save") : OrdinarySaveEnds(w, outcome)
    BY <1>1, <1>6 DEF Apart, Edit, BeginSave, OpenFile, FileLoaded, AttachDocument, DismissRecovery,
       StartPendingSave, OrdinarySaveEnds, allVars
  <1>7. CASE \E w \in writing : \E outcome \in Outcomes("Save") : PendingSaveEnds(w, outcome)
    BY <1>2, <1>7 DEF PendingSaveEnds
  <1>8. CASE \E token \in issued : ReleaseDocument(token)
    BY <1>2, <1>8 DEF ReleaseDocument
  <1>9. QED
    BY <1>5, <1>6, <1>7, <1>8, WorkspaceCases

-----------------------------------------------------------------------------
(* Types and tabs.                                                         *)

\* A save that ends leaves its document's file at the revision written, or as it was.
LEMMA ApplySaveIs ==
    ASSUME WorkspaceTypeOK, NEW w \in writing, NEW outcome, ApplySave(w, outcome)
    PROVE  /\ writing' = writing \ {w}
           /\ w.doc \in Documents /\ w.rev \in 1 .. MaxRevision
           /\ saved' \in [Documents -> 1 .. MaxRevision]
           /\ warning' \in [Documents -> 0 .. MaxRevision]
           /\ untitled' \subseteq untitled
           /\ \A d \in Documents : d # w.doc =>
                 saved'[d] = saved[d] /\ (d \in untitled' <=> d \in untitled)
           /\ \/ saved'[w.doc] = saved[w.doc] /\ (w.doc \in untitled' <=> w.doc \in untitled)
              \/ saved'[w.doc] = w.rev /\ w.doc \notin untitled'
           /\ outcome # "SaveFailed" /\ w.doc \in Open =>
                 saved'[w.doc] = w.rev /\ w.doc \notin untitled'
  <1>1. /\ w.doc \in Documents /\ w.rev \in 1 .. MaxRevision
        /\ saved \in [Documents -> 1 .. MaxRevision]
        /\ warning \in [Documents -> 0 .. MaxRevision]
    BY DEF WorkspaceTypeOK
  <1>2. w.rev \in 0 .. MaxRevision /\ 0 \in 0 .. MaxRevision
    BY <1>1, WorkspaceAssumption
  <1>3. CASE outcome = "SaveFailed" \/ w.doc \notin Open
    BY <1>1, <1>3 DEF ApplySave
  <1>4. CASE ~ (outcome = "SaveFailed" \/ w.doc \notin Open)
    <2>1. /\ writing' = writing \ {w}
          /\ saved' = [saved EXCEPT ![w.doc] = w.rev]
          /\ untitled' = untitled \ {w.doc}
          /\ warning' = [warning EXCEPT ![w.doc] = IF outcome = "SavedWithWarning"
                                                   THEN w.rev ELSE 0]
      BY <1>4 DEF ApplySave
    <2>2. QED
      BY <1>1, <1>2, <2>1
  <1>5. QED
    BY <1>3, <1>4

\* The shape of the window's own state.
LEMMA WorkspaceTypeStep ==
    ASSUME AllInv, WorkspaceTypeOK, TabsInv, [WorkspaceNext]_allVars, TypeOK'
    PROVE  WorkspaceTypeOK'
  <1>1. /\ tabs \in Seq(Documents) /\ Open \subseteq Documents
        /\ loading \subseteq Documents /\ untitled \subseteq Documents
        /\ revision \in [Documents -> 1 .. MaxRevision]
        /\ saved \in [Documents -> 1 .. MaxRevision]
        /\ warning \in [Documents -> 0 .. MaxRevision]
        /\ writing \subseteq [doc : Documents, rev : 1 .. MaxRevision,
                              by : {NoOne} \cup Tokens]
        /\ resumed \subseteq Nat /\ following \in BOOLEAN
    BY DEF WorkspaceTypeOK, Open
  <1>2. /\ state \in States /\ TypeOK
        /\ answers \subseteq [token : Tokens, outcome : UNION {Outcomes(k) : k \in Kinds}]
        /\ checkpoints \subseteq [tx : Nat, ok : BOOLEAN]
    BY DEF AllInv, TypeInv, TypeOK, States
  <1> DEFINE AlertType(x) == x = None \/ x \in [kind : AlertKinds, tx : Nat,
                                doc : Documents \cup {0}, warned : 0 .. MaxRevision]
  <1>3. AlertType(alert) /\ AlertType(None)
    BY DEF WorkspaceTypeOK
  <1>4. ASSUME NEW kind \in AlertKinds, NEW tx \in Nat, NEW d \in Documents \cup {0},
               NEW n \in 0 .. MaxRevision
        PROVE  AlertType(Alert(kind, tx, d, n))
    BY DEF Alert
  <1>5. MaxRevision \in Nat /\ 0 \in 0 .. MaxRevision /\ 1 \in 1 .. MaxRevision
    BY WorkspaceAssumption
  <1> HIDE DEF AlertType
  <1>6. ASSUME tabs' \in Seq(Documents), loading' \subseteq Documents, untitled' \subseteq untitled,
               revision' \in [Documents -> 1 .. MaxRevision],
               saved' \in [Documents -> 1 .. MaxRevision],
               warning' \in [Documents -> 0 .. MaxRevision],
               writing' \subseteq [doc : Documents, rev : 1 .. MaxRevision,
                                   by : {NoOne} \cup Tokens],
               AlertType(alert'), following' \in BOOLEAN, resumed' \subseteq Nat
        PROVE  WorkspaceTypeOK'
    BY <1>1, <1>6 DEF WorkspaceTypeOK, AlertType
  <1>7. ASSUME NEW d \in Documents, Apart(d)
        PROVE  WorkspaceTypeOK'
    <2>1. UNCHANGED <<untitled, saved, warning, alert, following, resumed>>
      BY <1>7 DEF Apart, Edit, BeginSave, OpenFile, FileLoaded, AttachDocument, documentVars
    <2>2. tabs' \in Seq(Documents) /\ loading' \subseteq Documents
      <3>1. tabs' = tabs \/ tabs' = Append(tabs, d)
        BY <1>7 DEF Apart, Edit, BeginSave, OpenFile, FileLoaded, AttachDocument
      <3>2. \/ loading' = loading
            \/ loading' = loading \cup {d}
            \/ loading' = loading \ {d}
        BY <1>7 DEF Apart, Edit, BeginSave, OpenFile, FileLoaded, AttachDocument, documentVars
      <3>3. tabs' \in Seq(Documents)
        <4>1. tabs \in Seq(Documents)
          BY <1>1
        <4>2. Append(tabs, d) \in Seq(Documents)
          BY <4>1
        <4>3. QED
          BY <3>1, <4>1, <4>2
      <3>4. loading' \subseteq Documents
        BY <1>1, <3>2
      <3>5. QED
        BY <3>3, <3>4
    <2>3. revision' \in [Documents -> 1 .. MaxRevision]
      <3>1. CASE Edit(d)
        BY <1>1, <1>5, <3>1 DEF Edit
      <3>2. CASE FileLoaded(d)
        BY <1>1, <1>5, <3>2, WorkspaceAssumption DEF FileLoaded
      <3>3. CASE AttachDocument(d)
        BY <1>1, <1>5, <3>3 DEF AttachDocument
      <3>4. CASE BeginSave(d) \/ OpenFile(d)
        BY <1>1, <3>4 DEF BeginSave, OpenFile, documentVars
      <3>5. QED
        BY <1>7, <3>1, <3>2, <3>3, <3>4 DEF Apart
    <2>4. writing' \subseteq [doc : Documents, rev : 1 .. MaxRevision, by : {NoOne} \cup Tokens]
      BY <1>1, <1>7 DEF Apart, Edit, BeginSave, OpenFile, FileLoaded, AttachDocument
    <2>5. QED
      BY <1>1, <1>3, <1>6, <2>1, <2>2, <2>3, <2>4
  <1>8. CASE DismissRecovery
    BY <1>1, <1>3, <1>6, <1>8 DEF DismissRecovery, documentVars
  <1>9. CASE StartPendingSave
    <2>1. /\ UNCHANGED <<tabs, loading, untitled, revision, saved, warning, alert, following, resumed>>
          /\ state.phase = "Saving" /\ state.pending.doc \in Open
          /\ writing' = writing \cup {[doc |-> state.pending.doc,
                                       rev |-> revision[state.pending.doc],
                                       by |-> state.pending]}
      BY <1>9 DEF StartPendingSave, PendingSave, documentVars
    <2>2. state.pending \in Tokens
      BY <1>2, <2>1, Variants DEF SavingStates
    <2>3. QED
      BY <1>1, <1>3, <1>6, <2>1, <2>2
  <1>10. ASSUME NEW w \in writing, NEW outcome,
                OrdinarySaveEnds(w, outcome) \/ PendingSaveEnds(w, outcome)
         PROVE  WorkspaceTypeOK'
    <2>1. ApplySave(w, outcome) /\ UNCHANGED <<tabs, loading, revision, alert, following, resumed>>
      BY <1>10 DEF OrdinarySaveEnds, PendingSaveEnds
    <2>2. QED
      BY <1>1, <1>3, <1>6, <2>1, ApplySaveIs
  <1>11. ASSUME NEW token, ReleaseDocument(token)
         PROVE  WorkspaceTypeOK'
    <2>1. /\ UNCHANGED <<revision, saved, untitled, warning, writing, alert, following, resumed>>
          /\ \/ UNCHANGED <<tabs, loading>>
             \/ /\ token.doc \in Open /\ tabs' = Without(token.doc)
                /\ loading' = loading \ {token.doc}
      BY <1>11 DEF ReleaseDocument
    <2>2. tabs' \in Seq(Documents) /\ loading' \subseteq Documents
      BY <1>1, <2>1, WithoutDocument
    <2>3. QED
      BY <1>1, <1>3, <1>6, <2>1, <2>2
  <1>12. CASE CoordinatorStep
    <2>1. UNCHANGED <<tabs, loading, untitled, revision, saved, writing>>
      BY <1>12, CoordinatorStepFrame DEF documentVars
    <2>2. ASSUME warning' \in [Documents -> 0 .. MaxRevision], AlertType(alert'),
                 following' \in BOOLEAN, resumed' \subseteq Nat
          PROVE  WorkspaceTypeOK'
      BY <1>1, <1>6, <2>1, <2>2
    <2>3. ASSUME NEW warned \in [Documents -> 0 .. MaxRevision], StartClose(warned)
          PROVE  warning' \in [Documents -> 0 .. MaxRevision] /\ AlertType(alert')
      <3>1. \A d \in Open : AlertType(Alert("PublishedWithWarning", 0, d, warned[d]))
        BY <1>1, <1>4, <2>3 DEF AlertKinds
      <3>2. QED
        BY <1>3, <2>3, <3>1, StartCloseIs
    <2>4. CASE RequestWindowClose
      BY <1>1, <2>2, <2>3, <2>4 DEF RequestWindowClose
    <2>5. CASE ResumeClose
      <3>1. PICK warned : /\ StartClose(warned)
                          /\ warned \in {warning, [warning EXCEPT ![alert.doc] = 0]}
        BY <2>5 DEF ResumeClose
      <3>2. warned \in [Documents -> 0 .. MaxRevision]
        BY <1>1, <1>5, <3>1
      <3>3. following' \in BOOLEAN /\ resumed' = resumed
        BY <2>5 DEF ResumeClose
      <3>4. QED
        BY <1>1, <2>2, <2>3, <3>1, <3>2, <3>3
    <2>6. CASE \/ ChooseInDialog \/ FollowWithSaveAll \/ RejectPendingSave
               \/ \E outcome \in Outcomes("SaveAs") : PickerCloses(outcome)
               \/ \E ok \in BOOLEAN : PublishSessionCheckpoint(ok)
      BY <1>1, <1>3, <2>2, <2>6
      DEF ChooseInDialog, FollowWithSaveAll, RejectPendingSave, PickerCloses,
          PublishSessionCheckpoint, workspaceVars
    <2>7. CASE ResumeCheckpoint
      <3>1. /\ alert' = None /\ resumed' = resumed \cup {alert.tx} /\ recoverable # None
            /\ recoverable.tx = alert.tx /\ UNCHANGED <<warning, following>>
        BY <2>7 DEF ResumeCheckpoint, RetrySessionCheckpoint
      <3>2. alert.tx \in Nat
        BY <1>2, <3>1 DEF TypeOK, CheckpointingStates
      <3>3. QED
        BY <1>1, <1>3, <2>2, <3>1, <3>2
    <2>8. ASSUME NEW a \in answers, ApplySaveTransition(a) \/ ApplyReleaseTransition(a)
          PROVE  WorkspaceTypeOK'
      <3>1. /\ UNCHANGED <<warning, following, resumed>>
            /\ \/ alert' = alert
               \/ alert' = Alert("PublishedWithWarning", a.token.tx, a.token.doc,
                                 warning[a.token.doc])
               \/ alert' = Alert("SaveFailed", a.token.tx, a.token.doc, 0)
               \/ alert' = Alert("ReleaseFailed", a.token.tx, a.token.doc, 0)
        BY <2>8 DEF ApplySaveTransition, ApplyReleaseTransition
      <3>2. a.token.tx \in Nat /\ a.token.doc \in Documents
        BY <1>2 DEF Tokens
      <3>3. AlertType(alert')
        BY <1>1, <1>3, <1>4, <1>5, <3>1, <3>2 DEF AlertKinds
      <3>4. QED
        BY <1>1, <2>2, <3>1, <3>3
    <2>9. ASSUME NEW c \in checkpoints, ApplyCheckpointTransition(c)
          PROVE  WorkspaceTypeOK'
      <3>1. /\ UNCHANGED <<warning, following, resumed>>
            /\ alert' = alert \/ alert' = Alert("SessionCheckpointFailed", c.tx, 0, 0)
        BY <2>9 DEF ApplyCheckpointTransition
      <3>2. AlertType(alert')
        BY <1>2, <1>3, <1>4, <1>5, <3>1 DEF AlertKinds
      <3>3. QED
        BY <1>1, <2>2, <3>1, <3>2
    <2>10. QED
      BY <1>12, <2>4, <2>5, <2>6, <2>7, <2>8, <2>9 DEF CoordinatorStep
  <1>13. CASE UNCHANGED allVars
    BY <1>1, <1>3, <1>6, <1>13 DEF allVars, workspaceVars, documentVars
  <1>14. QED
    BY <1>7, <1>8, <1>9, <1>10, <1>11, <1>12, <1>13, WorkspaceCases

\* What closing, opening, editing and saving keep of the tabs.
LEMMA TabsStep ==
    ASSUME WindowInv, WorkspaceTypeOK', [WorkspaceNext]_allVars
    PROVE  TabsInv'
  <1>1. /\ WorkspaceTypeOK /\ TabsInv
        /\ Open \subseteq Documents /\ loading \subseteq Open /\ MaxRevision \in Nat
        /\ revision \in [Documents -> 1 .. MaxRevision]
        /\ saved \in [Documents -> 1 .. MaxRevision]
        /\ revision' \in [Documents -> 1 .. MaxRevision]
        /\ saved' \in [Documents -> 1 .. MaxRevision]
        /\ \A i, j \in DOMAIN tabs : tabs[i] = tabs[j] => i = j
        /\ \A d \in Documents : saved[d] <= revision[d]
        /\ \A d \in loading : revision[d] = 1
    <2>1. WorkspaceTypeOK /\ TabsInv
      BY DEF WindowInv
    <2>2. tabs \in Seq(Documents) /\ revision \in [Documents -> 1 .. MaxRevision]
          /\ saved \in [Documents -> 1 .. MaxRevision]
      BY <2>1 DEF WorkspaceTypeOK
    <2>3. Open \subseteq Documents
      BY <2>2 DEF Open
    <2>4. /\ revision' \in [Documents -> 1 .. MaxRevision]
          /\ saved' \in [Documents -> 1 .. MaxRevision]
      BY DEF WorkspaceTypeOK
    <2>5. QED
      BY <2>1, <2>2, <2>3, <2>4, WorkspaceAssumption DEF TabsInv
  <1>2. CASE UNCHANGED <<tabs, documentVars>>
    BY <1>1, <1>2 DEF TabsInv, documentVars, Open
  <1>3. ASSUME NEW d \in Documents, Apart(d)
        PROVE  TabsInv'
    <2>1. CASE Edit(d)
      <3>1. /\ UNCHANGED <<tabs, loading, saved>> /\ d \notin loading
            /\ revision' = [revision EXCEPT ![d] = @ + 1]
        BY <2>1 DEF Edit, Editable
      <3>2. QED
        BY <1>1, <3>1 DEF TabsInv, Open
    <2>2. CASE BeginSave(d)
      BY <1>2, <2>2 DEF BeginSave
    <2>3. CASE OpenFile(d)
      <3>1. /\ d \in Documents \ Open /\ tabs' = Append(tabs, d) /\ revision[d] = 1
            /\ loading' = loading \cup {d} /\ UNCHANGED <<revision, saved>>
        BY <2>3 DEF OpenFile
      <3>2. Open' = Open \cup {d} /\ (\A i, j \in DOMAIN tabs : tabs[i] = tabs[j] => i = j)'
        BY <1>1, <3>1, WithDocument
      <3>3. QED
        BY <1>1, <3>1, <3>2 DEF TabsInv
    <2>4. CASE FileLoaded(d)
      <3>1. /\ UNCHANGED <<tabs, saved>> /\ loading' = loading \ {d} /\ d \in loading
            /\ revision' = [revision EXCEPT ![d] = IF d \in Recovered THEN 2 ELSE 1]
        BY <2>4 DEF FileLoaded
      <3>2. QED
        BY <1>1, <3>1 DEF TabsInv, Open
    <2>5. CASE AttachDocument(d)
      <3>1. /\ d \in Documents \ Open /\ tabs' = Append(tabs, d) /\ saved[d] = 1
            /\ revision' = [revision EXCEPT ![d] = 2] /\ UNCHANGED <<loading, saved>>
        BY <2>5 DEF AttachDocument
      <3>2. Open' = Open \cup {d} /\ (\A i, j \in DOMAIN tabs : tabs[i] = tabs[j] => i = j)'
        BY <1>1, <3>1, WithDocument
      <3>3. QED
        BY <1>1, <3>1, <3>2 DEF TabsInv
    <2>6. QED
      BY <1>3, <2>1, <2>2, <2>3, <2>4, <2>5 DEF Apart
  <1>4. ASSUME NEW w \in writing, NEW outcome,
               OrdinarySaveEnds(w, outcome) \/ PendingSaveEnds(w, outcome)
        PROVE  TabsInv'
    <2>1. ApplySave(w, outcome) /\ UNCHANGED <<tabs, loading, revision>>
      BY <1>4 DEF OrdinarySaveEnds, PendingSaveEnds
    <2>2. w.rev <= revision[w.doc]
      BY DEF WindowInv, WritersInv
    <2>3. \A d \in Documents : saved'[d] <= revision[d]
      BY <1>1, <2>1, <2>2, ApplySaveIs
    <2>4. QED
      BY <1>1, <2>1, <2>3 DEF TabsInv, Open
  <1>5. ASSUME NEW token, ReleaseDocument(token)
        PROVE  TabsInv'
    <2>1. CASE UNCHANGED <<tabs, loading>>
      BY <1>2, <1>5, <2>1 DEF ReleaseDocument, documentVars
    <2>2. CASE /\ token.doc \in Open /\ tabs' = Without(token.doc)
               /\ loading' = loading \ {token.doc}
      <3>1. /\ Open' = Open \ {token.doc}
            /\ (\A i, j \in DOMAIN tabs : tabs[i] = tabs[j] => i = j)'
        BY <1>1, <2>2, WithoutDocument
      <3>2. UNCHANGED <<revision, saved>>
        BY <1>5 DEF ReleaseDocument
      <3>3. QED
        BY <1>1, <2>2, <3>1, <3>2 DEF TabsInv
    <2>3. QED
      BY <1>5, <2>1, <2>2 DEF ReleaseDocument
  <1>6. CASE DismissRecovery \/ StartPendingSave \/ CoordinatorStep \/ UNCHANGED allVars
    BY <1>2, <1>6, CoordinatorStepFrame DEF DismissRecovery, StartPendingSave, allVars, workspaceVars
  <1>7. QED
    BY <1>3, <1>4, <1>5, <1>6, WorkspaceCases

-----------------------------------------------------------------------------
(* Who writes.                                                             *)

\* While a write for the coordinator runs, no step of its own disturbs it.
LEMMA OwnedWriteStays ==
    ASSUME WindowInv, CoordinatorStep, NEW w \in writing, OwnedWrite(w), w.by # NoOne
    PROVE  OwnedWrite(w)'
  <1>1. /\ state.phase = "Saving" /\ w.by = state.pending /\ ~ Answered(state.pending)
        /\ state.pending.kind = "Save"
    BY DEF OwnedWrite
  <1>2. state # Idle
    BY <1>1 DEF Idle
  <1>3. ~ (RequestWindowClose \/ ResumeClose \/ ResumeCheckpoint)
    BY <1>2 DEF RequestWindowClose, ResumeClose, ResumeCheckpoint, RetrySessionCheckpoint
  <1>4. ~ (ChooseInDialog \/ FollowWithSaveAll)
    BY <1>1 DEF ChooseInDialog, FollowWithSaveAll, Choose, ChooseCancel, ChooseDiscardAll,
                ChooseSaveAll
  <1>5. ~ (RejectPendingSave \/ \E outcome \in Outcomes("SaveAs") : PickerCloses(outcome))
    BY <1>1 DEF RejectPendingSave, PendingSave, PickerCloses
  <1>6. \A a \in answers : ~ (ApplySaveTransition(a) \/ ApplyReleaseTransition(a))
    BY <1>1 DEF ApplySaveTransition, ApplyReleaseTransition, HandleSaveAsSelected, HandleSaved,
                HandleSaveInterrupted, HandleReleased, HandleReleaseFailed, Expected, Answered
  <1>7. \A c \in checkpoints : ~ ApplyCheckpointTransition(c)
    BY <1>1 DEF ApplyCheckpointTransition, HandleCheckpointPublished, HandleCheckpointFailed
  <1>8. \E ok \in BOOLEAN : PublishSessionCheckpoint(ok)
    BY <1>3, <1>4, <1>5, <1>6, <1>7 DEF CoordinatorStep
  <1>9. UNCHANGED <<state, answers, tabs, loading>>
    BY <1>8 DEF PublishSessionCheckpoint, PublishCheckpoint, coordinatorVars, workspaceVars,
                documentVars
  <1>10. QED
    BY <1>9 DEF OwnedWrite, Answered, Open

\* One document is written by one save, of edits it still has.
LEMMA WritersStep ==
    ASSUME WindowInv, WorkspaceTypeOK', [WorkspaceNext]_allVars
    PROVE  WritersInv'
  <1>1. /\ WorkspaceTypeOK /\ TabsInv /\ WritersInv
        /\ revision \in [Documents -> 1 .. MaxRevision]
        /\ saved \in [Documents -> 1 .. MaxRevision] /\ MaxRevision \in Nat
        /\ \A d \in Documents : saved[d] <= revision[d]
        /\ loading \subseteq Open /\ \A d \in loading : revision[d] = 1
        /\ \A w \in writing : w.doc \in Documents /\ w.rev \in 1 .. MaxRevision
    BY WorkspaceAssumption DEF WindowInv, WorkspaceTypeOK, TabsInv
  <1>2. ASSUME UNCHANGED <<revision, saved, untitled>>, writing' \subseteq writing,
               \A w \in writing' : w.by # NoOne /\ OwnedWrite(w) => OwnedWrite(w)'
        PROVE  WritersInv'
    BY <1>1, <1>2 DEF WritersInv, OneWriterPerDocument, DirtyDoc
  <1>3. ASSUME UNCHANGED <<vars, tabs, loading>>, NEW w, OwnedWrite(w)
        PROVE  OwnedWrite(w)'
    BY <1>3 DEF OwnedWrite, vars, coordinatorVars, adapterVars, Answered, Open
  <1>4. ASSUME NEW w, UNCHANGED <<revision, saved, untitled>>, writing' = writing \cup {w},
               ~ BeingSaved(w.doc), DirtyDoc(w.doc), w.doc \in Documents,
               w.rev = revision[w.doc],
               UNCHANGED <<vars, tabs, loading>>, w.by # NoOne => OwnedWrite(w)
        PROVE  WritersInv'
    <2>1. saved[w.doc] <= w.rev /\ w.rev <= revision[w.doc]
      BY <1>1, <1>4
    <2>2. \A v \in writing' : v.by # NoOne => OwnedWrite(v)'
      BY <1>1, <1>3, <1>4 DEF WritersInv
    <2>3. OneWriterPerDocument'
      BY <1>1, <1>4 DEF WritersInv, OneWriterPerDocument, BeingSaved
    <2>4. QED
      BY <1>1, <1>4, <2>1, <2>2, <2>3 DEF WritersInv, DirtyDoc
  <1>5. ASSUME NEW d \in Documents, Apart(d)
        PROVE  WritersInv'
    <2>1. UNCHANGED <<vars, saved, untitled>>
      BY <1>5 DEF Apart, Edit, BeginSave, OpenFile, FileLoaded, AttachDocument, documentVars
    <2>2. ASSUME writing' = writing,
                 revision' \in [Documents -> 1 .. MaxRevision],
                 \A w \in writing : w.doc = d => revision[d] <= revision'[d] /\ DirtyDoc(d)',
                 \A e \in Documents : e # d => revision'[e] = revision[e],
                 \A w \in writing : w.by # NoOne /\ OwnedWrite(w) => OwnedWrite(w)'
          PROVE  WritersInv'
      <3>1. \A w \in writing : /\ DirtyDoc(w.doc)'
                               /\ saved'[w.doc] <= w.rev /\ w.rev <= revision'[w.doc]
        BY <1>1, <2>1, <2>2 DEF WritersInv, DirtyDoc
      <3>2. QED
        BY <1>1, <2>2, <3>1 DEF WritersInv, OneWriterPerDocument
    <2>3. CASE Edit(d)
      <3>1. /\ ~ BeingSaved(d) /\ UNCHANGED <<writing, tabs, loading>>
            /\ revision' = [revision EXCEPT ![d] = @ + 1]
        BY <2>3 DEF Edit, Editable
      <3>2. revision' \in [Documents -> 1 .. MaxRevision]
        BY DEF WorkspaceTypeOK
      <3>3. QED
        BY <1>1, <1>3, <2>1, <2>2, <3>1, <3>2 DEF BeingSaved
    <2>4. CASE BeginSave(d)
      <3> DEFINE w == [doc |-> d, rev |-> revision[d], by |-> NoOne]
      <3>1. /\ ~ BeingSaved(w.doc) /\ DirtyDoc(w.doc) /\ writing' = writing \cup {w}
            /\ w.rev = revision[w.doc] /\ w.doc \in Documents /\ w.by = NoOne
            /\ UNCHANGED <<vars, tabs, loading, revision, saved, untitled>>
        BY <2>4 DEF BeginSave, Editable, documentVars
      <3> HIDE DEF w
      <3>2. QED
        BY <1>4, <3>1
    <2>5. CASE OpenFile(d)
      <3>1. /\ UNCHANGED <<writing, revision>> /\ d \in Documents \ Open
            /\ tabs' = Append(tabs, d) /\ loading' = loading \cup {d}
        BY <2>5 DEF OpenFile
      <3>2. Open' = Open \cup {d}
        BY <1>1, <3>1, WithDocument
      <3>3. \A w : OwnedWrite(w) => OwnedWrite(w)'
        BY <2>1, <3>1, <3>2
        DEF OwnedWrite, vars, coordinatorVars, adapterVars, Answered
      <3>4. QED
        BY <1>2, <2>1, <3>1, <3>3
    <2>6. CASE FileLoaded(d)
      <3>1. /\ UNCHANGED <<writing, tabs>> /\ d \in loading /\ loading' = loading \ {d}
            /\ revision' = [revision EXCEPT ![d] = IF d \in Recovered THEN 2 ELSE 1]
        BY <2>6 DEF FileLoaded
      <3>2. revision' \in [Documents -> 1 .. MaxRevision]
        BY DEF WorkspaceTypeOK
      <3>3. revision[d] = 1 /\ saved[d] = 1 /\ revision'[d] \in {1, 2}
        BY <1>1, <3>1
      <3>4. \A w \in writing : w.doc = d => revision[d] <= revision'[d] /\ DirtyDoc(d)'
        BY <1>1, <2>1, <3>3 DEF WritersInv, DirtyDoc
      <3>5. \A w : OwnedWrite(w) => OwnedWrite(w)'
        BY <2>1, <3>1 DEF OwnedWrite, vars, coordinatorVars, adapterVars, Answered, Open
      <3>6. QED
        BY <1>1, <2>2, <3>1, <3>2, <3>4, <3>5
    <2>7. CASE AttachDocument(d)
      <3>1. /\ UNCHANGED <<writing, loading>> /\ d \in Documents \ Open
            /\ tabs' = Append(tabs, d) /\ saved[d] = 1 /\ revision[d] = 1
            /\ revision' = [revision EXCEPT ![d] = 2]
        BY <2>7 DEF AttachDocument
      <3>2. revision' \in [Documents -> 1 .. MaxRevision]
        BY DEF WorkspaceTypeOK
      <3>3. Open' = Open \cup {d}
        BY <1>1, <3>1, WithDocument
      <3>4. \A w \in writing : w.doc = d => revision[d] <= revision'[d] /\ DirtyDoc(d)'
        BY <1>1, <2>1, <3>1 DEF WritersInv, DirtyDoc
      <3>5. \A w : OwnedWrite(w) => OwnedWrite(w)'
        BY <2>1, <3>1, <3>3 DEF OwnedWrite, vars, coordinatorVars, adapterVars, Answered
      <3>6. QED
        BY <1>1, <2>2, <3>1, <3>2, <3>4, <3>5
    <2>8. QED
      BY <1>5, <2>3, <2>4, <2>5, <2>6, <2>7 DEF Apart
  <1>6. CASE DismissRecovery \/ UNCHANGED allVars
    BY <1>2, <1>3, <1>6 DEF DismissRecovery, allVars, workspaceVars, documentVars
  <1>7. CASE StartPendingSave
    <2> DEFINE d == state.pending.doc
               w == [doc |-> d, rev |-> revision[d], by |-> state.pending]
    <2>1. /\ state.phase = "Saving" /\ state.pending.kind = "Save" /\ ~ Answered(state.pending)
          /\ d \in Open \ loading /\ DirtyRevision(d) = state.pending.rev /\ ~ BeingSaved(d)
          /\ writing' = writing \cup {w}
          /\ UNCHANGED <<vars, tabs, loading, revision, saved, untitled>>
      BY <1>7 DEF StartPendingSave, PendingSave, documentVars
    <2>2. state.pending.rev # Clean
      BY <2>1 DEF WindowInv, AllInv, TypeInv, SavingInside, EarnedInv, DirtyPositions
    <2>3. DirtyDoc(d) /\ revision[d] = state.pending.rev
      BY <2>1, <2>2 DEF DirtyRevision
    <2>4. d \in Documents
      BY <1>1, <2>1 DEF WorkspaceTypeOK, Open
    <2>5. w.doc = d /\ w.rev = revision[d] /\ w.by = state.pending
      OBVIOUS
    <2> HIDE DEF d, w
    <2>6. OwnedWrite(w)
      BY <2>1, <2>3, <2>5 DEF OwnedWrite, d
    <2>7. QED
      BY <1>4, <2>1, <2>3, <2>4, <2>5, <2>6
  <1>8. ASSUME NEW w \in writing, NEW outcome,
               OrdinarySaveEnds(w, outcome) \/ PendingSaveEnds(w, outcome)
        PROVE  WritersInv'
    <2>1. ApplySave(w, outcome) /\ UNCHANGED <<tabs, loading, revision>>
      BY <1>8 DEF OrdinarySaveEnds, PendingSaveEnds
    <2>2. /\ writing' = writing \ {w}
          /\ \A v \in writing' : /\ v \in writing /\ v.doc \in Documents /\ v.doc # w.doc
                                 /\ saved'[v.doc] = saved[v.doc]
                                 /\ v.doc \in untitled' <=> v.doc \in untitled
      BY <1>1, <2>1, ApplySaveIs DEF WritersInv, OneWriterPerDocument
    <2>3. ASSUME NEW v \in writing', v.by # NoOne
          PROVE  OwnedWrite(v)'
      <3>1. OwnedWrite(v)
        BY <1>1, <2>2, <2>3 DEF WritersInv
      <3>2. CASE OrdinarySaveEnds(w, outcome)
        BY <1>3, <3>1, <3>2 DEF OrdinarySaveEnds
      <3>3. CASE PendingSaveEnds(w, outcome)
        <4>1. w.by # NoOne
          BY <3>3 DEF PendingSaveEnds
        <4>2. w.by.doc = w.doc /\ v.by.doc = v.doc /\ w.by = v.by
          BY <1>1, <3>1, <4>1 DEF WritersInv, OwnedWrite
        <4>3. QED
          BY <2>2, <4>2
      <3>4. QED
        BY <1>8, <3>2, <3>3
    <2>4. QED
      BY <1>1, <2>1, <2>2, <2>3 DEF WritersInv, OneWriterPerDocument, DirtyDoc
  <1>9. ASSUME NEW token, ReleaseDocument(token)
        PROVE  WritersInv'
    <2>1. /\ state.phase # "Saving" /\ UNCHANGED <<revision, saved, untitled, writing>>
      BY <1>9 DEF ReleaseDocument
    <2>2. QED
      BY <1>1, <1>2, <2>1 DEF WritersInv, OwnedWrite
  <1>10. CASE CoordinatorStep
    BY <1>1, <1>2, <1>10, CoordinatorStepFrame, OwnedWriteStays DEF WritersInv, documentVars
  <1>11. QED
    BY <1>5, <1>6, <1>7, <1>8, <1>9, <1>10, WorkspaceCases

-----------------------------------------------------------------------------
(* The sheet, and what is on disk.                                         *)

\* A sheet is put up by the step that ends its transaction, and taken down by the
\* one that starts or resumes a transaction.
LEMMA SheetStep ==
    ASSUME WindowInv, [WorkspaceNext]_allVars
    PROVE  SheetInv'
  <1>1. /\ WorkspaceTypeOK /\ SheetInv /\ state \in States
        /\ alert # None => state = Idle /\ ~ following
    BY DEF WindowInv, SheetInv, AlertCanBeResumed, AllInv, TypeInv, TypeOK, States
  <1>2. Idle.phase = "Idle"
    BY DEF Idle
  <1>3. ASSUME UNCHANGED <<state, recoverable, alert, following>>
        PROVE  SheetInv'
    BY <1>1, <1>3 DEF SheetInv, AlertCanBeResumed
  <1>4. ASSUME alert' = None, ~ following'
        PROVE  SheetInv'
    BY <1>4 DEF SheetInv, AlertCanBeResumed
  <1>5. ASSUME NEW kind \in AlertKinds \ {"SessionCheckpointFailed"}, NEW tx, NEW d, NEW n,
               alert' = Alert(kind, tx, d, n), state' = Idle, ~ following'
        PROVE  SheetInv'
    BY <1>5 DEF SheetInv, AlertCanBeResumed, Alert, AlertKinds
  <1>6. CASE \/ \E d \in Documents : Apart(d)
             \/ DismissRecovery \/ StartPendingSave \/ UNCHANGED allVars
             \/ \E w \in writing : \E outcome \in Outcomes("Save") : OrdinarySaveEnds(w, outcome)
             \/ \E w \in writing : \E outcome \in Outcomes("Save") : PendingSaveEnds(w, outcome)
             \/ \E token \in issued : ReleaseDocument(token)
    <2>1. CASE DismissRecovery
      BY <1>1, <1>4, <2>1 DEF DismissRecovery
    <2>2. CASE ~ DismissRecovery
      <3>1. UNCHANGED <<state, recoverable, alert, following>>
        BY <1>6, <2>2
        DEF Apart, Edit, BeginSave, OpenFile, FileLoaded, AttachDocument, OrdinarySaveEnds,
            StartPendingSave, PendingSaveEnds, ReleaseDocument, Answer, allVars, vars,
            coordinatorVars, workspaceVars
      <3>2. QED
        BY <1>3, <3>1
    <2>3. QED
      BY <2>1, <2>2
  <1>7. CASE CoordinatorStep
    <2>1. ASSUME NEW warned, StartClose(warned), state = Idle,
                 following' => state'.phase = "AwaitingDecision"
          PROVE  SheetInv'
      <3>1. CASE RequestClose(CapturedSnapshot) /\ alert' = None
        BY <2>1, <3>1 DEF SheetInv, AlertCanBeResumed
      <3>2. CASE /\ UNCHANGED vars
                 /\ \E d \in Open : alert' = Alert("PublishedWithWarning", 0, d, warned[d])
        <4>1. state' = Idle /\ ~ following'
          BY <1>2, <2>1, <3>2 DEF vars, coordinatorVars
        <4>2. QED
          BY <1>5, <3>2, <4>1 DEF AlertKinds
      <3>3. QED
        BY <1>1, <2>1, <3>1, <3>2, StartCloseIs
    <2>2. CASE RequestWindowClose
      <3>1. ~ following
        BY <1>2, <2>2 DEF RequestWindowClose, Settled, CommandDue
      <3>2. QED
        BY <2>1, <2>2, <3>1 DEF RequestWindowClose
    <2>3. CASE ResumeClose
      BY <2>1, <2>3 DEF ResumeClose
    <2>4. CASE ChooseInDialog \/ FollowWithSaveAll
      <3>1. state.phase = "AwaitingDecision"
        BY <2>4 DEF ChooseInDialog, FollowWithSaveAll, Choose, ChooseCancel, ChooseDiscardAll,
                    ChooseSaveAll
      <3>2. alert = None /\ alert' = alert
        BY <1>1, <1>2, <2>4, <3>1 DEF ChooseInDialog, FollowWithSaveAll, workspaceVars
      <3>3. ~ following'
        BY <2>4 DEF ChooseInDialog, FollowWithSaveAll, workspaceVars, Settled, CommandDue
      <3>4. QED
        BY <1>4, <3>2, <3>3
    <2>5. CASE ResumeCheckpoint
      <3>1. alert' = None /\ following' = following /\ ~ following
        BY <2>5 DEF ResumeCheckpoint, Settled, CommandDue
      <3>2. QED
        BY <1>4, <3>1
    <2>6. CASE \/ RejectPendingSave
               \/ \E outcome \in Outcomes("SaveAs") : PickerCloses(outcome)
               \/ \E ok \in BOOLEAN : PublishSessionCheckpoint(ok)
      BY <1>3, <2>6 DEF RejectPendingSave, PickerCloses, PublishSessionCheckpoint, Answer,
                        PublishCheckpoint, coordinatorVars, workspaceVars
    <2>7. ASSUME NEW a \in answers, ApplySaveTransition(a) \/ ApplyReleaseTransition(a)
          PROVE  SheetInv'
      <3>1. state.phase \in {"Saving", "Releasing"} /\ following' = following
        BY <2>7 DEF ApplySaveTransition, ApplyReleaseTransition, HandleSaveAsSelected,
           HandleSaved, HandleSaveInterrupted, HandleReleased, HandleReleaseFailed, Expected
      <3>2. alert = None /\ ~ following'
        BY <1>1, <1>2, <3>1 DEF SheetInv
      <3>3. CASE alert' = alert
        BY <1>4, <3>2, <3>3
      <3>4. CASE HandleSaveInterrupted(a) \/ HandleReleaseFailed(a)
        <4>1. state' = Idle
          BY <3>4 DEF HandleSaveInterrupted, HandleReleaseFailed, Interrupt
        <4>2. \/ alert' = alert
              \/ alert' = Alert("PublishedWithWarning", a.token.tx, a.token.doc,
                                warning[a.token.doc])
              \/ alert' = Alert("SaveFailed", a.token.tx, a.token.doc, 0)
              \/ alert' = Alert("ReleaseFailed", a.token.tx, a.token.doc, 0)
          BY <2>7 DEF ApplySaveTransition, ApplyReleaseTransition
        <4>3. QED
          BY <1>5, <3>2, <3>3, <4>1, <4>2 DEF AlertKinds
      <3>5. QED
        BY <2>7, <3>3, <3>4 DEF ApplySaveTransition, ApplyReleaseTransition
    <2>8. ASSUME NEW c \in checkpoints, ApplyCheckpointTransition(c)
          PROVE  SheetInv'
      <3>1. state.phase = "Checkpointing" /\ following' = following
        BY <2>8 DEF ApplyCheckpointTransition, HandleCheckpointPublished, HandleCheckpointFailed
      <3>2. alert = None /\ ~ following'
        BY <1>1, <1>2, <3>1 DEF SheetInv
      <3>3. CASE alert' = alert
        BY <1>4, <3>2, <3>3
      <3>4. CASE HandleCheckpointFailed(c) /\ alert' = Alert("SessionCheckpointFailed", c.tx, 0, 0)
        <4>1. state' = Idle /\ recoverable' = state /\ state.tx = c.tx /\ state # None
          BY <1>1, <3>4, NotNone DEF HandleCheckpointFailed, Interrupt
        <4>2. alert'.kind = "SessionCheckpointFailed" /\ alert'.tx = c.tx
          BY <3>4 DEF Alert
        <4>3. QED
          BY <3>2, <4>1, <4>2 DEF SheetInv, AlertCanBeResumed
      <3>5. QED
        BY <2>8, <3>3, <3>4 DEF ApplyCheckpointTransition
    <2>9. QED
      BY <1>7, <2>2, <2>3, <2>4, <2>5, <2>6, <2>7, <2>8 DEF CoordinatorStep
  <1>8. QED
    BY <1>6, <1>7, WorkspaceCases

\* The outcomes that a request can be answered with.
LEMMA AnsweredWith ==
    ASSUME WindowInv, CoordinatorStep \/ \E token \in issued : ReleaseDocument(token)
    PROVE  \A a \in answers' \ answers : a.outcome # "Saved"
  <1>1. ASSUME NEW token, NEW outcome, Answer(token, outcome)
        PROVE  answers' \subseteq answers \cup {[token |-> token, outcome |-> outcome]}
    BY <1>1 DEF Answer
  <1>2. CASE \E token \in issued : ReleaseDocument(token)
    <2>1. \E token : Answer(token, "Released") \/ Answer(token, "ReleaseFailed")
      BY <1>2 DEF ReleaseDocument
    <2>2. QED
      BY <1>1, <2>1
  <1>3. CASE RejectPendingSave
    BY <1>1, <1>3 DEF RejectPendingSave
  <1>4. ASSUME NEW outcome \in Outcomes("SaveAs"), PickerCloses(outcome)
        PROVE  \A a \in answers' \ answers : a.outcome # "Saved"
    BY <1>1, <1>4 DEF PickerCloses, Outcomes
  <1>5. CASE RequestWindowClose \/ ResumeClose
    <2>1. answers' = answers
      BY <1>5, StartCloseIs, SMTT(30) DEF RequestWindowClose, ResumeClose, RequestClose,
         StartCheckpoint, vars, adapterVars, WindowInv
    <2>2. QED
      BY <2>1
  <1>6. CASE \/ ChooseInDialog \/ FollowWithSaveAll \/ ResumeCheckpoint
             \/ \E ok \in BOOLEAN : PublishSessionCheckpoint(ok)
             \/ \E a \in answers : ApplySaveTransition(a) \/ ApplyReleaseTransition(a)
             \/ \E c \in checkpoints : ApplyCheckpointTransition(c)
    <2>1. answers' = answers
      BY <1>6 DEF ChooseInDialog, FollowWithSaveAll, ResumeCheckpoint, PublishSessionCheckpoint,
         ApplySaveTransition, ApplyReleaseTransition, ApplyCheckpointTransition, Choose,
         ChooseCancel, ChooseDiscardAll, ChooseSaveAll, RequestSave, StartCheckpoint, Interrupt,
         RetrySessionCheckpoint, PublishCheckpoint, HandleSaveAsSelected, HandleSaved,
         HandleSaveInterrupted, HandleReleased, HandleReleaseFailed, HandleCheckpointPublished,
         HandleCheckpointFailed
    <2>2. QED
      BY <2>1
  <1>7. QED
    BY <1>2, <1>3, <1>4, <1>5, <1>6 DEF CoordinatorStep

\* What was reported as saved stays in its file.
LEMMA OnDiskStep ==
    ASSUME WindowInv, WorkspaceTypeOK', [WorkspaceNext]_allVars
    PROVE  OnDisk'
  <1>1. /\ WorkspaceTypeOK /\ OnDisk /\ WritersInv
        /\ saved \in [Documents -> 1 .. MaxRevision] /\ MaxRevision \in Nat
        /\ saved' \in [Documents -> 1 .. MaxRevision]
        /\ \A a \in answers : a.token.doc \in Documents /\ a.token.rev \in Nat
    BY WorkspaceAssumption
    DEF WindowInv, WorkspaceTypeOK, AllInv, TypeInv, TypeOK, Tokens
  <1>2. ASSUME \A d \in Documents : saved[d] <= saved'[d],
               \A a \in answers' \ answers : a.outcome # "Saved"
        PROVE  OnDisk'
    <2>1. ASSUME NEW a \in answers', a.outcome = "Saved"
          PROVE  a.token.kind = "Save" /\ saved'[a.token.doc] >= a.token.rev
      <3>1. a \in answers
        BY <1>2, <2>1
      <3>2. a.token.kind = "Save" /\ saved[a.token.doc] >= a.token.rev
        BY <1>1, <2>1, <3>1 DEF OnDisk
      <3>3. QED
        BY <1>1, <1>2, <3>1, <3>2
    <2>2. QED
      BY <2>1 DEF OnDisk
  <1>3. \A d \in Documents : saved[d] <= saved[d]
    BY <1>1
  <1>4. CASE (\E d \in Documents : Apart(d)) \/ DismissRecovery \/ StartPendingSave
             \/ UNCHANGED allVars
    <2>1. UNCHANGED <<saved, answers>>
      BY <1>4 DEF Apart, Edit, BeginSave, OpenFile, FileLoaded, AttachDocument, DismissRecovery,
         StartPendingSave, allVars, vars, adapterVars, workspaceVars, documentVars
    <2>2. QED
      BY <1>2, <1>3, <2>1
  <1>5. CASE CoordinatorStep
    BY <1>2, <1>3, <1>5, CoordinatorStepFrame, AnsweredWith DEF documentVars
  <1>6. ASSUME NEW token \in issued, ReleaseDocument(token)
        PROVE  OnDisk'
    BY <1>2, <1>3, <1>6, AnsweredWith DEF ReleaseDocument
  <1>7. ASSUME NEW w \in writing, NEW outcome, ApplySave(w, outcome)
        PROVE  \A d \in Documents : saved[d] <= saved'[d]
    <2>1. saved[w.doc] <= w.rev
      BY <1>1 DEF WritersInv
    <2>2. QED
      BY <1>1, <1>3, <1>7, <2>1, ApplySaveIs
  <1>8. ASSUME NEW w \in writing, NEW outcome, OrdinarySaveEnds(w, outcome)
        PROVE  OnDisk'
    BY <1>2, <1>7, <1>8 DEF OrdinarySaveEnds, vars, adapterVars
  <1>9. ASSUME NEW w \in writing, NEW outcome, PendingSaveEnds(w, outcome)
        PROVE  OnDisk'
    <2>1. /\ ApplySave(w, outcome) /\ w.by # NoOne
          /\ answers' = answers \cup {[token |-> w.by, outcome |-> WrittenOutcome(w, outcome)]}
      BY <1>9 DEF PendingSaveEnds, Answer
    <2>2. w.by.kind = "Save" /\ w.by.doc = w.doc /\ w.by.rev = w.rev
      BY <1>1, <2>1 DEF WritersInv, OwnedWrite
    <2>3. CASE WrittenOutcome(w, outcome) # "Saved"
      BY <1>2, <1>7, <2>1, <2>3
    <2>4. CASE WrittenOutcome(w, outcome) = "Saved"
      <3>1. outcome = "Saved" /\ w.doc \in Open
        BY <2>4 DEF WrittenOutcome
      <3>2. saved'[w.doc] = w.rev /\ w.doc \in Documents /\ w.rev \in 1 .. MaxRevision
        BY <1>1, <2>1, <3>1, ApplySaveIs
      <3>3. ASSUME NEW a \in answers', a.outcome = "Saved"
            PROVE  a.token.kind = "Save" /\ saved'[a.token.doc] >= a.token.rev
        <4>1. CASE a \in answers
          <5>1. a.token.kind = "Save" /\ saved[a.token.doc] >= a.token.rev
            BY <1>1, <3>3, <4>1 DEF OnDisk
          <5>2. QED
            BY <1>1, <1>7, <2>1, <4>1, <5>1
        <4>2. CASE a.token = w.by
          BY <1>1, <2>2, <3>2, <4>2
        <4>3. QED
          BY <2>1, <4>1, <4>2
      <3>4. QED
        BY <3>3 DEF OnDisk
    <2>5. QED
      BY <2>3, <2>4
  <1>10. QED
    BY <1>4, <1>5, <1>6, <1>8, <1>9, WorkspaceCases

-----------------------------------------------------------------------------
(* What the dialog has shown.                                              *)

\* The close under way goes on with the documents it was asked for.
GoesOnAsAsked ==
    /\ state # Idle
    /\ state'.tx = state.tx /\ state'.snapshot = state.snapshot
    /\ state.phase = "Releasing" => state'.phase = "Releasing"

LEMMA CoordinatorGoesOn ==
    ASSUME AllInv,
           \/ Choose \/ \E ok : PublishCheckpoint(ok)
           \/ \E a \in answers : HandleResult(a)
           \/ \E c \in checkpoints : HandleCheckpoint(c)
    PROVE  UNCHANGED state \/ state' = Idle \/ GoesOnAsAsked
  <1>1. state \in States
    BY DEF AllInv, TypeInv, TypeOK, States
  <1>2. Idle.phase = "Idle"
    BY DEF Idle
  <1>3. CASE Choose
    BY <1>2, <1>3 DEF Choose, ChooseCancel, ChooseDiscardAll, ChooseSaveAll, Interrupt,
                      StartCheckpoint, RequestSave, GoesOnAsAsked
  <1>4. CASE \E ok : PublishCheckpoint(ok)
    BY <1>4 DEF PublishCheckpoint, coordinatorVars
  <1>5. ASSUME NEW a \in answers, HandleSaveAsSelected(a)
        PROVE  GoesOnAsAsked
    <2>1. state.phase = "Saving"
      BY <1>5 DEF HandleSaveAsSelected, Expected
    <2>2. state \in SavingStates
      BY <1>1, <2>1, Variants
    <2>3. PICK token : state' = [state EXCEPT !.pending = token]
      BY <1>5 DEF HandleSaveAsSelected
    <2>4. state'.tx = state.tx /\ state'.snapshot = state.snapshot
      BY <2>2, <2>3 DEF SavingStates
    <2>5. QED
      BY <1>2, <2>1, <2>4 DEF GoesOnAsAsked
  <1>6. ASSUME NEW a \in answers, HandleSaved(a)
        PROVE  GoesOnAsAsked
    BY <1>2, <1>6 DEF HandleSaved, Expected, RequestSave, StartCheckpoint, GoesOnAsAsked
  <1>7. ASSUME NEW a \in answers, HandleSaveInterrupted(a) \/ HandleReleaseFailed(a)
        PROVE  state' = Idle
    BY <1>7 DEF HandleSaveInterrupted, HandleReleaseFailed, Interrupt
  <1>8. ASSUME NEW a \in answers, HandleReleased(a)
        PROVE  state' = Idle \/ GoesOnAsAsked
    <2>1. state.phase = "Releasing"
      BY <1>8 DEF HandleReleased
    <2>2. state \in ReleasingStates
      BY <1>1, <2>1, Variants
    <2>3. PICK pending, released : \/ state' = Idle
                                   \/ state' = [state EXCEPT !.pending = pending,
                                                             !.released = released]
      BY <1>8 DEF HandleReleased, Complete
    <2>4. \/ state' = Idle
          \/ /\ state'.tx = state.tx /\ state'.snapshot = state.snapshot
             /\ state'.phase = state.phase
      BY <2>2, <2>3 DEF ReleasingStates
    <2>5. QED
      BY <1>2, <2>1, <2>4 DEF GoesOnAsAsked
  <1>9. ASSUME NEW c \in checkpoints, HandleCheckpoint(c)
        PROVE  state' = Idle \/ GoesOnAsAsked
    BY <1>2, <1>9 DEF HandleCheckpoint, HandleCheckpointPublished, HandleCheckpointFailed,
                      Interrupt, Complete, GoesOnAsAsked
  <1>10. QED
    BY <1>3, <1>4, <1>5, <1>6, <1>7, <1>8, <1>9 DEF HandleResult

\* Documents and answers as they were, and the same close or none.
LEMMA CoveredGoesOn ==
    ASSUME WindowInv, UNCHANGED <<tabs, documentVars, resumed>>,
           \A a \in answers' \ answers : a.outcome # "Saved",
           UNCHANGED state \/ state' = Idle \/ GoesOnAsAsked
    PROVE  CoveredInv'
  <1>1. CASE state' = Idle
    BY <1>1 DEF CoveredInv
  <1>2. CASE UNCHANGED state
    BY <1>2 DEF WindowInv, CoveredInv, Shown, SavedForGood, DirtyDoc, Open, documentVars
  <1>3. CASE GoesOnAsAsked
    BY <1>3 DEF GoesOnAsAsked, WindowInv, CoveredInv, Shown, SavedForGood, DirtyDoc, Open,
                documentVars
  <1>4. QED
    BY <1>1, <1>2, <1>3

\* A new close shows the window as it is, and nothing is saved for it yet.
LEMMA CoveredByRequest ==
    ASSUME WindowInv, RequestClose(CapturedSnapshot), UNCHANGED <<tabs, documentVars>>
    PROVE  CoveredInv'
  <1>s. PICK s : s = CapturedSnapshot
    OBVIOUS
  <1>1. /\ state'.tx = nextTransaction + 1 /\ state'.snapshot = s /\ answers' = answers
        /\ state'.phase # "Releasing"
    BY <1>s DEF RequestClose, StartCheckpoint, adapterVars
  <1>2. \A i \in DOMAIN s : /\ s[i].id \in Open
                            /\ DirtyDoc(s[i].id) => s[i].dirty = revision[s[i].id]
    BY <1>s, CapturedIs DEF WindowInv
  <1>3. \A a \in answers : a.token.tx # nextTransaction + 1
    <2>1. \A a \in answers : a.token.tx \in Nat /\ a.token.tx <= nextTransaction
      BY DEF WindowInv, AllInv, TypeInv, TypeOK, Tokens, LiveInv, ContractInv, AnswersToRequests
    <2>2. nextTransaction \in Nat
      BY DEF WindowInv, AllInv, TypeInv, TypeOK
    <2>3. QED
      BY <2>1, <2>2
  <1>4. \A i \in DOMAIN s : s[i].id \in Open' /\ (DirtyDoc(s[i].id)' => s[i].dirty = revision'[s[i].id])
    BY <1>2 DEF DirtyDoc, Open, documentVars
  <1>5. QED
    BY <1>1, <1>3, <1>4 DEF CoveredInv, Shown

\* No step takes a document of the close's snapshot beyond what was shown.
LEMMA CoveredStep ==
    ASSUME WindowInv, WorkspaceTypeOK', [WorkspaceNext]_allVars
    PROVE  CoveredInv'
  <1>1. /\ AllInv /\ WorkspaceTypeOK /\ TabsInv /\ WritersInv /\ CoveredInv
        /\ revision \in [Documents -> 1 .. MaxRevision]
        /\ saved \in [Documents -> 1 .. MaxRevision] /\ MaxRevision \in Nat
        /\ \A d \in Documents : saved[d] <= revision[d]
        /\ loading \subseteq Open /\ \A d \in loading : revision[d] = 1
        /\ \A w \in writing : DirtyDoc(w.doc) /\ w.doc \in Documents
        /\ \A a \in answers : a.token.doc \in Documents
    BY WorkspaceAssumption
    DEF WindowInv, WorkspaceTypeOK, TabsInv, WritersInv, AllInv, TypeInv, TypeOK, Tokens
  <1>2. ASSUME state # Idle
        PROVE  \A i \in DOMAIN state.snapshot : state.snapshot[i].id \in Documents
    <2>1. state.snapshot \in ValidSnapshots
      BY <1>1, <1>2, CurrentIs DEF AllInv
    <2>2. \A i \in DOMAIN state.snapshot : state.snapshot[i] \in Entries
      BY <2>1 DEF ValidSnapshots
    <2>3. QED
      BY <2>2 DEF Entries
  <1>3. CASE UNCHANGED <<state, answers, tabs, documentVars, resumed>>
    BY <1>3, CoveredGoesOn
  <1>4. CASE state' = Idle
    BY <1>4 DEF CoveredInv
  <1>5. ASSUME NEW d \in Documents, Apart(d)
        PROVE  CoveredInv'
    <2>1. UNCHANGED <<state, answers, saved, untitled, resumed>>
      BY <1>5 DEF Apart, Edit, BeginSave, OpenFile, FileLoaded, AttachDocument, documentVars, vars,
                  coordinatorVars, adapterVars
    <2>2. CASE Edit(d) \/ BeginSave(d)
      BY <1>4, <2>1, <2>2 DEF Edit, BeginSave, Editable
    <2>3. Settled /\ (OpenFile(d) \/ FileLoaded(d) \/ AttachDocument(d)) => state.phase # "Releasing"
      BY DEF Settled, CommandDue
    <2>4. CASE OpenFile(d)
      <3>1. /\ d \in Documents \ Open /\ tabs' = Append(tabs, d) /\ revision' = revision
            /\ loading' = loading \cup {d} /\ state.phase # "Releasing"
        BY <2>3, <2>4 DEF OpenFile
      <3>2. Open' = Open \cup {d}
        BY <1>1, <3>1, WithDocument
      <3>3. QED
        BY <1>1, <2>1, <3>1, <3>2 DEF CoveredInv, Shown, SavedForGood, DirtyDoc
    <2>5. CASE FileLoaded(d)
      <3>1. /\ tabs' = tabs /\ d \in loading /\ loading' = loading \ {d}
            /\ revision' = [revision EXCEPT ![d] = IF d \in Recovered THEN 2 ELSE 1]
            /\ revision[d] = 1
        BY <1>1, <2>5 DEF FileLoaded
      <3>2. /\ \A e \in Documents \ Recovered : revision'[e] = revision[e]
            /\ \A e \in Documents \ {d} : revision'[e] = revision[e]
        BY <1>1, <3>1
      <3>3. Open' = Open
        BY <3>1 DEF Open
      <3>4. QED
        BY <1>1, <1>2, <2>1, <3>1, <3>2, <3>3 DEF CoveredInv, Shown, SavedForGood, DirtyDoc
    <2>6. CASE AttachDocument(d)
      <3>1. /\ d \in Documents \ Open /\ tabs' = Append(tabs, d) /\ loading' = loading
            /\ revision' = [revision EXCEPT ![d] = 2] /\ state.phase # "Releasing"
        BY <2>3, <2>6 DEF AttachDocument
      <3>2. Open' = Open \cup {d}
        BY <1>1, <3>1, WithDocument
      <3>3. \A e \in Documents \ {d} : revision'[e] = revision[e]
        BY <1>1, <3>1
      <3>4. QED
        BY <1>1, <1>2, <2>1, <3>1, <3>2, <3>3 DEF CoveredInv, Shown, SavedForGood, DirtyDoc
    <2>7. QED
      BY <1>5, <2>2, <2>4, <2>5, <2>6 DEF Apart
  <1>6. CASE DismissRecovery \/ StartPendingSave \/ UNCHANGED allVars
    BY <1>3, <1>6 DEF DismissRecovery, StartPendingSave, allVars, vars, coordinatorVars, adapterVars,
                      workspaceVars
  <1>7. ASSUME NEW w \in writing, NEW outcome,
               OrdinarySaveEnds(w, outcome) \/ PendingSaveEnds(w, outcome)
        PROVE  CoveredInv'
    <2>1. ApplySave(w, outcome) /\ UNCHANGED <<state, tabs, loading, revision, resumed>>
      BY <1>7 DEF OrdinarySaveEnds, PendingSaveEnds, Answer, vars, coordinatorVars
    <2>2. /\ w.doc \in Documents /\ DirtyDoc(w.doc)
          /\ \A d \in Documents : d # w.doc => (DirtyDoc(d)' <=> DirtyDoc(d))
      BY <1>1, <2>1, ApplySaveIs DEF DirtyDoc
    <2>3. Open' = Open
      BY <2>1 DEF Open
    <2> SUFFICES ASSUME state # Idle, state.tx \notin resumed
                 PROVE  /\ \A i \in DOMAIN state.snapshot : Shown(state.snapshot[i])'
                        /\ \A a \in answers' : a.token.tx = state.tx /\ a.outcome = "Saved" =>
                              SavedForGood(a)'
      BY <2>1 DEF CoveredInv
    <2>4. \A i \in DOMAIN state.snapshot : Shown(state.snapshot[i])'
      BY <1>1, <1>2, <2>1, <2>2, <2>3 DEF CoveredInv, Shown
    <2>5. \A a \in answers : a.token.tx = state.tx /\ a.outcome = "Saved" => SavedForGood(a)'
      BY <1>1, <2>1, <2>2, <2>3 DEF CoveredInv, SavedForGood
    <2>6. CASE OrdinarySaveEnds(w, outcome)
      BY <2>4, <2>5, <2>6 DEF OrdinarySaveEnds, vars, adapterVars
    <2>7. CASE PendingSaveEnds(w, outcome)
      <3>n. PICK new : new = [token |-> w.by, outcome |-> WrittenOutcome(w, outcome)]
        OBVIOUS
      <3>1. w.by # NoOne /\ answers' = answers \cup {new}
        BY <2>7, <3>n DEF PendingSaveEnds, Answer
      <3>2. w.by.doc = w.doc /\ w.doc \in Open \ loading
        BY <1>1, <3>1 DEF WritersInv, OwnedWrite
      <3>3. new.token = w.by /\ new.outcome = WrittenOutcome(w, outcome)
        BY <3>n
      <3>4. ASSUME new.outcome = "Saved"
            PROVE  SavedForGood(new)'
        <4>1. outcome = "Saved" /\ w.doc \in Open /\ revision[w.doc] = w.rev
          BY <3>3, <3>4 DEF WrittenOutcome
        <4>2. ~ DirtyDoc(w.doc)'
          BY <2>1, <4>1, ApplySaveIs, <1>1 DEF DirtyDoc
        <4>3. QED
          BY <2>1, <2>3, <3>2, <3>3, <4>2 DEF SavedForGood
      <3>5. QED
        BY <2>4, <2>5, <3>1, <3>4
    <2>8. QED
      BY <1>7, <2>6, <2>7
  <1>8. ASSUME NEW token \in issued, ReleaseDocument(token)
        PROVE  CoveredInv'
    <2>1. /\ state.phase = "Releasing"
          /\ UNCHANGED <<state, revision, saved, untitled, resumed>>
      BY <1>8 DEF ReleaseDocument, Answer, coordinatorVars
    <2>2. loading' \subseteq loading
      BY <1>8 DEF ReleaseDocument
    <2>3. \A a \in answers' \ answers : a.outcome # "Saved"
      BY <1>8, AnsweredWith
    <2>4. QED
      BY <1>1, <2>1, <2>2, <2>3 DEF CoveredInv, Shown, SavedForGood, DirtyDoc
  <1>9. CASE CoordinatorStep
    <2>1. UNCHANGED <<tabs, documentVars>> /\ \A a \in answers' \ answers : a.outcome # "Saved"
      BY <1>9, CoordinatorStepFrame, AnsweredWith
    <2>2. ASSUME NEW warned, StartClose(warned), resumed' = resumed
          PROVE  CoveredInv'
      <3>1. CASE UNCHANGED vars
        BY <1>3, <2>1, <2>2, <3>1 DEF vars, coordinatorVars, adapterVars
      <3>2. QED
        BY <1>1, <2>1, <2>2, <3>1, StartCloseIs, CoveredByRequest
    <2>3. CASE RequestWindowClose \/ ResumeClose
      BY <2>2, <2>3 DEF RequestWindowClose, ResumeClose
    <2>4. CASE ResumeCheckpoint
      <3>1. state'.tx \in resumed'
        BY <2>4 DEF ResumeCheckpoint, RetrySessionCheckpoint
      <3>2. QED
        BY <3>1 DEF CoveredInv
    <2>5. CASE ~ (RequestWindowClose \/ ResumeClose \/ ResumeCheckpoint)
      <3>1. resumed' = resumed
        BY <1>9, <2>5
        DEF CoordinatorStep, ChooseInDialog, FollowWithSaveAll, RejectPendingSave, PickerCloses,
            PublishSessionCheckpoint, ApplySaveTransition, ApplyReleaseTransition,
            ApplyCheckpointTransition, workspaceVars
      <3>2. \/ \E token, outcome : Answer(token, outcome)
            \/ Choose \/ \E ok : PublishCheckpoint(ok)
            \/ \E a \in answers : HandleResult(a)
            \/ \E c \in checkpoints : HandleCheckpoint(c)
        BY <1>9, <2>5
        DEF CoordinatorStep, ChooseInDialog, FollowWithSaveAll, RejectPendingSave, PickerCloses,
            PublishSessionCheckpoint, ApplySaveTransition, ApplyReleaseTransition,
            ApplyCheckpointTransition, Choose, HandleResult, HandleCheckpoint
      <3>3. UNCHANGED state \/ state' = Idle \/ GoesOnAsAsked
        BY <1>1, <3>2, CoordinatorGoesOn DEF Answer, coordinatorVars
      <3>4. QED
        BY <2>1, <3>1, <3>3, CoveredGoesOn
    <2>6. QED
      BY <2>3, <2>4, <2>5
  <1>10. QED
    BY <1>5, <1>6, <1>7, <1>8, <1>9, WorkspaceCases

-----------------------------------------------------------------------------
(* The window's theorems.                                                  *)

LEMMA WindowInit == WorkspaceInit => WindowInv
  <1> SUFFICES ASSUME WorkspaceInit PROVE WindowInv
    OBVIOUS
  <1>1. /\ Init /\ AllInv
        /\ tabs = OpenAtStart /\ loading = Open /\ untitled = Generated
        /\ revision = [d \in Documents |-> 1] /\ saved = [d \in Documents |-> 1]
        /\ warning = [d \in Documents |-> 0] /\ writing = {} /\ alert = None
        /\ following = FALSE /\ resumed = {} /\ state = Idle /\ answers = {}
    BY InitMaps DEF WorkspaceInit, Init
  <1>2. Open \subseteq Documents
    BY <1>1, WorkspaceAssumption DEF Open
  <1>t. MaxRevision \in Nat \ {0} /\ 1 \in 1 .. MaxRevision /\ 0 \in 0 .. MaxRevision
    BY WorkspaceAssumption
  <1>f. /\ [d \in Documents |-> 1] \in [Documents -> 1 .. MaxRevision]
        /\ [d \in Documents |-> 0] \in [Documents -> 0 .. MaxRevision]
    BY <1>t
  <1>o. OpenAtStart \in Seq(Documents) /\ Generated \subseteq Documents
    BY WorkspaceAssumption
  <1>3. WorkspaceTypeOK
    BY <1>1, <1>2, <1>f, <1>o DEF WorkspaceTypeOK, AllInv, TypeInv
  <1>4. TabsInv
    BY <1>1, <1>2, WorkspaceAssumption DEF TabsInv
  <1>c. OnDisk
    BY <1>1 DEF OnDisk
  <1>5. WritersInv
    BY <1>1 DEF WritersInv, OneWriterPerDocument
  <1>a. SheetInv
    BY <1>1 DEF SheetInv, AlertCanBeResumed
  <1>b. CoveredInv
    BY <1>1 DEF CoveredInv
  <1>6. QED
    BY <1>1, <1>3, <1>4, <1>5, <1>a, <1>b, <1>c DEF WindowInv

LEMMA WindowStep == WindowInv /\ [WorkspaceNext]_allVars => WindowInv'
  <1> SUFFICES ASSUME WindowInv, [WorkspaceNext]_allVars PROVE WindowInv'
    OBVIOUS
  <1>1. AllInv /\ WorkspaceTypeOK /\ TabsInv
    BY DEF WindowInv
  <1>2. AllInv' /\ TypeOK'
    BY <1>1, WorkspaceIsAny, StepMaps DEF AllInv, TypeInv
  <1>3. WorkspaceTypeOK'
    BY <1>1, <1>2, WorkspaceTypeStep
  <1>4. QED
    BY <1>2, <1>3, TabsStep, WritersStep, SheetStep, OnDiskStep, CoveredStep DEF WindowInv

\* For any documents and revisions, whichever of them are untitled, recovered or
\* still loading: the window's state has its shape, and a document is never
\* written by two saves at once.
THEOREM OneWriterAtATime == WorkspaceSpec => []WorkspaceInv
  <1>1. WindowInv => WorkspaceInv
    BY DEF WindowInv, WritersInv, WorkspaceInv
  <1>2. QED
    BY <1>1, WindowInit, WindowStep, PTL DEF WorkspaceSpec

\* The adapter of application_close_workspace.rs, over documents that live on, is one
\* of those the coordinator was proved with: with it, too, the coordinator
\* implements CloseContract.
THEOREM WindowImplementsContract == WorkspaceSpec => ImplementsContract
  <1>1. WorkspaceInit => Contract!Init
    BY InitMaps DEF WorkspaceInit
  <1>2. WindowInv /\ [WorkspaceNext]_allVars => [Contract!Next]_Contract!vars
    BY WorkspaceIsAny, StepMaps DEF WindowInv
  <1>3. QED
    BY <1>1, <1>2, WindowInit, WindowStep, PTL DEF WorkspaceSpec, ImplementsContract, Contract!Spec

\* "Try again" on a failed checkpoint always finds its transaction, since a sheet
\* is up only while the coordinator rests.
THEOREM TryAgainFindsItsClose == WorkspaceSpec => []AlertCanBeResumed
  <1>1. WindowInv => AlertCanBeResumed
    BY DEF WindowInv, SheetInv
  <1>2. QED
    BY <1>1, WindowInit, WindowStep, PTL DEF WorkspaceSpec

\* A confirmation is made by the last result of a transaction that has decided.
LEMMA ConfirmedBy ==
    ASSUME WindowInv, [WorkspaceNext]_allVars, WindowOpen, ~ WindowOpen'
    PROVE  /\ state.phase \in {"Checkpointing", "Releasing"}
           /\ lastCompletion'.kind = state.kind
  <1>1. AnyNext /\ lastCompletion' # lastCompletion /\ lastCompletion' # None
    BY WorkspaceIsAny DEF WindowInv, WindowOpen, vars, coordinatorVars
  <1>2. ~ \E snapshot \in ValidSnapshots : RequestClose(snapshot)
    BY <1>1 DEF RequestClose
  <1>3. ~ (Choose \/ (\E ok \in BOOLEAN : PublishCheckpoint(ok))
                 \/ (\E tx \in Nat : RetrySessionCheckpoint(tx)))
    BY <1>1 DEF Choose, ChooseCancel, ChooseDiscardAll, ChooseSaveAll, Interrupt, PublishCheckpoint,
                RetrySessionCheckpoint, coordinatorVars
  <1>4. ~ \E token \in Waiting : \E outcome \in Outcomes(token.kind) : Answer(token, outcome)
    BY <1>1 DEF Answer, coordinatorVars
  <1>5. \/ \E a \in answers : HandleReleased(a)
        \/ \E c \in checkpoints : HandleCheckpointPublished(c)
    BY <1>1, <1>2, <1>3, <1>4
    DEF AnyNext, HandleResult, HandleCheckpoint, HandleSaveAsSelected, HandleSaved,
        HandleSaveInterrupted, HandleReleaseFailed, HandleCheckpointFailed, Interrupt
  <1>6. /\ state.phase \in {"Checkpointing", "Releasing"}
        /\ \E documents : Complete(documents)
    BY <1>1, <1>5 DEF HandleReleased, HandleCheckpointPublished
  <1>7. QED
    BY <1>6 DEF Complete

\* When the window closes as "saved all", the file of every document that was
\* dirty holds the revision the dialog asked about, or a later one.
THEOREM SavedAllReachesDisk == WorkspaceSpec => SavedAllIsOnDisk
  <1>1. ASSUME WindowInv, [WorkspaceNext]_allVars, WindowOpen, ~ WindowOpen',
               lastCompletion'.kind = "SavedAll", NEW i \in DirtyPositions(state.snapshot)
        PROVE  saved[state.snapshot[i].id] >= state.snapshot[i].dirty
    <2>1. state.phase \in {"Checkpointing", "Releasing"} /\ state.kind = "SavedAll"
      BY <1>1, ConfirmedBy
    <2>2. SavedByAdapter(state.tx, state.snapshot[i])
      BY <1>1, <2>1 DEF WindowInv, AllInv, EarnedInv, SavedAllIsEarned, EarnedBy
    <2>3. PICK a \in answers : /\ a.token.doc = state.snapshot[i].id
                               /\ a.token.rev = state.snapshot[i].dirty /\ a.outcome = "Saved"
      BY <2>2 DEF SavedByAdapter
    <2>4. saved[a.token.doc] >= a.token.rev
      BY <1>1, <2>3 DEF WindowInv, OnDisk
    <2>5. QED
      BY <2>3, <2>4
  <1>2. WindowInv /\ [WorkspaceNext]_allVars =>
           [WindowOpen /\ ~ WindowOpen' /\ lastCompletion'.kind = "SavedAll" =>
              \A i \in DirtyPositions(state.snapshot) :
                 saved[state.snapshot[i].id] >= state.snapshot[i].dirty]_allVars
    BY <1>1
  <1>3. QED
    BY <1>2, WindowInit, WindowStep, PTL DEF WorkspaceSpec, SavedAllIsOnDisk

\* Only the release of its document takes a tab away.
LEMMA ClosedBy ==
    ASSUME WindowInv, [WorkspaceNext]_allVars, NEW d \in Open \ Open'
    PROVE  state.phase = "Releasing" /\ \E token \in state.pending : token.doc = d
  <1>1. WorkspaceTypeOK /\ TabsInv /\ Open \subseteq Documents
    BY DEF WindowInv, WorkspaceTypeOK, Open
  <1>2. tabs' # tabs
    BY DEF Open
  <1>3. ASSUME NEW e \in Documents, Apart(e) PROVE FALSE
    <2>1. e \in Documents \ Open /\ tabs' = Append(tabs, e)
      BY <1>2, <1>3 DEF Apart, Edit, BeginSave, OpenFile, FileLoaded, AttachDocument
    <2>2. QED
      BY <1>1, <2>1, WithDocument
  <1>4. ~ (DismissRecovery \/ StartPendingSave \/ CoordinatorStep \/ UNCHANGED allVars)
    BY <1>2, CoordinatorStepFrame DEF DismissRecovery, StartPendingSave, allVars, workspaceVars
  <1>5. \A w \in writing : \A outcome :
           ~ OrdinarySaveEnds(w, outcome) /\ ~ PendingSaveEnds(w, outcome)
    BY <1>2 DEF OrdinarySaveEnds, PendingSaveEnds
  <1>6. PICK token \in issued : ReleaseDocument(token)
    BY <1>3, <1>4, <1>5, WorkspaceCases
  <1>7. /\ state.phase = "Releasing" /\ token \in state.pending
        /\ token.doc \in Open /\ tabs' = Without(token.doc)
    BY <1>2, <1>6 DEF ReleaseDocument, IsFirst
  <1>8. Open' = Open \ {token.doc}
    BY <1>1, <1>7, WithoutDocument
  <1>9. QED
    BY <1>7, <1>8

\* In a close that was not taken up again after a failed checkpoint, a document
\* that loaded without recovered edits is closed dirty only by a Discard All that
\* was asked about this very revision.
THEOREM FirstAttemptIsCovered == WorkspaceSpec => FirstAttemptCoversEdits
  <1>1. ASSUME WindowInv, [WorkspaceNext]_allVars, NEW d \in Open \ Open',
               DirtyDoc(d), d \notin Recovered, state.tx \notin resumed
        PROVE  DiscardDecided(d)
    <2>1. state.phase = "Releasing" /\ \E token \in state.pending : token.doc = d
      BY <1>1, ClosedBy
    <2>2. /\ state \in States /\ state # Idle /\ Current = state /\ Current # None
          /\ state \in ReleasingStates /\ Ending
      BY <1>1, <2>1, CurrentIs, Variants
      DEF WindowInv, AllInv, TypeInv, TypeOK, States, Idle, Ending
    <2>3. PICK i \in DOMAIN state.snapshot : state.snapshot[i].id = d
      BY <1>1, <2>1, <2>2 DEF WindowInv, AllInv, ContractInv, ReleasesInside, DocumentsOf
    <2>4. state.snapshot[i].dirty = revision[d] /\ DirtyRevision(d) = revision[d]
      BY <1>1, <2>2, <2>3 DEF WindowInv, CoveredInv, Shown, DirtyRevision
    <2>5. revision[d] # Clean
      <3>1. d \in Documents /\ revision \in [Documents -> 1 .. MaxRevision] /\ MaxRevision \in Nat
        BY <1>1, WorkspaceAssumption DEF WindowInv, WorkspaceTypeOK, Open
      <3>2. QED
        BY <3>1 DEF Clean
    <2>6. i \in DirtyPositions(state.snapshot)
      BY <2>4, <2>5 DEF DirtyPositions
    <2>7. state.kind # "NoDirtyDocuments"
      BY <1>1, <2>2, <2>6 DEF WindowInv, AllInv, ContractInv, Undecided
    <2>8. ASSUME state.kind = "SavedAll"
          PROVE  FALSE
      <3>1. SavedByAdapter(state.tx, state.snapshot[i])
        BY <1>1, <2>1, <2>6, <2>8 DEF WindowInv, AllInv, EarnedInv, SavedAllIsEarned, EarnedBy
      <3>2. PICK a \in answers : /\ a.token.tx = state.tx /\ a.token.doc = d
                                 /\ a.outcome = "Saved"
        BY <2>3, <3>1 DEF SavedByAdapter
      <3>3. SavedForGood(a)
        BY <1>1, <2>2, <3>2 DEF WindowInv, CoveredInv
      <3>4. QED
        BY <1>1, <3>2, <3>3 DEF SavedForGood
    <2>9. state.kind = "DiscardedAll"
      BY <2>2, <2>7, <2>8 DEF ReleasingStates, CompletionKinds
    <2>10. QED
      BY <2>3, <2>4, <2>9 DEF DiscardDecided
  <1>2. WindowInv /\ [WorkspaceNext]_allVars =>
           [\A d \in Open \ Open' :
              DirtyDoc(d) /\ d \notin Recovered /\ state.tx \notin resumed
                 => DiscardDecided(d)]_allVars
    BY <1>1
  <1>3. QED
    BY <1>2, WindowInit, WindowStep, PTL DEF WorkspaceSpec, FirstAttemptCoversEdits

=============================================================================
