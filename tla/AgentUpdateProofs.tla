-------------------------- MODULE AgentUpdateProofs --------------------------
(***************************************************************************)
(* Proofs about the Agent's update state machine: type correctness, that   *)
(* the old version survives a swap, and that an update records what it     *)
(* swapped, for any number of calls, failures and rollbacks.               *)
(***************************************************************************)
EXTENDS AgentUpdate, TLAPS

Swapping == {"dropping", "moving", "placing", "copying", "overwriting"}

Restoring(t) == pc[t] \in {"parking", "restoring"}

\* t is an update between the check of its row and the writing of it.
Gated(t) ==
    \/ pc[t] \in Swapping \cup {"fetching", "reloading"}
    \/ Restoring(t) /\ via[t] # "user"

-----------------------------------------------------------------------------
(* The inductive invariant *)

\* One call at a time is in a stretch that does not await.
Alone == \A t, u \in Task : pc[t] \in Synchronous /\ pc[u] \in Synchronous => t = u

\* The gate is held by the update that is under way, and by nobody else.
GateHeld == \A t \in Task : gate = t <=> Gated(t)

\* Before the first user rollback nobody restores but a failed update.
NotAsked ==
    rolls = 0 => \A t \in Task : pc[t] # "confirming" /\ (Restoring(t) => via[t] # "user")

\* What is swapped in is the build of the answer.
Staged == \A t \in Task : pc[t] \in Swapping => staging = meta[t].build

\* Where the old version is at each place of the swap.
OldAt(t) ==
    /\ pc[t] = "dropping" => before[t] = active
    /\ pc[t] = "moving" => before[t] = active /\ active # Absent
    /\ pc[t] = "placing" => before[t] = rollback
    /\ pc[t] = "copying" => before[t] = active /\ active # Absent
    /\ pc[t] = "overwriting" => before[t] = rollback
    /\ pc[t] = "reloading" /\ rolls = 0 => before[t] \in {Absent, rollback}
    /\ Restoring(t) /\ via[t] = "swap" => before[t] \in {Absent, rollback}

OldKnown == ~lossy => \A t \in Task : OldAt(t)

\* The update that waits for the reload has its build in place.
NewInPlace ==
    rolls = 0 => \A t \in Task : pc[t] = "reloading" => active \in {meta[t].build, Mixed}

Order == Alone /\ GateHeld /\ NotAsked

Folders == Staged /\ OldKnown /\ NewInPlace

IInv == TypeOK /\ Order /\ Folders

-----------------------------------------------------------------------------
(* Writing the row, and failing *)

\* The counters stay in their bounds, whether a call works or fails.
LEMMA Counted ==
    ASSUME TypeOK, NEW kind, Works \/ Fails(kind)
    PROVE  faults' \in 0..MaxFaults /\ lossy' \in BOOLEAN
<1>1. MaxFaults \in Nat
  BY AgentAssumption
<1>2. faults' \in 0..MaxFaults
  BY <1>1 DEF TypeOK, Works, Fails
<1>3. lossy' \in BOOLEAN
  BY DEF TypeOK, Works, Fails
<1>4. QED
  BY <1>2, <1>3

\* As long as nothing is lost, what failed was not one of the lossy calls.
LEMMA NotLost ==
    ASSUME NEW kind, Fails(kind), ~lossy'
    PROVE  ~lossy /\ kind \notin Lossy
  BY DEF Fails

\* Writing a row back with another status.
LEMMA Marked ==
    ASSUME NEW r \in Row, NEW st \in InstallationStatus
    PROVE  [r EXCEPT !.status = st] \in Row
  BY DEF Row

LEMMA Saved ==
    ASSUME TypeOK, NEW t \in Task, NEW r \in Row, Save(t, r)
    PROVE  row' \in Row /\ inst' \in [Task -> Row]
  BY DEF TypeOK, Save

-----------------------------------------------------------------------------
(* Every step keeps the invariant *)

LEMMA CheckInv ==
    ASSUME IInv, NEW t \in Task, Check(t)
    PROVE  IInv'
<1>1. TypeOK'
  BY AgentAssumption, FolderAssumption DEF IInv, TypeOK, Check, OffersUpdate, Goto, Place,
     Synchronous, Content, Row, Metadata, Build, InstallationStatus, folders, local, counters
<1>2. Order'
  <2>1. Alone'
    BY DEF IInv, TypeOK, Order, Alone, Check, OffersUpdate, Goto, UiFree, Synchronous, folders,
       local, counters
  <2>2. GateHeld'
    BY AgentAssumption DEF IInv, TypeOK, Order, GateHeld, Alone, Gated, Restoring, Swapping,
       NotAsked, Check, OffersUpdate, Goto, UiFree, Synchronous, folders, local, counters
  <2>3. NotAsked'
    BY AgentAssumption DEF IInv, TypeOK, Order, NotAsked, Restoring, Check, OffersUpdate, Goto,
       folders, local, counters
  <2>4. QED
    BY <2>1, <2>2, <2>3 DEF Order
<1>3. Folders'
  <2>1. Staged'
    BY DEF IInv, TypeOK, Order, Alone, Folders, Staged, Swapping, Check, OffersUpdate, Goto,
       UiFree, Synchronous, folders, local, counters
  <2>2. OldKnown'
    BY AgentAssumption, FolderAssumption DEF IInv, TypeOK, Order, Alone, GateHeld, Gated,
       NotAsked, Folders, Staged, OldKnown, OldAt, Restoring, Swapping, Check, OffersUpdate,
       Goto, UiFree, Synchronous, Lossy, folders, local, counters
  <2>3. NewInPlace'
    BY AgentAssumption, FolderAssumption DEF IInv, TypeOK, Order, Alone, GateHeld, Gated,
       NotAsked, Folders, Staged, NewInPlace, Restoring, Swapping, Check, OffersUpdate, Goto,
       UiFree, Synchronous, folders, local, counters
  <2>4. QED
    BY <2>1, <2>2, <2>3 DEF Folders
<1>4. QED
  BY <1>1, <1>2, <1>3 DEF IInv

LEMMA UserRollbackInv ==
    ASSUME IInv, NEW t \in Task, UserRollback(t)
    PROVE  IInv'
<1>1. TypeOK'
  BY AgentAssumption, FolderAssumption DEF IInv, TypeOK, UserRollback, Save, Goto, Place,
     Synchronous, Content, Row, Metadata, Build, InstallationStatus, folders, local, counters
<1>2. Order'
  <2>1. Alone'
    BY DEF IInv, TypeOK, Order, Alone, UserRollback, Save, Goto, UiFree, Synchronous, folders,
       local, counters
  <2>2. GateHeld'
    BY AgentAssumption DEF IInv, TypeOK, Order, GateHeld, Alone, Gated, Restoring, Swapping,
       NotAsked, UserRollback, Save, Goto, UiFree, Synchronous, folders, local, counters
  <2>3. NotAsked'
    BY AgentAssumption DEF IInv, TypeOK, Order, NotAsked, Restoring, UserRollback, Save, Goto,
       folders, local, counters
  <2>4. QED
    BY <2>1, <2>2, <2>3 DEF Order
<1>3. Folders'
  <2>1. Staged'
    BY DEF IInv, TypeOK, Order, Alone, Folders, Staged, Swapping, UserRollback, Save, Goto,
       UiFree, Synchronous, folders, local, counters
  <2>2. OldKnown'
    BY AgentAssumption, FolderAssumption DEF IInv, TypeOK, Order, Alone, GateHeld, Gated,
       NotAsked, Folders, Staged, OldKnown, OldAt, Restoring, Swapping, UserRollback, Save,
       Goto, UiFree, Synchronous, Lossy, folders, local, counters
  <2>3. NewInPlace'
    BY AgentAssumption, FolderAssumption DEF IInv, TypeOK, Order, Alone, GateHeld, Gated,
       NotAsked, Folders, Staged, NewInPlace, Restoring, Swapping, UserRollback, Save, Goto,
       UiFree, Synchronous, folders, local, counters
  <2>4. QED
    BY <2>1, <2>2, <2>3 DEF Folders
<1>4. QED
  BY <1>1, <1>2, <1>3 DEF IInv

LEMMA ReceiveInv ==
    ASSUME IInv, NEW t \in Task, Receive(t)
    PROVE  IInv'
<1>1. TypeOK'
  <2>1. row' \in Row /\ inst' \in [Task -> Row]
    <3>1. /\ row \in Row /\ [row EXCEPT !.status = "Updating"] \in Row
          /\ FailedRow(t, row) \in Row
      BY Marked DEF IInv, TypeOK, InstallationStatus, FailedRow
    <3>2. CASE UNCHANGED row /\ inst' = [inst EXCEPT ![t] = row]
      BY <3>1, <3>2 DEF IInv, TypeOK
    <3>3. CASE Save(t, [row EXCEPT !.status = "Updating"])
      BY <3>1, <3>3, Saved DEF IInv
    <3>4. CASE Save(t, FailedRow(t, row))
      BY <3>1, <3>4, Saved DEF IInv
    <3>5. QED
      BY <3>2, <3>3, <3>4 DEF Receive, Enter
  <2>2. faults' \in 0..MaxFaults /\ lossy' \in BOOLEAN
    BY Counted DEF IInv, Receive, Enter
  <2>3. /\ pc' \in [Task -> Place] /\ gate' \in Task \cup {NoTask}
        /\ UNCHANGED <<needs, offer, folders, meta, via, before, rolls, prompts>>
    BY DEF IInv, TypeOK, Receive, Enter, GateFree, Goto, Place, Synchronous
  <2>4. QED
    BY <2>1, <2>2, <2>3 DEF IInv, TypeOK, folders
<1>2. Order'
  <2>1. Alone'
    BY DEF IInv, TypeOK, Order, Alone, Receive, Enter, FailedRow, Works, Fails, GateFree, Save,
       Relevant, Goto, UiFree, Synchronous, folders, local, counters
  <2>2. GateHeld'
    BY AgentAssumption DEF IInv, TypeOK, Order, GateHeld, Alone, Gated, Restoring, Swapping,
       NotAsked, Receive, Enter, FailedRow, Works, Fails, GateFree, Save, Relevant, Goto,
       UiFree, Synchronous, folders, local, counters
  <2>3. NotAsked'
    BY AgentAssumption DEF IInv, TypeOK, Order, NotAsked, Restoring, Receive, Enter, FailedRow,
       Works, Fails, GateFree, Save, Relevant, Goto, folders, local, counters
  <2>4. QED
    BY <2>1, <2>2, <2>3 DEF Order
<1>3. Folders'
  <2>1. Staged'
    BY DEF IInv, TypeOK, Order, Alone, Folders, Staged, Swapping, Receive, Enter, FailedRow,
       Works, Fails, GateFree, Save, Relevant, Goto, UiFree, Synchronous, folders, local,
       counters
  <2>2. OldKnown'
    BY AgentAssumption, FolderAssumption DEF IInv, TypeOK, Order, Alone, GateHeld, Gated,
       NotAsked, Folders, Staged, OldKnown, OldAt, Restoring, Swapping, Receive, Enter,
       FailedRow, Works, Fails, GateFree, Save, Relevant, Goto, UiFree, Synchronous, Lossy,
       folders, local, counters
  <2>3. NewInPlace'
    BY AgentAssumption, FolderAssumption DEF IInv, TypeOK, Order, Alone, GateHeld, Gated,
       NotAsked, Folders, Staged, NewInPlace, Restoring, Swapping, Receive, Enter, FailedRow,
       Works, Fails, GateFree, Save, Relevant, Goto, UiFree, Synchronous, folders, local,
       counters
  <2>4. QED
    BY <2>1, <2>2, <2>3 DEF Folders
<1>4. QED
  BY <1>1, <1>2, <1>3 DEF IInv

LEMMA GetGateInv ==
    ASSUME IInv, NEW t \in Task, GetGate(t)
    PROVE  IInv'
<1>1. TypeOK'
  <2>1. row' \in Row /\ inst' \in [Task -> Row]
    <3>1. /\ inst[t] \in Row /\ [inst[t] EXCEPT !.status = "Updating"] \in Row
          /\ FailedRow(t, inst[t]) \in Row
      BY Marked DEF IInv, TypeOK, InstallationStatus, FailedRow
    <3>2. CASE UNCHANGED row /\ inst' = [inst EXCEPT ![t] = inst[t]]
      BY <3>1, <3>2 DEF IInv, TypeOK
    <3>3. CASE Save(t, [inst[t] EXCEPT !.status = "Updating"])
      BY <3>1, <3>3, Saved DEF IInv
    <3>4. CASE Save(t, FailedRow(t, inst[t]))
      BY <3>1, <3>4, Saved DEF IInv
    <3>5. QED
      BY <3>2, <3>3, <3>4 DEF GetGate, Enter
  <2>2. faults' \in 0..MaxFaults /\ lossy' \in BOOLEAN
    BY Counted DEF IInv, GetGate, Enter
  <2>3. /\ pc' \in [Task -> Place] /\ gate' \in Task \cup {NoTask}
        /\ UNCHANGED <<needs, offer, folders, meta, via, before, rolls, prompts>>
    BY DEF IInv, TypeOK, GetGate, Enter, GateFree, Goto, Place, Synchronous
  <2>4. QED
    BY <2>1, <2>2, <2>3 DEF IInv, TypeOK, folders
<1>2. Order'
  <2>1. Alone'
    BY DEF IInv, TypeOK, Order, Alone, GetGate, Enter, FailedRow, Works, Fails, GateFree, Save,
       Relevant, Goto, UiFree, Synchronous, folders, local, counters
  <2>2. GateHeld'
    BY AgentAssumption DEF IInv, TypeOK, Order, GateHeld, Alone, Gated, Restoring, Swapping,
       NotAsked, GetGate, Enter, FailedRow, Works, Fails, GateFree, Save, Relevant, Goto,
       UiFree, Synchronous, folders, local, counters
  <2>3. NotAsked'
    BY AgentAssumption DEF IInv, TypeOK, Order, NotAsked, Restoring, GetGate, Enter, FailedRow,
       Works, Fails, GateFree, Save, Relevant, Goto, folders, local, counters
  <2>4. QED
    BY <2>1, <2>2, <2>3 DEF Order
<1>3. Folders'
  <2>1. Staged'
    BY DEF IInv, TypeOK, Order, Alone, Folders, Staged, Swapping, GetGate, Enter, FailedRow,
       Works, Fails, GateFree, Save, Relevant, Goto, UiFree, Synchronous, folders, local,
       counters
  <2>2. OldKnown'
    BY AgentAssumption, FolderAssumption DEF IInv, TypeOK, Order, Alone, GateHeld, Gated,
       NotAsked, Folders, Staged, OldKnown, OldAt, Restoring, Swapping, GetGate, Enter,
       FailedRow, Works, Fails, GateFree, Save, Relevant, Goto, UiFree, Synchronous, Lossy,
       folders, local, counters
  <2>3. NewInPlace'
    BY AgentAssumption, FolderAssumption DEF IInv, TypeOK, Order, Alone, GateHeld, Gated,
       NotAsked, Folders, Staged, NewInPlace, Restoring, Swapping, GetGate, Enter, FailedRow,
       Works, Fails, GateFree, Save, Relevant, Goto, UiFree, Synchronous, folders, local,
       counters
  <2>4. QED
    BY <2>1, <2>2, <2>3 DEF Folders
<1>4. QED
  BY <1>1, <1>2, <1>3 DEF IInv

LEMMA FetchInv ==
    ASSUME IInv, NEW t \in Task, Fetch(t)
    PROVE  IInv'
<1>1. TypeOK'
  <2>1. row' \in Row /\ inst' \in [Task -> Row]
    <3>1. /\ FailedRow(t, inst[t]) \in Row
          /\ [inst[t] EXCEPT !.status = "RollbackInProgress"] \in Row
      BY Marked DEF IInv, TypeOK, InstallationStatus, FailedRow
    <3>2. QED
      BY <3>1, Saved DEF IInv, TypeOK, Fetch, Fetched, Rejected, FetchThrows
  <2>2. faults' \in 0..MaxFaults /\ lossy' \in BOOLEAN
    BY Counted DEF IInv, Fetch, Fetched, Rejected, FetchThrows
  <2>3. {active, staging, rollback}' \subseteq Content /\ before' \in [Task -> Content]
    BY DEF IInv, TypeOK, Content, Metadata, Fetch, Fetched, Rejected, FetchThrows
  <2>4. pc' \in [Task -> Place] /\ via' \in [Task -> {"fetch", "swap", "user"}]
    BY DEF IInv, TypeOK, Place, Synchronous, Fetch, Fetched, Rejected, FetchThrows, Goto
  <2>5. QED
    BY <2>1, <2>2, <2>3, <2>4, AgentAssumption DEF IInv, TypeOK, Fetch, Fetched, Rejected,
       FetchThrows, FailedRow, Save, Works, Fails, Goto, Place, Synchronous, Content, Metadata,
       folders, local, counters
<1>2. Order'
  <2>1. Alone'
    BY DEF IInv, TypeOK, Order, Alone, Fetch, Fetched, Rejected, FetchThrows, FailedRow, Save,
       Works, Fails, Goto, UiFree, Synchronous, folders, local, counters
  <2>2. GateHeld'
    BY AgentAssumption DEF IInv, TypeOK, Order, GateHeld, Alone, Gated, Restoring, Swapping,
       NotAsked, Fetch, Fetched, Rejected, FetchThrows, FailedRow, Save, Works, Fails, Goto,
       UiFree, Synchronous, folders, local, counters
  <2>3. NotAsked'
    BY AgentAssumption DEF IInv, TypeOK, Order, NotAsked, Restoring, Fetch, Fetched, Rejected,
       FetchThrows, FailedRow, Save, Works, Fails, Goto, folders, local, counters
  <2>4. QED
    BY <2>1, <2>2, <2>3 DEF Order
<1>3. Folders'
  <2>1. Staged'
    BY DEF IInv, TypeOK, Order, Alone, Folders, Staged, Swapping, Fetch, Fetched, Rejected,
       FetchThrows, FailedRow, Save, Works, Fails, Goto, UiFree, Synchronous, folders, local,
       counters
  <2>2. OldKnown'
    BY AgentAssumption, FolderAssumption DEF IInv, TypeOK, Order, Alone, GateHeld, Gated,
       NotAsked, Folders, Staged, OldKnown, OldAt, Restoring, Swapping, Fetch, Fetched,
       Rejected, FetchThrows, FailedRow, Save, Works, Fails, Goto, UiFree, Synchronous, Lossy,
       folders, local, counters
  <2>3. NewInPlace'
    BY AgentAssumption, FolderAssumption DEF IInv, TypeOK, Order, Alone, GateHeld, Gated,
       NotAsked, Folders, Staged, NewInPlace, Restoring, Swapping, Fetch, Fetched, Rejected,
       FetchThrows, FailedRow, Save, Works, Fails, Goto, UiFree, Synchronous, folders, local,
       counters
  <2>4. QED
    BY <2>1, <2>2, <2>3 DEF Folders
<1>4. QED
  BY <1>1, <1>2, <1>3 DEF IInv

LEMMA DropInv ==
    ASSUME IInv, NEW t \in Task, Drop(t)
    PROVE  IInv'
<1>1. TypeOK'
  <2>1. row' \in Row /\ inst' \in [Task -> Row] /\ via' \in [Task -> {"fetch", "swap", "user"}]
    <3>1. [inst[t] EXCEPT !.status = "RollbackInProgress"] \in Row
      BY Marked DEF IInv, TypeOK, InstallationStatus
    <3>2. CASE UNCHANGED <<row, inst, via>>
      BY <3>2 DEF IInv, TypeOK
    <3>3. CASE SwapThrows(t)
      BY <3>1, <3>3, Saved DEF IInv, TypeOK, SwapThrows
    <3>4. QED
      BY <3>2, <3>3 DEF Drop, Install, DropSnapshot, GoesOn
  <2>2. faults' \in 0..MaxFaults /\ lossy' \in BOOLEAN
    BY Counted DEF IInv, Drop, Install, DropSnapshot
  <2>3. active' \in Content /\ staging' \in Content /\ rollback' \in Content
    BY DEF IInv, TypeOK, Content, Leftover, Drop, Install, DropSnapshot
  <2>4. pc' \in [Task -> Place]
    BY DEF IInv, TypeOK, Place, Synchronous, Drop, Install, DropSnapshot, GoesOn, SwapThrows, Goto
  <2>5. QED
    BY <2>1, <2>2, <2>3, <2>4 DEF IInv, TypeOK, Drop
<1>2. Order'
  <2>1. Alone'
    BY DEF IInv, TypeOK, Order, Alone, Drop, Install, DropSnapshot, GoesOn, SwapThrows, Save,
       Leftover, Works, Fails, Goto, UiFree, Synchronous, folders, local, counters
  <2>2. GateHeld'
    BY AgentAssumption DEF IInv, TypeOK, Order, GateHeld, Alone, Gated, Restoring, Swapping,
       NotAsked, Drop, Install, DropSnapshot, GoesOn, SwapThrows, Save, Leftover, Works, Fails,
       Goto, UiFree, Synchronous, folders, local, counters
  <2>3. NotAsked'
    BY AgentAssumption DEF IInv, TypeOK, Order, NotAsked, Restoring, Drop, Install,
       DropSnapshot, GoesOn, SwapThrows, Save, Leftover, Works, Fails, Goto, folders, local,
       counters
  <2>4. QED
    BY <2>1, <2>2, <2>3 DEF Order
<1>3. Folders'
  <2>1. Staged'
    BY DEF IInv, TypeOK, Order, Alone, Folders, Staged, Swapping, Drop, Install, DropSnapshot,
       GoesOn, SwapThrows, Save, Leftover, Works, Fails, Goto, UiFree, Synchronous, folders,
       local, counters
  <2>2. OldKnown'
    <3>1. SUFFICES ASSUME ~lossy', NEW u \in Task PROVE OldAt(u)'
      BY DEF OldKnown
    <3>2. ~lossy /\ before[t] = active /\ before' = before /\ rolls' = rolls
      BY <3>1, NotLost DEF IInv, Folders, OldKnown, OldAt, Drop, Install, DropSnapshot, Works
    <3>3. CASE u = t
      <4>1. CASE active = Absent
        BY <3>2, <3>3, <4>1 DEF IInv, TypeOK, OldAt, Restoring, Drop, Install, DropSnapshot, GoesOn,
           SwapThrows, Goto
      <4>2. CASE active # Absent
        <5>1. \/ GoesOn(t, "moving")
              \/ GoesOn(t, "copying")
          BY <3>1, <4>2, NotLost DEF Drop, Install, DropSnapshot, Lossy
        <5>2. active' = active
          BY <4>2 DEF Drop, Install, DropSnapshot
        <5>3. QED
          BY <3>2, <3>3, <4>2, <5>1, <5>2 DEF IInv, TypeOK, OldAt, Restoring, GoesOn, Goto
      <4>3. QED
        BY <4>1, <4>2
    <3>4. CASE u # t
      <4>1. pc[u] \notin Synchronous \cup {"reloading"}
        BY <3>4 DEF IInv, Order, Alone, GateHeld, Gated, Swapping, Drop, Synchronous
      <4>2. pc'[u] = pc[u]
        BY <3>4 DEF IInv, TypeOK, Drop, Install, DropSnapshot, GoesOn, SwapThrows, Goto
      <4>3. QED
        BY <4>1, <4>2 DEF OldAt, Restoring, Synchronous
    <3>5. QED
      BY <3>3, <3>4
  <2>3. NewInPlace'
    BY AgentAssumption, FolderAssumption DEF IInv, TypeOK, Order, Alone, GateHeld, Gated,
       NotAsked, Folders, Staged, NewInPlace, Restoring, Swapping, Drop, Install, DropSnapshot,
       GoesOn, SwapThrows, Save, Leftover, Works, Fails, Goto, UiFree, Synchronous, folders,
       local, counters
  <2>4. QED
    BY <2>1, <2>2, <2>3 DEF Folders
<1>4. QED
  BY <1>1, <1>2, <1>3 DEF IInv

LEMMA MoveInv ==
    ASSUME IInv, NEW t \in Task, Move(t)
    PROVE  IInv'
<1>1. TypeOK'
  <2>1. faults' \in 0..MaxFaults /\ lossy' \in BOOLEAN
    BY Counted DEF IInv, Move
  <2>2. QED
    BY SMTT(30), <2>1, AgentAssumption DEF IInv, TypeOK, Move, Works, Fails, Goto, Place,
       Synchronous, Content, Metadata, folders, local, counters
<1>2. Order'
  <2>1. Alone'
    BY DEF IInv, TypeOK, Order, Alone, Move, Works, Fails, Goto, UiFree, Synchronous, folders,
       local, counters
  <2>2. GateHeld'
    BY AgentAssumption DEF IInv, TypeOK, Order, GateHeld, Alone, Gated, Restoring, Swapping,
       NotAsked, Move, Works, Fails, Goto, UiFree, Synchronous, folders, local, counters
  <2>3. NotAsked'
    BY AgentAssumption DEF IInv, TypeOK, Order, NotAsked, Restoring, Move, Works, Fails, Goto,
       folders, local, counters
  <2>4. QED
    BY <2>1, <2>2, <2>3 DEF Order
<1>3. Folders'
  <2>1. Staged'
    BY DEF IInv, TypeOK, Order, Alone, Folders, Staged, Swapping, Move, Works, Fails, Goto,
       UiFree, Synchronous, folders, local, counters
  <2>2. OldKnown'
    BY AgentAssumption, FolderAssumption DEF IInv, TypeOK, Order, Alone, GateHeld, Gated,
       NotAsked, Folders, Staged, OldKnown, OldAt, Restoring, Swapping, Move, Works, Fails,
       Goto, UiFree, Synchronous, Lossy, folders, local, counters
  <2>3. NewInPlace'
    BY AgentAssumption, FolderAssumption DEF IInv, TypeOK, Order, Alone, GateHeld, Gated,
       NotAsked, Folders, Staged, NewInPlace, Restoring, Swapping, Move, Works, Fails, Goto,
       UiFree, Synchronous, folders, local, counters
  <2>4. QED
    BY <2>1, <2>2, <2>3 DEF Folders
<1>4. QED
  BY <1>1, <1>2, <1>3 DEF IInv

LEMMA PlaceStagingInv ==
    ASSUME IInv, NEW t \in Task, PlaceStaging(t)
    PROVE  IInv'
<1>1. TypeOK'
  <2>1. faults' \in 0..MaxFaults /\ lossy' \in BOOLEAN
    BY Counted DEF IInv, PlaceStaging
  <2>2. QED
    BY <2>1, AgentAssumption DEF IInv, TypeOK, PlaceStaging, Works, Fails, Goto, Place,
       Synchronous, Content, Metadata, folders, local, counters
<1>2. Order'
  <2>1. Alone'
    BY DEF IInv, TypeOK, Order, Alone, PlaceStaging, Works, Fails, Goto, UiFree, Synchronous,
       folders, local, counters
  <2>2. GateHeld'
    BY AgentAssumption DEF IInv, TypeOK, Order, GateHeld, Alone, Gated, Restoring, Swapping,
       NotAsked, PlaceStaging, Works, Fails, Goto, UiFree, Synchronous, folders, local, counters
  <2>3. NotAsked'
    BY AgentAssumption DEF IInv, TypeOK, Order, NotAsked, Restoring, PlaceStaging, Works, Fails,
       Goto, folders, local, counters
  <2>4. QED
    BY <2>1, <2>2, <2>3 DEF Order
<1>3. Folders'
  <2>1. Staged'
    BY DEF IInv, TypeOK, Order, Alone, Folders, Staged, Swapping, PlaceStaging, Works, Fails,
       Goto, UiFree, Synchronous, folders, local, counters
  <2>2. OldKnown'
    BY ZenonT(30), AgentAssumption, FolderAssumption DEF IInv, TypeOK, Order, Alone, GateHeld,
       Gated, NotAsked, Folders, Staged, OldKnown, OldAt, Restoring, Swapping, PlaceStaging,
       Works, Fails, Goto, UiFree, Synchronous, Lossy, folders, local, counters
  <2>3. NewInPlace'
    BY AgentAssumption, FolderAssumption DEF IInv, TypeOK, Order, Alone, GateHeld, Gated,
       NotAsked, Folders, Staged, NewInPlace, Restoring, Swapping, PlaceStaging, Works, Fails,
       Goto, UiFree, Synchronous, folders, local, counters
  <2>4. QED
    BY <2>1, <2>2, <2>3 DEF Folders
<1>4. QED
  BY <1>1, <1>2, <1>3 DEF IInv

LEMMA CopyInv ==
    ASSUME IInv, NEW t \in Task, Copy(t)
    PROVE  IInv'
<1>1. TypeOK'
  <2>1. row' \in Row /\ inst' \in [Task -> Row] /\ via' \in [Task -> {"fetch", "swap", "user"}]
    <3>1. [inst[t] EXCEPT !.status = "RollbackInProgress"] \in Row
      BY Marked DEF IInv, TypeOK, InstallationStatus
    <3>2. CASE UNCHANGED <<row, inst, via>>
      BY <3>2 DEF IInv, TypeOK
    <3>3. CASE SwapThrows(t)
      BY <3>1, <3>3, Saved DEF IInv, TypeOK, SwapThrows
    <3>4. QED
      BY <3>2, <3>3 DEF Copy, GoesOn
  <2>2. faults' \in 0..MaxFaults /\ lossy' \in BOOLEAN
    BY Counted DEF IInv, Copy
  <2>3. active' \in Content /\ staging' \in Content /\ rollback' \in Content
    BY DEF IInv, TypeOK, Content, Leftover, Snapshot, Copy
  <2>4. pc' \in [Task -> Place]
    BY DEF IInv, TypeOK, Place, Synchronous, Copy, GoesOn, SwapThrows, Goto
  <2>5. QED
    BY <2>1, <2>2, <2>3, <2>4 DEF IInv, TypeOK, Copy
<1>2. Order'
  <2>1. Alone'
    BY DEF IInv, TypeOK, Order, Alone, Copy, GoesOn, Leftover, SwapThrows, Snapshot, Save,
       Works, Fails, Goto, UiFree, Synchronous, folders, local, counters
  <2>2. GateHeld'
    BY AgentAssumption DEF IInv, TypeOK, Order, GateHeld, Alone, Gated, Restoring, Swapping,
       NotAsked, Copy, GoesOn, Leftover, SwapThrows, Snapshot, Save, Works, Fails, Goto, UiFree,
       Synchronous, folders, local, counters
  <2>3. NotAsked'
    BY AgentAssumption DEF IInv, TypeOK, Order, NotAsked, Restoring, Copy, GoesOn, Leftover,
       SwapThrows, Snapshot, Save, Works, Fails, Goto, folders, local, counters
  <2>4. QED
    BY <2>1, <2>2, <2>3 DEF Order
<1>3. Folders'
  <2>1. Staged'
    BY DEF IInv, TypeOK, Order, Alone, Folders, Staged, Swapping, Copy, GoesOn, Leftover,
       SwapThrows, Snapshot, Save, Works, Fails, Goto, UiFree, Synchronous, folders, local,
       counters
  <2>2. OldKnown'
    <3>1. SUFFICES ASSUME ~lossy' PROVE \A u \in Task : OldAt(u)'
      BY DEF OldKnown
    <3>2. ~lossy
      BY <3>1, NotLost DEF Copy, GoesOn, Leftover, Works
    <3>3. active # Absent /\ before[t] = active
      BY <3>2 DEF IInv, Folders, OldKnown, OldAt, Copy
    <3>4. Works /\ rollback' = active /\ Goto(t, "overwriting")
      BY <3>1, <3>3, NotLost DEF Copy, GoesOn, Leftover, Snapshot, Lossy
    <3>5. QED
      BY <3>2, <3>3, <3>4 DEF IInv, TypeOK, Order, Alone, GateHeld, Gated, Folders, OldKnown,
         OldAt, Restoring, Swapping, Copy, GoesOn, Leftover, Works, Goto, Synchronous, Snapshot,
         Lossy, Fails, SwapThrows
  <2>3. NewInPlace'
    BY AgentAssumption, FolderAssumption DEF IInv, TypeOK, Order, Alone, GateHeld, Gated,
       NotAsked, Folders, Staged, NewInPlace, Restoring, Swapping, Copy, GoesOn, Leftover,
       SwapThrows, Snapshot, Save, Works, Fails, Goto, UiFree, Synchronous, folders, local,
       counters
  <2>4. QED
    BY <2>1, <2>2, <2>3 DEF Folders
<1>4. QED
  BY <1>1, <1>2, <1>3 DEF IInv

LEMMA OverwriteInv ==
    ASSUME IInv, NEW t \in Task, Overwrite(t)
    PROVE  IInv'
<1>1. TypeOK'
  <2>1. row' \in Row /\ inst' \in [Task -> Row] /\ via' \in [Task -> {"fetch", "swap", "user"}]
    <3>1. [inst[t] EXCEPT !.status = "RollbackInProgress"] \in Row
      BY Marked DEF IInv, TypeOK, InstallationStatus
    <3>2. CASE UNCHANGED <<row, inst, via>>
      BY <3>2 DEF IInv, TypeOK
    <3>3. CASE SwapThrows(t)
      BY <3>1, <3>3, Saved DEF IInv, TypeOK, SwapThrows
    <3>4. QED
      BY <3>2, <3>3 DEF Overwrite, GoesOn
  <2>2. faults' \in 0..MaxFaults /\ lossy' \in BOOLEAN
    BY Counted DEF IInv, Overwrite
  <2>3. active' \in Content /\ staging' \in Content /\ rollback' \in Content
    BY DEF IInv, TypeOK, Content, Leftover, Snapshot, Overwrite
  <2>4. pc' \in [Task -> Place]
    BY DEF IInv, TypeOK, Place, Synchronous, Overwrite, GoesOn, SwapThrows, Goto
  <2>5. QED
    BY <2>1, <2>2, <2>3, <2>4 DEF IInv, TypeOK, Overwrite
<1>2. Order'
  <2>1. Alone'
    BY DEF IInv, TypeOK, Order, Alone, Overwrite, GoesOn, Leftover, SwapThrows, Save, Works,
       Fails, Goto, UiFree, Synchronous, folders, local, counters
  <2>2. GateHeld'
    BY AgentAssumption DEF IInv, TypeOK, Order, GateHeld, Alone, Gated, Restoring, Swapping,
       NotAsked, Overwrite, GoesOn, Leftover, SwapThrows, Save, Works, Fails, Goto, UiFree,
       Synchronous, folders, local, counters
  <2>3. NotAsked'
    BY AgentAssumption DEF IInv, TypeOK, Order, NotAsked, Restoring, Overwrite, GoesOn,
       Leftover, SwapThrows, Save, Works, Fails, Goto, folders, local, counters
  <2>4. QED
    BY <2>1, <2>2, <2>3 DEF Order
<1>3. Folders'
  <2>1. Staged'
    BY DEF IInv, TypeOK, Order, Alone, Folders, Staged, Swapping, Overwrite, GoesOn, Leftover,
       SwapThrows, Save, Works, Fails, Goto, UiFree, Synchronous, folders, local, counters
  <2>2. OldKnown'
    BY AgentAssumption, FolderAssumption DEF IInv, TypeOK, Order, Alone, GateHeld, Gated,
       NotAsked, Folders, Staged, OldKnown, OldAt, Restoring, Swapping, Overwrite, GoesOn,
       Leftover, SwapThrows, Save, Works, Fails, Goto, UiFree, Synchronous, Lossy, folders,
       local, counters
  <2>3. NewInPlace'
    BY AgentAssumption, FolderAssumption DEF IInv, TypeOK, Order, Alone, GateHeld, Gated,
       NotAsked, Folders, Staged, NewInPlace, Restoring, Swapping, Overwrite, GoesOn, Leftover,
       SwapThrows, Save, Works, Fails, Goto, UiFree, Synchronous, folders, local, counters
  <2>4. QED
    BY <2>1, <2>2, <2>3 DEF Folders
<1>4. QED
  BY <1>1, <1>2, <1>3 DEF IInv

LEMMA SettleInv ==
    ASSUME IInv, NEW t \in Task, Settle(t)
    PROVE  IInv'
<1>1. TypeOK'
  BY AgentAssumption, FolderAssumption DEF IInv, TypeOK, Settle, Save, Goto, Place, Synchronous,
     Content, Row, Metadata, Build, InstallationStatus, folders, local, counters
<1>2. Order'
  <2>1. Alone'
    BY DEF IInv, TypeOK, Order, Alone, Settle, Save, Goto, UiFree, Synchronous, folders, local,
       counters
  <2>2. GateHeld'
    BY AgentAssumption DEF IInv, TypeOK, Order, GateHeld, Alone, Gated, Restoring, Swapping,
       NotAsked, Settle, Save, Goto, UiFree, Synchronous, folders, local, counters
  <2>3. NotAsked'
    BY AgentAssumption DEF IInv, TypeOK, Order, NotAsked, Restoring, Settle, Save, Goto,
       folders, local, counters
  <2>4. QED
    BY <2>1, <2>2, <2>3 DEF Order
<1>3. Folders'
  <2>1. Staged'
    BY DEF IInv, TypeOK, Order, Alone, Folders, Staged, Swapping, Settle, Save, Goto, UiFree,
       Synchronous, folders, local, counters
  <2>2. OldKnown'
    BY AgentAssumption, FolderAssumption DEF IInv, TypeOK, Order, Alone, GateHeld, Gated,
       NotAsked, Folders, Staged, OldKnown, OldAt, Restoring, Swapping, Settle, Save, Goto,
       UiFree, Synchronous, Lossy, folders, local, counters
  <2>3. NewInPlace'
    BY AgentAssumption, FolderAssumption DEF IInv, TypeOK, Order, Alone, GateHeld, Gated,
       NotAsked, Folders, Staged, NewInPlace, Restoring, Swapping, Settle, Save, Goto, UiFree,
       Synchronous, folders, local, counters
  <2>4. QED
    BY <2>1, <2>2, <2>3 DEF Folders
<1>4. QED
  BY <1>1, <1>2, <1>3 DEF IInv

LEMMA ParkInv ==
    ASSUME IInv, NEW t \in Task, Park(t)
    PROVE  IInv'
<1>1. TypeOK'
  <2>1. row' \in Row /\ inst' \in [Task -> Row]
    <3>1. [inst[t] EXCEPT !.status = "Broken"] \in Row
      BY Marked DEF IInv, TypeOK, InstallationStatus
    <3>2. QED
      BY <3>1, Saved DEF IInv, TypeOK, Park, Leftover, GiveUp
  <2>2. faults' \in 0..MaxFaults /\ lossy' \in BOOLEAN
    BY Counted DEF IInv, Park
  <2>3. QED
    BY <2>1, <2>2, AgentAssumption DEF IInv, TypeOK, Park, Leftover, GiveUp, Release, Save,
       Works, Fails, Goto, Place, Synchronous, Content, Metadata, folders, local, counters
<1>2. Order'
  <2>1. Alone'
    BY DEF IInv, TypeOK, Order, Alone, Park, Leftover, GiveUp, Release, Save, Works, Fails,
       Goto, UiFree, Synchronous, folders, local, counters
  <2>2. GateHeld'
    BY AgentAssumption DEF IInv, TypeOK, Order, GateHeld, Alone, Gated, Restoring, Swapping,
       NotAsked, Park, Leftover, GiveUp, Release, Save, Works, Fails, Goto, UiFree, Synchronous,
       folders, local, counters
  <2>3. NotAsked'
    BY AgentAssumption DEF IInv, TypeOK, Order, NotAsked, Restoring, Park, Leftover, GiveUp,
       Release, Save, Works, Fails, Goto, folders, local, counters
  <2>4. QED
    BY <2>1, <2>2, <2>3 DEF Order
<1>3. Folders'
  <2>1. Staged'
    BY DEF IInv, TypeOK, Order, Alone, Folders, Staged, Swapping, Park, Leftover, GiveUp,
       Release, Save, Works, Fails, Goto, UiFree, Synchronous, folders, local, counters
  <2>2. OldKnown'
    BY AgentAssumption, FolderAssumption DEF IInv, TypeOK, Order, Alone, GateHeld, Gated,
       NotAsked, Folders, Staged, OldKnown, OldAt, Restoring, Swapping, Park, Leftover, GiveUp,
       Release, Save, Works, Fails, Goto, UiFree, Synchronous, Lossy, folders, local, counters
  <2>3. NewInPlace'
    BY AgentAssumption, FolderAssumption DEF IInv, TypeOK, Order, Alone, GateHeld, Gated,
       NotAsked, Folders, Staged, NewInPlace, Restoring, Swapping, Park, Leftover, GiveUp,
       Release, Save, Works, Fails, Goto, UiFree, Synchronous, folders, local, counters
  <2>4. QED
    BY <2>1, <2>2, <2>3 DEF Folders
<1>4. QED
  BY <1>1, <1>2, <1>3 DEF IInv

LEMMA RestoreInv ==
    ASSUME IInv, NEW t \in Task, Restore(t)
    PROVE  IInv'
<1>1. TypeOK'
  <2>1. row' \in Row /\ inst' \in [Task -> Row]
    <3>1. Restored(t) \in Row /\ [inst[t] EXCEPT !.status = "Broken"] \in Row
      BY Marked DEF IInv, TypeOK, InstallationStatus, Restored
    <3>2. QED
      BY <3>1, Saved DEF IInv, TypeOK, Restore, GiveUp
  <2>2. faults' \in 0..MaxFaults /\ lossy' \in BOOLEAN
    BY Counted DEF IInv, Restore
  <2>3. QED
    BY <2>1, <2>2, AgentAssumption DEF IInv, TypeOK, Restore, GiveUp, Release, Restored, Save,
       Works, Fails, Goto, Place, Synchronous, Content, Metadata, folders, local, counters
<1>2. Order'
  <2>1. Alone'
    BY DEF IInv, TypeOK, Order, Alone, Restore, GiveUp, Release, Restored, Save, Works, Fails,
       Goto, UiFree, Synchronous, folders, local, counters
  <2>2. GateHeld'
    BY AgentAssumption DEF IInv, TypeOK, Order, GateHeld, Alone, Gated, Restoring, Swapping,
       NotAsked, Restore, GiveUp, Release, Restored, Save, Works, Fails, Goto, UiFree,
       Synchronous, folders, local, counters
  <2>3. NotAsked'
    BY AgentAssumption DEF IInv, TypeOK, Order, NotAsked, Restoring, Restore, GiveUp, Release,
       Restored, Save, Works, Fails, Goto, folders, local, counters
  <2>4. QED
    BY <2>1, <2>2, <2>3 DEF Order
<1>3. Folders'
  <2>1. Staged'
    BY DEF IInv, TypeOK, Order, Alone, Folders, Staged, Swapping, Restore, GiveUp, Release,
       Restored, Save, Works, Fails, Goto, UiFree, Synchronous, folders, local, counters
  <2>2. OldKnown'
    BY AgentAssumption, FolderAssumption DEF IInv, TypeOK, Order, Alone, GateHeld, Gated,
       NotAsked, Folders, Staged, OldKnown, OldAt, Restoring, Swapping, Restore, GiveUp,
       Release, Restored, Save, Works, Fails, Goto, UiFree, Synchronous, Lossy, folders, local,
       counters
  <2>3. NewInPlace'
    BY AgentAssumption, FolderAssumption DEF IInv, TypeOK, Order, Alone, GateHeld, Gated,
       NotAsked, Folders, Staged, NewInPlace, Restoring, Swapping, Restore, GiveUp, Release,
       Restored, Save, Works, Fails, Goto, UiFree, Synchronous, folders, local, counters
  <2>4. QED
    BY <2>1, <2>2, <2>3 DEF Folders
<1>4. QED
  BY <1>1, <1>2, <1>3 DEF IInv

LEMMA ConfirmInv ==
    ASSUME IInv, NEW t \in Task, Confirm(t)
    PROVE  IInv'
<1>1. TypeOK'
  BY AgentAssumption, FolderAssumption DEF IInv, TypeOK, Confirm, Restored, Save, Goto, Place,
     Synchronous, Content, Row, Metadata, Build, InstallationStatus, folders, local, counters
<1>2. Order'
  <2>1. Alone'
    BY DEF IInv, TypeOK, Order, Alone, Confirm, Restored, Save, Goto, UiFree, Synchronous,
       folders, local, counters
  <2>2. GateHeld'
    BY AgentAssumption DEF IInv, TypeOK, Order, GateHeld, Alone, Gated, Restoring, Swapping,
       NotAsked, Confirm, Restored, Save, Goto, UiFree, Synchronous, folders, local, counters
  <2>3. NotAsked'
    BY AgentAssumption DEF IInv, TypeOK, Order, NotAsked, Restoring, Confirm, Restored, Save,
       Goto, folders, local, counters
  <2>4. QED
    BY <2>1, <2>2, <2>3 DEF Order
<1>3. Folders'
  <2>1. Staged'
    BY DEF IInv, TypeOK, Order, Alone, Folders, Staged, Swapping, Confirm, Restored, Save, Goto,
       UiFree, Synchronous, folders, local, counters
  <2>2. OldKnown'
    BY AgentAssumption, FolderAssumption DEF IInv, TypeOK, Order, Alone, GateHeld, Gated,
       NotAsked, Folders, Staged, OldKnown, OldAt, Restoring, Swapping, Confirm, Restored, Save,
       Goto, UiFree, Synchronous, Lossy, folders, local, counters
  <2>3. NewInPlace'
    BY AgentAssumption, FolderAssumption DEF IInv, TypeOK, Order, Alone, GateHeld, Gated,
       NotAsked, Folders, Staged, NewInPlace, Restoring, Swapping, Confirm, Restored, Save,
       Goto, UiFree, Synchronous, folders, local, counters
  <2>4. QED
    BY <2>1, <2>2, <2>3 DEF Folders
<1>4. QED
  BY <1>1, <1>2, <1>3 DEF IInv

LEMMA PublishInv ==
    ASSUME IInv, Publish
    PROVE  IInv'
<1>1. TypeOK'
  <2>1. offer' \in Metadata
    <3>1. MaxSeq \in Nat /\ offer.seq \in Nat
      BY AgentAssumption DEF IInv, TypeOK, Metadata, Build
    <3>2. offer.seq + 1 \in 1..MaxSeq /\ offer.seq < MaxSeq
      BY <3>1 DEF IInv, TypeOK, Publish, Metadata, Build
    <3>3. CASE offer' = [build |-> offer.seq + 1, seq |-> offer.seq + 1, rollback |-> FALSE]
      BY <3>2, <3>3 DEF Metadata, Build
    <3>4. ASSUME NEW b \in 1..offer.seq,
                 offer' = [build |-> b, seq |-> offer.seq + 1, rollback |-> TRUE]
          PROVE  offer' \in Metadata
      <4>1. b \in 1..MaxSeq
        BY <3>1, <3>2
      <4>2. QED
        BY <3>2, <3>4, <4>1 DEF Metadata, Build
    <3>5. QED
      BY <3>3, <3>4 DEF Publish
  <2>2. QED
    BY <2>1 DEF IInv, TypeOK, Publish, folders, local, counters
<1>2. Order'
  <2>1. Alone'
    BY DEF IInv, TypeOK, Order, Alone, Publish, Goto, UiFree, Synchronous, folders, local,
       counters
  <2>2. GateHeld'
    BY AgentAssumption DEF IInv, TypeOK, Order, GateHeld, Alone, Gated, Restoring, Swapping,
       NotAsked, Publish, Goto, UiFree, Synchronous, folders, local, counters
  <2>3. NotAsked'
    BY AgentAssumption DEF IInv, TypeOK, Order, NotAsked, Restoring, Publish, Goto, folders,
       local, counters
  <2>4. QED
    BY <2>1, <2>2, <2>3 DEF Order
<1>3. Folders'
  <2>1. Staged'
    BY DEF IInv, TypeOK, Order, Alone, Folders, Staged, Swapping, Publish, Goto, UiFree,
       Synchronous, folders, local, counters
  <2>2. OldKnown'
    BY AgentAssumption, FolderAssumption DEF IInv, TypeOK, Order, Alone, GateHeld, Gated,
       NotAsked, Folders, Staged, OldKnown, OldAt, Restoring, Swapping, Publish, Goto, UiFree,
       Synchronous, Lossy, folders, local, counters
  <2>3. NewInPlace'
    BY AgentAssumption, FolderAssumption DEF IInv, TypeOK, Order, Alone, GateHeld, Gated,
       NotAsked, Folders, Staged, NewInPlace, Restoring, Swapping, Publish, Goto, UiFree,
       Synchronous, folders, local, counters
  <2>4. QED
    BY <2>1, <2>2, <2>3 DEF Folders
<1>4. QED
  BY <1>1, <1>2, <1>3 DEF IInv

LEMMA CrashInv ==
    ASSUME IInv, Crash
    PROVE  IInv'
<1>1. TypeOK'
  BY AgentAssumption, FolderAssumption DEF IInv, TypeOK, Crash, Fails, Goto, Place, Synchronous,
     Content, Row, Metadata, Build, InstallationStatus, folders, local, counters
<1>2. Order'
  <2>1. Alone'
    BY DEF IInv, TypeOK, Order, Alone, Crash, Fails, Goto, UiFree, Synchronous, folders, local,
       counters
  <2>2. GateHeld'
    BY AgentAssumption DEF IInv, TypeOK, Order, GateHeld, Alone, Gated, Restoring, Swapping,
       NotAsked, Crash, Fails, Goto, UiFree, Synchronous, folders, local, counters
  <2>3. NotAsked'
    BY AgentAssumption DEF IInv, TypeOK, Order, NotAsked, Restoring, Crash, Fails, Goto,
       folders, local, counters
  <2>4. QED
    BY <2>1, <2>2, <2>3 DEF Order
<1>3. Folders'
  <2>1. Staged'
    BY DEF IInv, TypeOK, Order, Alone, Folders, Staged, Swapping, Crash, Fails, Goto, UiFree,
       Synchronous, folders, local, counters
  <2>2. OldKnown'
    BY AgentAssumption, FolderAssumption DEF IInv, TypeOK, Order, Alone, GateHeld, Gated,
       NotAsked, Folders, Staged, OldKnown, OldAt, Restoring, Swapping, Crash, Fails, Goto,
       UiFree, Synchronous, Lossy, folders, local, counters
  <2>3. NewInPlace'
    BY AgentAssumption, FolderAssumption DEF IInv, TypeOK, Order, Alone, GateHeld, Gated,
       NotAsked, Folders, Staged, NewInPlace, Restoring, Swapping, Crash, Fails, Goto, UiFree,
       Synchronous, folders, local, counters
  <2>4. QED
    BY <2>1, <2>2, <2>3 DEF Folders
<1>4. QED
  BY <1>1, <1>2, <1>3 DEF IInv

-----------------------------------------------------------------------------
(* Theorems *)

LEMMA StepInv ==
    ASSUME IInv, [Next]_vars
    PROVE  IInv'
<1>1. CASE Next
  BY <1>1, CheckInv, UserRollbackInv, ReceiveInv, GetGateInv, FetchInv, DropInv, MoveInv,
     PlaceStagingInv, CopyInv, OverwriteInv, SettleInv, ParkInv, RestoreInv, ConfirmInv,
     PublishInv, CrashInv DEF Next, Proceed
<1>2. CASE UNCHANGED vars
  BY <1>2 DEF IInv, TypeOK, Order, Alone, GateHeld, Gated, NotAsked, Folders, Staged, OldKnown,
     OldAt, NewInPlace, Restoring, vars, folders, local, counters
<1>3. QED
  BY <1>1, <1>2

LEMMA InitInv ==
    ASSUME Init
    PROVE  IInv
<1>1. TypeOK
  <2>1. 1 \in Build /\ {MaxFaults, MaxRollbacks, MaxPrompts} \subseteq Nat
    BY AgentAssumption DEF Build
  <2>2. offer \in Metadata /\ row \in Row
    BY <2>1 DEF Init, Metadata, Row, Build, InstallationStatus
  <2>3. {active, staging, rollback} \subseteq Content
    BY <2>1 DEF Init, Content
  <2>4. /\ pc \in [Task -> Place] /\ gate \in Task \cup {NoTask}
        /\ via \in [Task -> {"fetch", "swap", "user"}]
        /\ inst \in [Task -> Row] /\ meta \in [Task -> Metadata]
    BY <2>2 DEF Init, Place
  <2>5. before \in [Task -> Content]
    BY <2>3 DEF Init
  <2>6. faults \in 0..MaxFaults /\ rolls \in 0..MaxRollbacks /\ prompts \in 0..MaxPrompts
    BY <2>1 DEF Init
  <2>7. lossy \in BOOLEAN
    BY DEF Init
  <2>8. needs \in Demands
    BY DEF Init
  <2>9. QED
    BY <2>8, <2>2, <2>3, <2>4, <2>5, <2>6, <2>7 DEF TypeOK
<1>2. Order /\ Folders
  BY AgentAssumption DEF Init, Order, Alone, GateHeld, Gated, Restoring, Swapping, Synchronous,
     NotAsked, Folders, Staged, OldKnown, OldAt, NewInPlace
<1>3. QED
  BY <1>1, <1>2 DEF IInv

\* The invariant of the Agent's update: one call at a time swaps folders, the update under
\* way holds the gate, and at each place of a swap the old version is where OldAt says.
THEOREM InvariantHolds == Spec => []IInv
  BY InitInv, StepInv, PTL DEF Spec

\* Every variable keeps its type, for any number of overlapping calls.
THEOREM TypeCorrect == Spec => []TypeOK
<1>1. IInv => TypeOK
  BY DEF IInv
<1>2. QED
  BY <1>1, InvariantHolds, PTL

\* The place of a swap tells where the old version is.
LEMMA KnownIsKept ==
    ASSUME IInv, ~lossy
    PROVE  OldVersionKept
<1>1. SUFFICES ASSUME NEW t \in Task, before[t] # Absent,
                      \/ pc[t] \in Swapping
                      \/ pc[t] = "reloading" /\ rolls = 0
                      \/ Restoring(t) /\ via[t] = "swap"
               PROVE  before[t] \in {active, rollback}
  BY DEF OldVersionKept, Swapping, Restoring
<1>2. OldAt(t)
  BY DEF IInv, Folders, OldKnown
<1>3. QED
  BY <1>1, <1>2 DEF OldAt, Swapping

\* "Never deletes the active version before the new one is in place and verified": for any number
\* of overlapping checks, failures, crashes and rollbacks, FolderSwap keeps the old version whole
\* unless one of the four calls of Lossy fails.
THEOREM OldVersionSurvivesHolds == Spec => []OldVersionSurvives
<1>1. IInv => OldVersionSurvives
  BY KnownIsKept DEF OldVersionSurvives
<1>2. QED
  BY <1>1, InvariantHolds, PTL

\* A call that waited for the reload and is idle has written its row, unless the process died.
LEMMA OnlySettles ==
    ASSUME IInv, Next, NEW t \in Task, pc[t] = "reloading", pc'[t] = "idle", row' # row
    PROVE  Settle(t)
<1>1. ~Crash /\ ~Publish
  BY DEF Crash, Publish
<1>2. PICK u \in Task : Check(u) \/ UserRollback(u) \/ Proceed(u)
  BY <1>1 DEF Next
<1>3. u = t
  BY <1>2 DEF IInv, TypeOK, Proceed, Check, UserRollback, Receive, GetGate, Enter, Fetch,
     Fetched, Rejected, FetchThrows, Drop, Install, DropSnapshot, GoesOn, Move, PlaceStaging,
     Copy, SwapThrows, Overwrite, Settle, Park, GiveUp, Restore, Confirm, Goto, folders, local
<1>4. QED
  BY <1>2, <1>3 DEF Proceed, Check, UserRollback, Receive, GetGate, Fetch, Drop, Install,
     DropSnapshot, GoesOn, Move, PlaceStaging, Copy, Overwrite, Park, Restore, Confirm

\* Until the first user rollback, the row UpdateService writes names the build it swapped in,
\* however long the reload took and whoever else was checking or waiting for the gate.
THEOREM SettlesWhatItSwappedHolds == Spec => SettlesWhatItSwapped
<1> DEFINE Settled == \A t \in Task :
              rolls = 0 /\ pc[t] = "reloading" /\ pc'[t] = "idle" /\ row' # row
                  => active \in {row'.build, Mixed}
<1>1. ASSUME IInv, [Next]_vars
      PROVE  [Settled]_vars
  <2>1. SUFFICES ASSUME Next, NEW t \in Task, rolls = 0, pc[t] = "reloading", pc'[t] = "idle",
                        row' # row
                 PROVE  active \in {row'.build, Mixed}
    BY <1>1
  <2>2. Settle(t)
    BY <1>1, <2>1, OnlySettles
  <2>3. row'.build = meta[t].build
    BY <2>2 DEF Settle, Save
  <2>4. QED
    BY <1>1, <2>1, <2>3 DEF IInv, Folders, NewInPlace
<1>2. QED
  BY <1>1, InvariantHolds, PTL DEF Spec, SettlesWhatItSwapped
=============================================================================
