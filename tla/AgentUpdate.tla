----------------------------- MODULE AgentUpdate -----------------------------
(***************************************************************************)
(* The Windows Agent's update state machine for one installed extension:   *)
(* the update check, UpdateService under its gate, FolderSwap on disk, the *)
(* local row in SQLite and the user's rollback.                            *)
(*                                                                         *)
(* The Agent runs on one UI thread, so tasks interleave only where the     *)
(* code awaits; a process that dies can do so between any two file system  *)
(* operations, so those are steps of their own.  A folder is abstracted to *)
(* the build whose files it holds whole, "Mixed" for files of two builds.  *)
(*                                                                         *)
(* Not here: first installation, removal, the pause switch and the channel *)
(* switch; the reload handshake is only its outcome.                       *)
(***************************************************************************)
EXTENDS Naturals

CONSTANTS
    Task,          \* concurrent calls of the Agent
    Scheduler,     \* the one that polls for ever; the others are prompted by the
                   \* web socket, the launch or the tray menu
    MaxPrompts,    \* bound on prompted checks
    MaxSeq,        \* bound on what the server publishes
    Demands,       \* what builds may ask for, per build: see needs
    Faults,        \* the failures this instance explores
    MaxFaults,     \* bound on failures in one behaviour
    MaxRollbacks,  \* bound on rollbacks the user asks for
    Absent, Empty, Mixed, NoTask

ASSUME AgentAssumption ==
    /\ MaxSeq \in Nat \ {0}
    /\ Scheduler \in Task
    /\ {MaxPrompts, MaxFaults, MaxRollbacks} \subseteq Nat
    /\ Faults \subseteq {"fetch", "reject", "drop", "deny", "move", "place", "leftover",
                     "snapshot", "copy", "lock", "park", "restore", "crash"}
    /\ NoTask \notin Task

ASSUME DemandsAssumption == Demands \subseteq [1..MaxSeq -> {"nothing", "approval", "agent"}]

ASSUME FolderAssumption ==
    /\ {Absent, Empty, Mixed} \cap (1..MaxSeq) = {}
    /\ Absent \notin {Empty, Mixed}

VARIABLES
    needs,     \* per build: it adds permissions a user must approve, or needs a newer Agent
    offer,     \* what the server's channel offers: build, sequence, rollback flag
    row,       \* the installations row of the local store
    active, staging, rollback,   \* the folders of the extension
    gate,      \* UpdateService._gate: its holder
    pc,        \* where each task is
    inst,      \* each task's LocalInstallation, read from the row and written back whole
    meta,      \* the metadata each task was given
    via,       \* why a task restores the rollback folder
    before,    \* history: what active held when the task began to swap
    faults, rolls, prompts,  \* how often it failed, was rolled back, was prompted
    lossy      \* history: a call failed whose failure loses the old version

folders == <<active, staging, rollback>>
local == <<inst, meta, via, before>>
counters == <<faults, rolls, prompts, lossy>>
vars == <<needs, offer, row, folders, gate, pc, local, counters>>

-----------------------------------------------------------------------------
Build == 1..MaxSeq

Content == Build \cup {Absent, Empty, Mixed}

Metadata == [build : Build, seq : 1..MaxSeq, rollback : BOOLEAN]

InstallationStatus == {"Installed", "Updating", "ReloadRequired",
                       "UpToDate", "Broken", "RollbackInProgress"}

Row == [build : Build, seq : 1..MaxSeq, status : InstallationStatus]

\* Places inside a stretch of code that does not await: nothing else runs.
Synchronous == {"dropping", "moving", "placing", "copying", "overwriting", "parking", "restoring"}

Place == Synchronous \cup {"idle", "answered", "waiting", "fetching", "reloading", "confirming"}

UiFree == \A t \in Task : pc[t] \notin Synchronous

Goto(t, p) == pc' = [pc EXCEPT ![t] = p]

Save(t, r) == inst' = [inst EXCEPT ![t] = r] /\ row' = r

Works == UNCHANGED <<faults, lossy>>

\* The four failures of FolderSwap after which the old version may be in no folder: the
\* rename that would put staging in place, a snapshot folder that may not be deleted or
\* is not deleted before the copy that fills it, and that copy.
Lossy == {"place", "deny", "leftover", "snapshot"}

\* What an interrupted deletion or copy leaves of a folder.
Leftover(folder) == {folder, Mixed}

Fails(kind) ==
    /\ kind \in Faults
    /\ faults < MaxFaults
    /\ faults' = faults + 1
    /\ lossy' = (lossy \/ kind \in Lossy)

-----------------------------------------------------------------------------
(* The server, and the check that asks it *)

Publish ==
    /\ offer.seq < MaxSeq
    /\ \/ offer' = [build |-> offer.seq + 1, seq |-> offer.seq + 1, rollback |-> FALSE]
       \/ \E b \in 1..offer.seq \ {offer.build} :
            offer' = [build |-> b, seq |-> offer.seq + 1, rollback |-> TRUE]
    /\ UNCHANGED <<needs, row, folders, gate, pc, local, counters>>

\* The server keeps a release from a device whose Agent is too old for it.
OffersUpdate == offer.seq > row.seq /\ needs[offer.build] # "agent"

Check(t) ==
    /\ UiFree
    /\ pc[t] = "idle"
    /\ OffersUpdate
    /\ \/ t = Scheduler /\ UNCHANGED prompts
       \/ t # Scheduler /\ prompts < MaxPrompts /\ prompts' = prompts + 1
    /\ meta' = [meta EXCEPT ![t] = offer]
    /\ Goto(t, "answered")
    /\ UNCHANGED <<needs, offer, row, folders, gate, inst, via, before, faults, rolls, lossy>>

GateIgnored == TRUE

GateFree == gate = NoTask

Relevant(m, r) == m.rollback \/ m.seq > r.seq

FailedRowSeen(t, r) == [r EXCEPT !.status = "UpToDate", !.seq = meta[t].seq]

FailedRow(t, r) == [r EXCEPT !.status = "UpToDate"]

\* CheckUpdatesAsync passes userApproved only for what needs no approval, and nothing
\* else calls ApplyUpdateAsync.
Approved(m) == needs[m.build] # "approval"

\* The gate is taken with the row as r has it, which may be older than the store's.
\* What is not newer or not approved ends there; Fail writes the row when the
\* project, the minimum Agent version or the signature is not right.
Enter(t, r) ==
    /\ GateFree
    /\ \/ /\ ~(Relevant(meta[t], r) /\ Approved(meta[t]))
          /\ Works
          /\ inst' = [inst EXCEPT ![t] = r]
          /\ Goto(t, "idle")
          /\ UNCHANGED <<row, gate>>
       \/ /\ Relevant(meta[t], r)
          /\ Fails("reject")
          /\ Save(t, FailedRow(t, r))
          /\ Goto(t, "idle")
          /\ UNCHANGED gate
       \/ /\ Relevant(meta[t], r)
          /\ Approved(meta[t])
          /\ Works
          /\ Save(t, [r EXCEPT !.status = "Updating"])
          /\ gate' = t
          /\ Goto(t, "fetching")

\* The answer arrives: the row is read, then ApplyUpdateAsync waits for the gate.
Receive(t) ==
    /\ UiFree
    /\ pc[t] = "answered"
    /\ \/ Enter(t, row)
       \/ /\ gate # NoTask
          /\ Works
          /\ inst' = [inst EXCEPT ![t] = row]
          /\ Goto(t, "waiting")
          /\ UNCHANGED <<row, gate>>
    /\ UNCHANGED <<needs, offer, folders, meta, via, before, rolls, prompts>>

GetGate(t) ==
    /\ UiFree
    /\ pc[t] = "waiting"
    /\ Enter(t, inst[t])
    /\ UNCHANGED <<needs, offer, folders, meta, via, before, rolls, prompts>>

-----------------------------------------------------------------------------
(* Download and verification *)

Fetched(t) ==
    /\ Works
    /\ staging' = meta[t].build
    /\ Goto(t, "dropping")
    /\ UNCHANGED <<row, gate, inst, via>>

\* Fail: a size, hash or manifest check refuses the build.
Rejected(t) ==
    /\ Fails("reject")
    /\ Save(t, FailedRow(t, inst[t]))
    /\ gate' = NoTask
    /\ Goto(t, "idle")
    /\ UNCHANGED <<staging, via>>

\* An exception of the download or the extraction: TryRollback.
FetchThrows(t) ==
    /\ Fails("fetch")
    /\ Save(t, [inst[t] EXCEPT !.status = "RollbackInProgress"])
    /\ via' = [via EXCEPT ![t] = "fetch"]
    /\ Goto(t, "parking")
    /\ UNCHANGED <<staging, gate>>

Fetch(t) ==
    /\ UiFree
    /\ pc[t] = "fetching"
    /\ before' = [before EXCEPT ![t] = active]
    /\ Fetched(t) \/ Rejected(t) \/ FetchThrows(t)
    /\ UNCHANGED <<needs, offer, active, rollback, meta, rolls, prompts>>

-----------------------------------------------------------------------------
(* FolderSwap.Replace *)

\* An exception of the swap: TryRollback.
SwapThrows(t) ==
    /\ Save(t, [inst[t] EXCEPT !.status = "RollbackInProgress"])
    /\ via' = [via EXCEPT ![t] = "swap"]
    /\ Goto(t, "parking")

GoesOn(t, p) == Goto(t, p) /\ UNCHANGED <<row, inst, via>>

\* No active folder is a first install.
Install(t) ==
    /\ active = Absent
    /\ \/ /\ Works
          /\ active' = staging
          /\ staging' = Absent
          /\ GoesOn(t, "reloading")
       \/ /\ Fails("move")
          /\ SwapThrows(t)
          /\ UNCHANGED <<active, staging>>
    /\ UNCHANGED rollback

\* Otherwise the old snapshot is deleted, outside the try.  SafeDelete swallows an IOException,
\* and with a folder in the way the rename cannot succeed; a denial of access it does not.
DropSnapshot(t) ==
    /\ active # Absent
    /\ \/ /\ Works
          /\ rollback' = Absent
          /\ GoesOn(t, "moving")
       \/ /\ rollback # Absent
          /\ rollback' \in Leftover(rollback)
          /\ \/ Fails("drop") /\ GoesOn(t, "copying")
             \/ Fails("deny") /\ SwapThrows(t)
    /\ UNCHANGED <<active, staging>>

Drop(t) ==
    /\ pc[t] = "dropping"
    /\ Install(t) \/ DropSnapshot(t)
    /\ UNCHANGED <<needs, offer, gate, meta, before, rolls, prompts>>

Move(t) ==
    /\ pc[t] = "moving"
    /\ \/ /\ Works
          /\ rollback' = active
          /\ active' = Absent
          /\ Goto(t, "placing")
       \/ /\ Fails("move")
          /\ Goto(t, "copying")
          /\ UNCHANGED <<active, rollback>>
    /\ UNCHANGED <<needs, offer, row, staging, gate, local, rolls, prompts>>

PlaceStaging(t) ==
    /\ pc[t] = "placing"
    /\ \/ /\ Works
          /\ active' = staging
          /\ staging' = Absent
          /\ Goto(t, "reloading")
       \/ /\ Fails("place")
          /\ Goto(t, "copying")
          /\ UNCHANGED <<active, staging>>
    /\ UNCHANGED <<needs, offer, row, rollback, gate, local, rolls, prompts>>

SnapshotSkipped == rollback

Snapshot == active

\* JournaledCopy, first half: the old snapshot goes and active is copied over it, or over
\* what could not be deleted.  With no active folder the copy makes an empty one and throws.
Copy(t) ==
    /\ pc[t] = "copying"
    /\ \/ /\ active # Absent
          /\ \/ Works /\ rollback' = Snapshot
             \/ rollback # Absent /\ Fails("leftover") /\ rollback' \in Leftover(active)
          /\ GoesOn(t, "overwriting")
       \/ /\ \/ active # Absent /\ Fails("snapshot") /\ rollback' = Mixed
             \/ active = Absent /\ Works /\ rollback' = Empty
             \/ rollback # Absent /\ Fails("deny") /\ rollback' \in Leftover(rollback)
             \/ active = Absent /\ rollback # Absent /\ Fails("leftover") /\ rollback' \in Leftover(rollback)
          /\ SwapThrows(t)
    /\ UNCHANGED <<needs, offer, active, staging, gate, meta, before, rolls, prompts>>

\* Second half: file by file; a file Chrome holds open keeps its old content.
Overwrite(t) ==
    /\ pc[t] = "overwriting"
    /\ \/ /\ \/ Works /\ active' = staging
             \/ Fails("lock") /\ active' = Mixed
          /\ staging' = Absent
          /\ GoesOn(t, "reloading")
       \/ /\ Fails("copy")
          /\ active' \in Leftover(active) \cup {staging}
          /\ SwapThrows(t)
          /\ UNCHANGED staging
    /\ UNCHANGED <<needs, offer, rollback, gate, meta, before, rolls, prompts>>

\* The Bridge has reloaded the extension, or not in time: the row is written.
Settle(t) ==
    /\ UiFree
    /\ pc[t] = "reloading"
    /\ \E st \in {"UpToDate", "ReloadRequired"} :
        /\ active = Mixed => st = "ReloadRequired"
        /\ Save(t, [build |-> meta[t].build, seq |-> meta[t].seq, status |-> st])
    /\ gate' = NoTask
    /\ Goto(t, "idle")
    /\ UNCHANGED <<needs, offer, folders, meta, via, before, counters>>

-----------------------------------------------------------------------------
(* FolderSwap.RestoreFromRollback, for a failed update and for the user *)

UserRollback(t) ==
    /\ UiFree
    /\ pc[t] = "idle"
    /\ rolls < MaxRollbacks
    /\ rolls' = rolls + 1
    /\ Save(t, [row EXCEPT !.status = "RollbackInProgress"])
    /\ via' = [via EXCEPT ![t] = "user"]
    /\ Goto(t, "parking")
    /\ UNCHANGED <<needs, offer, folders, gate, meta, before, faults, prompts, lossy>>

Release(t) == IF gate = t THEN NoTask ELSE gate

GiveUp(t) ==
    /\ Save(t, [inst[t] EXCEPT !.status = "Broken"])
    /\ gate' = Release(t)
    /\ Goto(t, "idle")

\* active is parked in a folder for diagnostics that nothing reads, by rename or, when a
\* file is held open, by copy, and deleted; what cannot be deleted stays.
Park(t) ==
    /\ pc[t] = "parking"
    /\ \/ /\ rollback = Absent
          /\ Works
          /\ GiveUp(t)
          /\ UNCHANGED active
       \/ /\ rollback # Absent
          /\ \/ Works /\ active' = Absent
             \/ active # Absent /\ Fails("park") /\ active' \in Leftover(active)
          /\ Goto(t, "restoring")
          /\ UNCHANGED <<row, inst, gate>>
       \/ /\ rollback # Absent
          /\ Fails("park")
          /\ IF active = Absent THEN UNCHANGED active ELSE active' \in Leftover(active)
          /\ GiveUp(t)
    /\ UNCHANGED <<needs, offer, staging, rollback, meta, via, before, rolls, prompts>>

RestoredSeqBack(t) == [inst[t] EXCEPT !.status = "UpToDate", !.seq = @ - 1]

Restored(t) == [inst[t] EXCEPT !.status = "UpToDate"]

\* The snapshot is copied into active, over what Park could not delete.
Restore(t) ==
    /\ pc[t] = "restoring"
    /\ \/ /\ Works
          /\ active' \in {rollback} \cup IF active = Absent THEN {} ELSE {Mixed}
          /\ \/ /\ via[t] = "user"
                /\ Goto(t, "confirming")     \* awaits the reload, then writes the row
                /\ UNCHANGED <<row, inst, gate>>
             \/ /\ via[t] # "user"
                /\ Save(t, Restored(t))
                /\ gate' = Release(t)
                /\ Goto(t, "idle")
       \/ /\ Fails("restore")
          /\ active' \in {active, Mixed}
          /\ GiveUp(t)
    /\ UNCHANGED <<needs, offer, staging, rollback, meta, via, before, rolls, prompts>>

\* The row goes back as it was read before the rollback.
Confirm(t) ==
    /\ UiFree
    /\ pc[t] = "confirming"
    /\ Save(t, Restored(t))
    /\ Goto(t, "idle")
    /\ UNCHANGED <<needs, offer, folders, gate, meta, via, before, counters>>

-----------------------------------------------------------------------------
\* The process ends (power, logoff, self-update) and starts again; nothing on
\* disk is looked at.  A copy or a deletion that was under way stays half done.
Crash ==
    /\ Fails("crash")
    /\ \E t \in Task : pc[t] # "idle"
    /\ active' \in {active} \cup
         {Mixed : t \in {u \in Task : pc[u] \in {"overwriting", "parking", "restoring"}}}
    /\ rollback' \in {rollback} \cup {Mixed : t \in {u \in Task : pc[u] \in {"dropping", "copying"}}}
    /\ pc' = [t \in Task |-> "idle"]
    /\ gate' = NoTask
    /\ UNCHANGED <<needs, offer, row, staging, local, rolls, prompts>>

Init ==
    /\ needs \in Demands
    /\ offer = [build |-> 1, seq |-> 1, rollback |-> FALSE]
    /\ row = [build |-> 1, seq |-> 1, status |-> "Installed"]
    /\ active = 1
    /\ staging = Absent
    /\ rollback = Absent
    /\ gate = NoTask
    /\ pc = [t \in Task |-> "idle"]
    /\ inst = [t \in Task |-> row]
    /\ meta = [t \in Task |-> offer]
    /\ via = [t \in Task |-> "fetch"]
    /\ before = [t \in Task |-> active]
    /\ faults = 0
    /\ lossy = FALSE
    /\ rolls = 0
    /\ prompts = 0

\* What a call of the Agent does once it has begun.
Proceed(t) ==
    \/ Receive(t) \/ GetGate(t) \/ Fetch(t)
    \/ Drop(t) \/ Move(t) \/ PlaceStaging(t) \/ Copy(t) \/ Overwrite(t) \/ Settle(t)
    \/ Park(t) \/ Restore(t) \/ Confirm(t)

Next ==
    \/ Publish
    \/ Crash
    \/ \E t \in Task : Check(t) \/ UserRollback(t) \/ Proceed(t)

\* The scheduler keeps polling, and a call that began runs on; nothing forces
\* the server to publish, the user to roll back or an operation to fail.
Fairness ==
    /\ \A t \in Task : WF_vars(Proceed(t))
    /\ WF_vars(Check(Scheduler))

Spec == Init /\ [][Next]_vars /\ Fairness

-----------------------------------------------------------------------------
(* Properties *)

\* Every variable keeps its type.
TypeOK ==
    /\ needs \in Demands
    /\ offer \in Metadata
    /\ row \in Row
    /\ {active, staging, rollback} \subseteq Content
    /\ gate \in Task \cup {NoTask}
    /\ pc \in [Task -> Place]
    /\ inst \in [Task -> Row]
    /\ meta \in [Task -> Metadata]
    /\ via \in [Task -> {"fetch", "swap", "user"}]
    /\ before \in [Task -> Content]
    /\ faults \in 0..MaxFaults /\ lossy \in BOOLEAN
    /\ rolls \in 0..MaxRollbacks
    /\ prompts \in 0..MaxPrompts

\* UpdateService: "Never deletes the active version before the new one is in
\* place and verified."  While folders are swapped, what active held stays whole
\* in active or in rollback, and stays there until the row names the new build.
OldVersionKept ==
    \A t \in Task :
        (/\ before[t] # Absent
         /\ \/ pc[t] \in {"dropping", "moving", "placing", "copying", "overwriting"}
            \/ pc[t] = "reloading" /\ rolls = 0
            \/ pc[t] \in {"parking", "restoring"} /\ via[t] = "swap") =>
        before[t] \in {active, rollback}

\* With the four failures of Lossy aside, however often anything else fails and wherever the
\* process dies, the version that was active when a swap began is whole in active or rollback.
OldVersionSurvives == ~lossy => OldVersionKept

\* Until a user asks for a rollback, an update that ends by writing the row finds
\* in active the build it writes, whole or waiting for locked files, however long
\* the reload took and whoever else was checking meanwhile.
SettlesWhatItSwapped ==
    [][\A t \in Task :
        rolls = 0 /\ pc[t] = "reloading" /\ pc'[t] = "idle" /\ row' # row
            => active \in {row'.build, Mixed}]_vars

\* Whatever fails, dies or runs twice, an Agent that keeps checking ends up recording the build
\* and the sequence that the server offers, unless that build adds permissions, for which no
\* check is ever approved, or needs a newer Agent.
CatchesUp ==
    <>[](needs[offer.build] = "nothing" => row.build = offer.build /\ row.seq = offer.seq)

\* Manual test 8: after a download that fails "the active version stayed".
FailedDownloadKeepsActive ==
    [][\A t \in Task :
        via[t] = "fetch" /\ pc[t] = "restoring" /\ pc'[t] = "idle" => active' = before[t]]_vars

\* ADR-0002: "the same update is not installed twice".
AppliedOnce ==
    [][\A t \in Task :
        pc[t] = "fetching" /\ pc'[t] = "dropping" /\ ~meta[t].rollback
            => active # meta[t].build]_vars
=============================================================================
