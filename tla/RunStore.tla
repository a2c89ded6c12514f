-------------------------------- MODULE RunStore --------------------------------
(***************************************************************************)
(* Storage of runs, step results and shared memory: FileStorage            *)
(* (storage_file.go), whose saves replace a file through a synced temporary *)
(* one under a lock, and MemoryStorage (storage_mem.go).  A save may fail   *)
(* at every system call, the process may end between two of them, and so    *)
(* may the power, which takes what the disk had not been told to keep.      *)
(***************************************************************************)
EXTENDS FiniteSets

CONSTANTS
  Saver,    \* calls of SaveRun, SaveStepResult and SaveSharedMemory
  Target,   \* the file each of them writes: "run", "step" or "memory"
  Key,      \* the entry of the shared memory it sets
  Backends, \* subset of {"file", "mem"}
  Torn,     \* what is read of data that never reached the disk
  Unlocked

ASSUME StoreAssumption ==
  /\ IsFiniteSet(Saver) /\ Backends \subseteq {"file", "mem"}
  /\ Target \in [Saver -> {"run", "step", "memory"}]
  /\ Torn \notin Saver /\ Unlocked \notin Saver

VARIABLES
  backend, \* the implementation of Storage
  save,    \* where each call is
  data,    \* what it is going to write: the calls whose entries it holds
  lock,    \* the call that holds the mutex
  synced,  \* calls whose temporary file is synced
  file,    \* what a reader finds, as a set of calls; empty is no file
  frail,   \* files whose content was renamed in place without a sync
  kept,    \* what the disk has of each file should the power fail
  lost     \* the power failed, or the run was deleted

storeVars == <<backend, save, data, lock, synced, file, frail, kept, lost>>

File == {"run", "step", "memory"}
Content == SUBSET (Saver \cup {Torn})

StoreInit ==
  /\ backend \in Backends
  /\ save = [s \in Saver |-> "idle"] /\ data = [s \in Saver |-> {}]
  /\ lock = Unlocked /\ synced = {}
  /\ file = [f \in File |-> {}] /\ kept = [f \in File |-> {}]
  /\ frail = {} /\ lost = FALSE

Go(s, from, to) == save[s] = from /\ save' = [save EXCEPT ![s] = to]
diskVars == <<file, frail, kept, lost>>
-------------------------------------------------------------------------------
(* FileStorage.                                                              *)

\* A run or a step result is replaced; an entry of the memory is added to the others.
Merged(s, old) ==
  IF Target[s] = "memory" THEN {t \in old : Key[t] # Key[s]} \cup {s} ELSE {s}

BeginUnlocked(s) ==      \* mutant
  /\ backend = "file" /\ Go(s, "idle", "begun")
  /\ lock' = s /\ data' = [data EXCEPT ![s] = {}]
  /\ UNCHANGED <<backend, synced, diskVars>>
Begin(s) ==
  /\ backend = "file" /\ lock = Unlocked /\ Go(s, "idle", "begun")
  /\ lock' = s /\ data' = [data EXCEPT ![s] = {}]
  /\ UNCHANGED <<backend, synced, diskVars>>

\* SaveSharedMemory reads the file under the same lock; one it cannot decode fails it.
ReadExisting(s) ==
  /\ Go(s, "begun", "read") /\ (Target[s] = "memory" => Torn \notin file["memory"])
  /\ data' = [data EXCEPT ![s] = Merged(s, file[Target[s]])]
  /\ UNCHANGED <<backend, lock, synced, diskVars>>

WriteTemp(s) ==
  /\ Go(s, "read", "written")
  /\ UNCHANGED <<backend, data, lock, synced, diskVars>>

SyncSkipped(s) ==      \* mutant
  /\ Go(s, "written", "synced")
  /\ UNCHANGED <<backend, data, lock, synced, diskVars>>
SyncTemp(s) ==
  /\ Go(s, "written", "synced") /\ synced' = synced \cup {s}
  /\ UNCHANGED <<backend, data, lock, diskVars>>

Rename(s) ==
  /\ Go(s, "synced", "renamed")
  /\ file' = [file EXCEPT ![Target[s]] = data[s]]
  /\ frail' = IF s \in synced THEN frail \ {Target[s]} ELSE frail \cup {Target[s]}
  /\ UNCHANGED <<backend, data, lock, synced, kept, lost>>

SaveReturns(s) ==
  /\ Go(s, "renamed", "saved")
  /\ lock' = Unlocked /\ synced' = synced \ {s} /\ data' = [data EXCEPT ![s] = {}]
  /\ UNCHANGED <<backend, diskVars>>

\* An error removes the temporary file and leaves the old content.
Fail(s) ==
  /\ save[s] \in {"begun", "read", "written", "synced"}
  /\ save' = [save EXCEPT ![s] = "idle"]
  /\ lock' = Unlocked /\ synced' = synced \ {s} /\ data' = [data EXCEPT ![s] = {}]
  /\ UNCHANGED <<backend, diskVars>>

\* What Load of a run, a step result or the memory gives.
LoadFile(f) ==
  CASE file[f] = {} -> "not found"
    [] Torn \in file[f] -> "undecodable"
    [] OTHER -> "found"
-------------------------------------------------------------------------------
(* MemoryStorage: copies under one lock.                                     *)

MemSave(s) ==
  /\ backend = "mem" /\ Go(s, "idle", "saved")
  /\ file' = [file EXCEPT ![Target[s]] = Merged(s, @)]
  /\ UNCHANGED <<backend, data, lock, synced, frail, kept, lost>>

DeleteRun ==
  /\ backend = "mem" /\ ~lost
  /\ file' = [f \in File |-> {}] /\ lost' = TRUE
  /\ UNCHANGED <<backend, save, data, lock, synced, frail, kept>>
-------------------------------------------------------------------------------
(* The process and the disk.                                                 *)

\* Calls that had returned keep their promise; MemoryStorage promises nothing.
Restarted == [s \in Saver |-> IF save[s] = "saved" /\ backend = "file" THEN "saved" ELSE "idle"]

Crash ==
  /\ save' = Restarted
  /\ data' = [s \in Saver |-> {}] /\ lock' = Unlocked /\ synced' = {}
  /\ file' = IF backend = "mem" THEN [f \in File |-> {}] ELSE file
  /\ UNCHANGED <<backend, frail, kept, lost>>

\* The directory is written back at the system's leisure: nobody syncs it.
WriteBack(f) ==
  /\ backend = "file" /\ kept[f] # file[f]
  /\ kept' = [kept EXCEPT ![f] = IF f \in frail THEN {Torn} ELSE file[f]]
  /\ UNCHANGED <<backend, save, data, lock, synced, file, frail, lost>>

PowerFails ==
  /\ backend = "file" /\ ~lost
  /\ lost' = TRUE
  /\ save' = [s \in Saver |-> "idle"]
  /\ data' = [s \in Saver |-> {}] /\ lock' = Unlocked /\ synced' = {}
  /\ file' = kept /\ frail' = {}
  /\ UNCHANGED <<backend, kept>>

StoreNext ==
  \/ \E s \in Saver : \/ Begin(s) \/ ReadExisting(s) \/ WriteTemp(s) \/ SyncTemp(s)
                      \/ Rename(s) \/ SaveReturns(s) \/ Fail(s) \/ MemSave(s)
  \/ DeleteRun \/ Crash \/ PowerFails
  \/ \E f \in File : WriteBack(f)

StoreSpec == StoreInit /\ [][StoreNext]_storeVars
-------------------------------------------------------------------------------
StoreTypeOK ==
  /\ backend \in Backends
  /\ save \in [Saver -> {"idle", "begun", "read", "written", "synced", "renamed", "saved"}]
  /\ data \in [Saver -> Content] /\ lock \in Saver \cup {Unlocked} /\ synced \subseteq Saver
  /\ file \in [File -> Content] /\ kept \in [File -> Content]
  /\ frail \subseteq File /\ lost \in BOOLEAN

\* Whatever fails or ends in between, a reader finds a whole file that one call wrote,
\* with one value for each entry; and a save that returned without an error is found, or
\* was overwritten by a later one, until the power fails.
StoreIntact ==
  /\ \A f \in File : LoadFile(f) # "undecodable"
  /\ \A f \in File : \A s, t \in file[f] :
       Target[s] = f /\ (Key[s] = Key[t] \/ f # "memory" => s = t)
  /\ ~lost => \A s \in Saver :
       save[s] = "saved" =>
         \E t \in file[Target[s]] : Target[s] = "memory" => Key[t] = Key[s]
===============================================================================
