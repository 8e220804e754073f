----------------------------- MODULE SettingsStore -----------------------------
(* settings/store.py: settings.json, the cache that is trusted while the file's *)
(* signature stays the same, and the threads of the program that read and       *)
(* update it under one lock.  Another process or an editor may change the file  *)
(* at any moment, a read may fail, and the program may crash between two steps. *)
(*                                                                              *)
(* Of the settings the model keeps two sections with one entry for each thread: *)
(* `locked' (the strategies the orchestra locks, edited by a function that runs *)
(* under the lock) and `profiles' (user profiles, read and later written back). *)
(* A file that is not normalised holds the same entries in another form.        *)
EXTENDS Integers

CONSTANTS
    Clients,   \* threads of the program
    Free,      \* nobody holds the lock
    NoCache,
    Outside,   \* contents others may give the file
    MaxStamp   \* bound on the changes of the file explored

VARIABLES
    file,      \* settings.json
    stamp,     \* mtime and size of the file: changes with every write
    backup,    \* settings.json.corrupt.bak
    cache,     \* _SETTINGS_CACHE
    cacheSig,  \* _SETTINGS_CACHE_SIGNATURE
    cacheMat,  \* _SETTINGS_CACHE_MATERIALIZED
    lock,      \* holder of _SETTINGS_LOCK
    pc,        \* where each thread is
    op,        \* its operation
    cur,       \* the settings in its hands
    seen,      \* the profiles it read before it writes them back
    intended,  \* history: `locked' as the completed writes leave it
    raced      \* history: the file was changed from outside during an operation

disk == <<file, stamp, backup>>
cached == <<cache, cacheSig, cacheMat>>
local == <<lock, pc, op, cur, seen>>
vars == <<disk, cached, local, intended, raced>>

Data == [locked : SUBSET Clients, profiles : SUBSET Clients]
Defaults == [locked |-> {}, profiles |-> {}]
Readable == [kind : {"raw", "normal"}, data : Data]
Unreadable == [kind : {"missing", "corrupt"}, data : {Defaults}]
Files == Readable \cup Unreadable

ASSUME StoreAssumption ==
    /\ Free \notin Clients
    /\ NoCache \notin Data
    /\ Outside \subseteq Files
    /\ MaxStamp \in Nat \ {0}

Missing == [kind |-> "missing", data |-> Defaults]
Normal(d) == [kind |-> "normal", data |-> d]

Operations == {"load", "revision", "lock", "unlock", "getProfiles", "setProfiles", "reset"}
Places == {"idle", "between", "load", "backup", "repair", "fill", "have", "save", "saved"}

\* _settings_file_signature
Signature == IF file.kind = "missing" THEN 0 ELSE stamp

Init ==
    /\ file \in {Missing, Normal(Defaults)}
    /\ stamp = 1
    /\ backup = Missing
    /\ cache = NoCache
    /\ cacheSig = 0
    /\ cacheMat = FALSE
    /\ lock = Free
    /\ pc = [c \in Clients |-> "idle"]
    /\ op = [c \in Clients |-> "load"]
    /\ cur = [c \in Clients |-> Defaults]
    /\ seen = [c \in Clients |-> {}]
    /\ intended = {}
    /\ raced = FALSE

\* Everything but get_user_profiles_revision reads with materialize=True.
Materializes(c) == op[c] # "revision"

At(c, place) == pc[c] = place
Goto(c, place) == pc' = [pc EXCEPT ![c] = place] /\ UNCHANGED <<lock, op, seen>>
Hold(c, data) == cur' = [cur EXCEPT ![c] = data]

\* The lock is released with the result.
Return(c) ==
    /\ pc' = [pc EXCEPT ![c] = IF op[c] = "getProfiles" THEN "between" ELSE "idle"]
    /\ seen' = [seen EXCEPT ![c] = IF op[c] = "getProfiles" THEN cur[c].profiles ELSE {}]
    /\ cur' = [cur EXCEPT ![c] = Defaults]
    /\ op' = [op EXCEPT ![c] = "load"]
    /\ lock' = Free

BeginTrustsSignature(c, o) ==                                         \* mutant
    LET useCache == cacheSig = Signature /\ (cacheMat \/ o = "revision")
    IN  /\ lock = Free
        /\ pc[c] = IF o = "setProfiles" THEN "between" ELSE "idle"
        /\ lock' = c
        /\ op' = [op EXCEPT ![c] = o]
        /\ Hold(c, IF useCache /\ o # "reset" THEN cache ELSE Defaults)
        /\ pc' = [pc EXCEPT ![c] = IF o = "reset" THEN "save"
                                   ELSE IF useCache THEN "have" ELSE "load"]
        /\ UNCHANGED <<disk, cached, seen, intended, raced>>

BeginUnlocked(c, o) ==                                                \* mutant
    LET useCache == cache # NoCache /\ cacheSig = Signature /\ (cacheMat \/ o = "revision")
    IN  /\ pc[c] = IF o = "setProfiles" THEN "between" ELSE "idle"
        /\ lock' = c
        /\ op' = [op EXCEPT ![c] = o]
        /\ Hold(c, IF useCache /\ o # "reset" THEN cache ELSE Defaults)
        /\ pc' = [pc EXCEPT ![c] = IF o = "reset" THEN "save"
                                   ELSE IF useCache THEN "have" ELSE "load"]
        /\ UNCHANGED <<disk, cached, seen, intended, raced>>

\* Takes the lock and decides whether the cache may be used.
Begin(c, o) ==
    LET useCache == cache # NoCache /\ cacheSig = Signature /\ (cacheMat \/ o = "revision")
    IN  /\ lock = Free
        /\ pc[c] = IF o = "setProfiles" THEN "between" ELSE "idle"
        /\ lock' = c
        /\ op' = [op EXCEPT ![c] = o]
        /\ Hold(c, IF useCache /\ o # "reset" THEN cache ELSE Defaults)
        /\ pc' = [pc EXCEPT ![c] = IF o = "reset" THEN "save"
                                   ELSE IF useCache THEN "have" ELSE "load"]
        /\ UNCHANGED <<disk, cached, seen, intended, raced>>

\* _read_settings_file_locked up to its first write.  Any read may fail.
LoadMissing(c) ==
    /\ At(c, "load") /\ file.kind = "missing"
    /\ Hold(c, Defaults)
    /\ Goto(c, IF Materializes(c) THEN "repair" ELSE "fill")
    /\ UNCHANGED <<disk, cached, intended, raced>>

LoadReads(c) ==
    /\ At(c, "load") /\ file \in Readable
    /\ Hold(c, file.data)
    /\ Goto(c, IF Materializes(c) /\ file.kind = "raw" THEN "repair" ELSE "fill")
    /\ UNCHANGED <<disk, cached, intended, raced>>

LoadFails(c) ==
    /\ At(c, "load") /\ file.kind # "missing"
    /\ Hold(c, Defaults)
    /\ Goto(c, "backup")
    /\ UNCHANGED <<disk, cached, intended, raced>>

\* _backup_corrupt_settings_locked; an OSError there is swallowed.
Backup(c) ==
    /\ At(c, "backup")
    /\ backup' \in {backup} \cup (IF file.kind = "missing" THEN {} ELSE {file})
    /\ Goto(c, IF Materializes(c) THEN "repair" ELSE "fill")
    /\ UNCHANGED <<file, stamp, cached, cur, intended, raced>>

\* os.replace in atomic_write_text: the new text is there as a whole.
Replace(c) ==
    /\ pc[c] \in {"repair", "save"}
    /\ stamp < MaxStamp
    /\ file' = Normal(cur[c])
    /\ stamp' = stamp + 1
    /\ intended' = IF raced \/ At(c, "repair") THEN cur[c].locked
                   ELSE CASE op[c] = "lock"   -> intended \cup {c}
                          [] op[c] = "unlock" -> intended \ {c}
                          [] op[c] = "reset"  -> {}
                          [] OTHER            -> intended
    /\ Goto(c, IF At(c, "repair") THEN "fill" ELSE "saved")
    /\ UNCHANGED <<backup, cached, cur, raced>>

WriteFailsLocked(c) ==                                                \* mutant
    /\ pc[c] \in {"repair", "save"}
    /\ pc' = [pc EXCEPT ![c] = "idle"]
    /\ seen' = [seen EXCEPT ![c] = {}]
    /\ Hold(c, Defaults)
    /\ op' = [op EXCEPT ![c] = "load"]
    /\ UNCHANGED <<lock, disk, cached, intended, raced>>

\* The write raises: the caller gets the exception, the lock is released.
WriteFails(c) ==
    /\ pc[c] \in {"repair", "save"}
    /\ pc' = [pc EXCEPT ![c] = "idle"]
    /\ seen' = [seen EXCEPT ![c] = {}]
    /\ Hold(c, Defaults)
    /\ op' = [op EXCEPT ![c] = "load"]
    /\ lock' = Free
    /\ UNCHANGED <<disk, cached, intended, raced>>

\* The cache takes the settings and the signature the file has by now.
FillCache(c, mat) ==
    /\ cache' = cur[c]
    /\ cacheSig' = Signature
    /\ cacheMat' = mat
    /\ UNCHANGED <<disk, intended, raced>>

FillMaterialized(c) ==                                                \* mutant
    /\ At(c, "fill")
    /\ FillCache(c, TRUE)
    /\ Goto(c, "have")
    /\ UNCHANGED cur

Fill(c) ==
    /\ At(c, "fill")
    /\ FillCache(c, Materializes(c))
    /\ Goto(c, "have")
    /\ UNCHANGED cur

Saved(c) ==
    /\ At(c, "saved")
    /\ FillCache(c, TRUE)
    /\ Return(c)

\* The mutators: the orchestra edits its section in place, user_profiles/service
\* puts back the profiles it read earlier, with its own change.
Mutated(c) ==
    CASE op[c] = "lock"        -> [cur[c] EXCEPT !.locked = @ \cup {c}]
      [] op[c] = "unlock"      -> [cur[c] EXCEPT !.locked = @ \ {c}]
      [] op[c] = "setProfiles" -> [cur[c] EXCEPT !.profiles = seen[c] \cup {c}]
      [] OTHER                 -> cur[c]

\* The rest of _update_settings, or the return of a read.
Finish(c) ==
    /\ At(c, "have")
    /\ IF Mutated(c) = cur[c]
       THEN Return(c)
       ELSE Hold(c, Mutated(c)) /\ Goto(c, "save")
    /\ UNCHANGED <<disk, cached, intended, raced>>

\* Somebody else edits, damages or deletes the file.
External(f) ==
    /\ stamp < MaxStamp
    /\ file' = f
    /\ stamp' = stamp + 1
    /\ intended' = f.data.locked
    /\ raced' = (raced \/ lock # Free)
    /\ UNCHANGED <<backup, cached, local>>

\* The program dies and starts again.
Crash ==
    /\ cache' = NoCache /\ cacheSig' = 0 /\ cacheMat' = FALSE
    /\ lock' = Free
    /\ pc' = [c \in Clients |-> "idle"]
    /\ op' = [c \in Clients |-> "load"]
    /\ cur' = [c \in Clients |-> Defaults]
    /\ seen' = [c \in Clients |-> {}]
    /\ UNCHANGED <<disk, intended, raced>>

Steps(c) ==
    \/ LoadMissing(c) \/ LoadReads(c) \/ LoadFails(c) \/ Backup(c)
    \/ Replace(c) \/ WriteFails(c) \/ Fill(c) \/ Saved(c) \/ Finish(c)

Next ==
    \/ \E c \in Clients : Steps(c) \/ \E o \in Operations : Begin(c, o)
    \/ \E f \in Outside : External(f)
    \/ Crash

(* The holder of the lock goes on.  Nobody owes an operation.                   *)
Fairness == \A c \in Clients : WF_vars(Steps(c))
Spec == Init /\ [][Next]_vars /\ Fairness

--------------------------------------------------------------------------------
\* Type invariant: the file, its backup, the cache and the callers hold the values the code gives them.
TypeOK ==
    /\ file \in Files /\ backup \in Files
    /\ stamp \in 1 .. MaxStamp
    /\ cache \in Data \cup {NoCache}
    /\ cacheSig \in 0 .. MaxStamp
    /\ cacheMat \in BOOLEAN /\ raced \in BOOLEAN
    /\ lock \in Clients \cup {Free}
    /\ pc \in [Clients -> Places]
    /\ op \in [Clients -> Operations]
    /\ cur \in [Clients -> Data]
    /\ seen \in [Clients -> SUBSET Clients]
    /\ intended \subseteq Clients

CacheTrusted == lock = Free /\ cache # NoCache /\ cacheSig = Signature

\* A cache marked as materialised that the next read will trust is what stands in
\* a normalised file, even after failed reads, failed writes and crashes, unless
\* the file was changed from outside in the middle of an operation.
MaterializedCacheIsFile ==
    CacheTrusted /\ cacheMat /\ ~raced => file = Normal(cache)

\* No thread's edit under the lock is undone by another thread: the file holds
\* exactly the strategies locked and not unlocked since the last reset, repair or
\* change from outside.
LockedEditsSurvive == lock = Free /\ ~raced => file.data.locked = intended

\* Every operation returns: a failed read or write never leaves the lock taken.
OperationsReturn == \A c \in Clients : lock = c ~> lock # c
================================================================================
