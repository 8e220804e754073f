-------------------------- MODULE SettingsStore_proofs --------------------------
(* Proofs about SettingsStore, for any number of threads and any contents others *)
(* may give the file.  Whoever holds the lock is the only thread in the middle   *)
(* of an operation, and unless the file was changed behind its back the settings *)
(* in its hands stand in a known relation to the file.                           *)
EXTENDS SettingsStore, TLAPS

Busy(c) == pc[c] \notin {"idle", "between"}

\* The settings in the hands of the holder of the lock.
HolderInv(c) ==
    /\ pc[c] = "saved" => file = Normal(cur[c])
    /\ pc[c] \in {"fill", "have"} /\ Materializes(c) => file = Normal(cur[c])
    /\ pc[c] = "save" =>
         /\ op[c] = "lock"   => cur[c].locked = intended \cup {c}
         /\ op[c] = "unlock" => cur[c].locked = intended \ {c}
         /\ op[c] = "reset"  => cur[c].locked = {}
         /\ op[c] \notin {"lock", "unlock", "reset"} => cur[c].locked = intended

LockInv == \A c \in Clients : Busy(c) <=> lock = c

\* A materialised cache was filled from an existing file and is stale as soon as
\* the file has changed.
CacheInv ==
    cache # NoCache /\ cacheMat =>
        /\ cacheSig # 0 /\ cacheSig <= stamp
        /\ cacheSig = Signature => file = Normal(cache)

IInv ==
    /\ TypeOK
    /\ LockInv
    /\ cacheSig <= stamp
    /\ ~raced => /\ CacheInv
                 /\ file.data.locked = intended
                 /\ \A c \in Clients : HolderInv(c)

--------------------------------------------------------------------------------
LEMMA Assumed == Free \notin Clients /\ NoCache \notin Data /\ Outside \subseteq Files /\ MaxStamp \in Nat \ {0}
BY StoreAssumption DEF StoreAssumption

LEMMA MutatedLock == ASSUME NEW c, op[c] = "lock"
                     PROVE  Mutated(c) = [cur[c] EXCEPT !.locked = @ \cup {c}]
BY Zenon DEF Mutated

LEMMA MutatedUnlock == ASSUME NEW c, op[c] = "unlock"
                       PROVE  Mutated(c) = [cur[c] EXCEPT !.locked = @ \ {c}]
BY Zenon DEF Mutated

LEMMA MutatedSet == ASSUME NEW c, op[c] = "setProfiles"
                    PROVE  Mutated(c) = [cur[c] EXCEPT !.profiles = seen[c] \cup {c}]
BY Zenon DEF Mutated

LEMMA MutatedOther == ASSUME NEW c, op[c] \notin {"lock", "unlock", "setProfiles"}
                      PROVE  Mutated(c) = cur[c]
BY Zenon DEF Mutated

LEMMA MutatedData ==
    ASSUME TypeOK, NEW c \in Clients
    PROVE  /\ Mutated(c) \in Data
           /\ op[c] = "lock" => Mutated(c).locked = cur[c].locked \cup {c}
           /\ op[c] = "unlock" => Mutated(c).locked = cur[c].locked \ {c}
           /\ op[c] \notin {"lock", "unlock"} => Mutated(c).locked = cur[c].locked
<1>1. cur[c] \in Data /\ seen[c] \subseteq Clients /\ op[c] \in Operations
  BY DEF TypeOK
<1>2. CASE op[c] = "lock"
  BY <1>1, <1>2, MutatedLock DEF Data
<1>3. CASE op[c] = "unlock"
  BY <1>1, <1>3, MutatedUnlock DEF Data
<1>4. CASE op[c] = "setProfiles"
  BY <1>1, <1>4, MutatedSet DEF Data
<1>5. CASE op[c] \notin {"lock", "unlock", "setProfiles"}
  BY <1>1, <1>5, MutatedOther
<1> QED BY <1>2, <1>3, <1>4, <1>5

LEMMA ReplaceIntends ==
    ASSUME NEW c, Replace(c)
    PROVE  /\ raced \/ pc[c] = "repair" => intended' = cur[c].locked
           /\ ~raced /\ pc[c] # "repair" =>
                /\ op[c] = "lock" => intended' = intended \cup {c}
                /\ op[c] = "unlock" => intended' = intended \ {c}
                /\ op[c] = "reset" => intended' = {}
                /\ op[c] \notin {"lock", "unlock", "reset"} => intended' = intended
<1>1. raced \/ pc[c] = "repair" => intended' = cur[c].locked
  BY Zenon DEF Replace, At
<1>2. ASSUME ~raced /\ pc[c] # "repair"
      PROVE  intended' = CASE op[c] = "lock"   -> intended \cup {c}
                           [] op[c] = "unlock" -> intended \ {c}
                           [] op[c] = "reset"  -> {}
                           [] OTHER            -> intended
  BY <1>2, Zenon DEF Replace, At
<1>3. ~raced /\ pc[c] # "repair" /\ op[c] = "lock" => intended' = intended \cup {c}
  BY <1>2, Zenon
<1>4. ~raced /\ pc[c] # "repair" /\ op[c] = "unlock" => intended' = intended \ {c}
  BY <1>2, Zenon
<1>5. ~raced /\ pc[c] # "repair" /\ op[c] = "reset" => intended' = {}
  BY <1>2, Zenon
<1>6. ~raced /\ pc[c] # "repair" /\ op[c] \notin {"lock", "unlock", "reset"} => intended' = intended
  BY <1>2, Zenon
<1> QED BY <1>1, <1>3, <1>4, <1>5, <1>6

LEMMA FilesFacts ==
    /\ \A d \in Data : Normal(d) \in Files /\ Normal(d).data = d /\ Normal(d).kind = "normal"
    /\ \A f \in Files : f.kind \in {"raw", "normal", "missing", "corrupt"} /\ f.data \in Data
    /\ \A f \in Files : f.kind = "normal" => f = Normal(f.data)
    /\ Missing \in Files /\ Missing.data = Defaults /\ Missing.kind = "missing"
    /\ Defaults \in Data
    /\ \A d \in Data : d.locked \subseteq Clients
    /\ Defaults.locked = {}
BY DEF Normal, Files, Readable, Unreadable, Data, Defaults, Missing

\* A step of the holder c that leaves the other threads where they are: what is
\* known of them needs no new proof.
LEMMA OthersIdle ==
    ASSUME LockInv, NEW c \in Clients, lock = c, NEW d \in Clients, d # c,
           pc'[d] = pc[d]
    PROVE  ~Busy(d) /\ ~Busy(d)' /\ HolderInv(d)'
BY DEF LockInv, Busy, HolderInv

LEMMA Holds == ASSUME LockInv, NEW c \in Clients, Busy(c) PROVE lock = c
BY DEF LockInv

\* A step of the holder that only reads: the file, the cache and the history stay.
LEMMA ReadSound ==
    ASSUME IInv, NEW c \in Clients, lock = c, UNCHANGED <<disk, cached, intended, raced>>,
           NEW p \in Places, p \notin {"idle", "between"}, Goto(c, p),
           cur' \in [Clients -> Data], ~raced => HolderInv(c)'
    PROVE  IInv'
<1>1. TypeOK'
  BY DEF IInv, TypeOK, Goto, disk, cached
<1>2. pc'[c] = p /\ lock' = c /\ \A d \in Clients \ {c} : pc'[d] = pc[d]
  BY DEF IInv, TypeOK, Goto
<1>3. LockInv'
  BY <1>2, OthersIdle DEF IInv, LockInv, Busy
<1>4. ~raced => \A d \in Clients : HolderInv(d)'
  BY <1>2, OthersIdle DEF IInv
<1>5. CacheInv => CacheInv'
  BY DEF CacheInv, Signature, disk, cached
<1> QED BY <1>1, <1>3, <1>4, <1>5 DEF IInv, disk, cached

\* A step that ends the operation of the holder.
LEMMA ReturnSound ==
    ASSUME IInv, NEW c \in Clients, lock = c, UNCHANGED <<disk, intended, raced>>,
           NEW p \in {"idle", "between"}, pc' = [pc EXCEPT ![c] = p], lock' = Free,
           op' = [op EXCEPT ![c] = "load"], cur' = [cur EXCEPT ![c] = Defaults],
           NEW s \in SUBSET Clients, seen' = [seen EXCEPT ![c] = s],
           cache' \in Data \cup {NoCache}, cacheSig' \in 0 .. MaxStamp, cacheMat' \in BOOLEAN,
           cacheSig' <= stamp, ~raced => CacheInv'
    PROVE  IInv'
<1>1. TypeOK'
  BY FilesFacts DEF IInv, TypeOK, disk, Places, Operations
<1>2. pc'[c] = p /\ \A d \in Clients \ {c} : pc'[d] = pc[d]
  BY DEF IInv, TypeOK
<1>3. \A d \in Clients : ~Busy(d)'
  BY <1>2, OthersIdle DEF IInv, Busy
<1>4. LockInv'
  BY <1>3, Assumed DEF LockInv
<1>5. \A d \in Clients : HolderInv(d)'
  BY <1>3 DEF HolderInv, Busy
<1> QED BY <1>1, <1>4, <1>5 DEF IInv, disk

LEMMA BeginSound ==
    ASSUME IInv, NEW c \in Clients, NEW o \in Operations, Begin(c, o)
    PROVE  IInv'
<1> DEFINE useCache == cache # NoCache /\ cacheSig = Signature /\ (cacheMat \/ o = "revision")
<1>0. TypeOK /\ LockInv
  BY DEF IInv
<1>1. /\ lock = Free /\ lock' = c
      /\ op' = [op EXCEPT ![c] = o]
      /\ cur' = [cur EXCEPT ![c] = IF useCache /\ o # "reset" THEN cache ELSE Defaults]
      /\ pc' = [pc EXCEPT ![c] = IF o = "reset" THEN "save" ELSE IF useCache THEN "have" ELSE "load"]
      /\ UNCHANGED <<file, stamp, backup, cache, cacheSig, cacheMat, seen, intended, raced>>
  BY DEF Begin, Hold, disk, cached
<1>2. TypeOK'
  BY <1>0, <1>1, FilesFacts DEF TypeOK, Places
<1>3. /\ pc'[c] = (IF o = "reset" THEN "save" ELSE IF useCache THEN "have" ELSE "load")
      /\ op'[c] = o
      /\ cur'[c] = (IF useCache /\ o # "reset" THEN cache ELSE Defaults)
      /\ \A d \in Clients \ {c} : pc'[d] = pc[d]
  BY <1>0, <1>1 DEF TypeOK
<1>4. \A d \in Clients : ~Busy(d)
  BY <1>0, <1>1, Assumed DEF LockInv
<1>5. LockInv'
  BY <1>1, <1>3, <1>4 DEF LockInv, Busy
<1>6. ~raced => HolderInv(c)'
  <2> SUFFICES ASSUME ~raced PROVE HolderInv(c)'
    OBVIOUS
  <2>1. CASE o = "reset"
    BY <1>3, <2>1, FilesFacts DEF HolderInv
  <2>2. CASE o # "reset" /\ useCache
    <3>1. o # "revision" => file = Normal(cache)
      BY <2>2 DEF IInv, CacheInv
    <3> QED BY <1>1, <1>3, <2>2, <3>1 DEF HolderInv, Materializes, Normal
  <2>3. CASE o # "reset" /\ ~useCache
    BY <1>3, <2>3 DEF HolderInv
  <2> QED BY <2>1, <2>2, <2>3
<1>7. \A d \in Clients \ {c} : HolderInv(d)'
  BY <1>3, <1>4 DEF HolderInv, Busy
<1>8. CacheInv => CacheInv'
  BY <1>1 DEF CacheInv, Signature
<1> QED BY <1>1, <1>2, <1>5, <1>6, <1>7, <1>8 DEF IInv

LEMMA LoadSound ==
    ASSUME IInv, NEW c \in Clients, LoadMissing(c) \/ LoadReads(c) \/ LoadFails(c)
    PROVE  IInv'
<1>0. TypeOK /\ lock = c /\ pc[c] = "load"
  <2>1. pc[c] = "load" /\ Busy(c)
    BY DEF LoadMissing, LoadReads, LoadFails, At, Busy
  <2> QED BY <2>1, Holds DEF IInv
<1>1. /\ UNCHANGED <<disk, cached, intended, raced>>
      /\ \E data \in Data : cur' = [cur EXCEPT ![c] = data]
  BY <1>0, FilesFacts DEF LoadMissing, LoadReads, LoadFails, Hold, Readable
<1>2. cur' \in [Clients -> Data]
  BY <1>0, <1>1 DEF TypeOK
<1>3. CASE LoadMissing(c)
  <2>1. PICK p \in {"repair", "fill"} : Goto(c, p) /\ (p = "fill" => ~Materializes(c))
    BY <1>3 DEF LoadMissing
  <2>2. pc'[c] = p /\ op' = op
    BY <1>0, <2>1 DEF Goto, TypeOK
  <2>3. HolderInv(c)'
    BY <2>1, <2>2 DEF HolderInv, Materializes
  <2>4. p \in Places
    BY DEF Places
  <2> QED BY <1>0, <1>1, <1>2, <2>1, <2>3, <2>4, ReadSound
<1>4. CASE LoadReads(c)
  <2>1. PICK p \in {"repair", "fill"} :
           Goto(c, p) /\ (p = "fill" => ~Materializes(c) \/ file.kind # "raw")
    BY <1>4 DEF LoadReads
  <2>2. pc'[c] = p /\ op' = op /\ cur'[c] = file.data /\ file' = file
    BY <1>0, <1>4, <2>1 DEF Goto, TypeOK, LoadReads, Hold, disk
  <2>3. file.kind # "raw" => file = Normal(file.data)
    BY <1>4 DEF LoadReads, Readable, Normal
  <2>4. HolderInv(c)'
    BY <2>1, <2>2, <2>3 DEF HolderInv, Materializes, Normal
  <2>5. p \in Places
    BY DEF Places
  <2> QED BY <1>0, <1>1, <1>2, <2>1, <2>4, <2>5, ReadSound
<1>5. CASE LoadFails(c)
  <2>1. Goto(c, "backup") /\ pc'[c] = "backup"
    BY <1>0, <1>5 DEF Goto, TypeOK, LoadFails
  <2>2. HolderInv(c)' /\ "backup" \in Places
    BY <2>1 DEF HolderInv, Places
  <2> QED BY <1>0, <1>1, <1>2, <2>1, <2>2, ReadSound
<1> QED BY <1>3, <1>4, <1>5

LEMMA BackupSound ==
    ASSUME IInv, NEW c \in Clients, Backup(c)
    PROVE  IInv'
<1>0. TypeOK /\ LockInv /\ lock = c /\ pc[c] = "backup"
  <2>1. pc[c] = "backup" /\ Busy(c)
    BY DEF Backup, At, Busy
  <2> QED BY <2>1, Holds DEF IInv
<1>1. /\ UNCHANGED <<file, stamp, cache, cacheSig, cacheMat, cur, op, seen, lock, intended, raced>>
      /\ backup' \in {backup, file}
  BY DEF Backup, Goto, cached
<1>2. PICK p \in {"repair", "fill"} : /\ pc' = [pc EXCEPT ![c] = p]
                                      /\ p = "fill" => ~Materializes(c)
  BY DEF Backup, Goto
<1>3. TypeOK'
  BY <1>0, <1>1, <1>2 DEF TypeOK, Places
<1>4. pc'[c] = p /\ \A d \in Clients \ {c} : pc'[d] = pc[d]
  BY <1>0, <1>2 DEF TypeOK
<1>5. LockInv'
  BY <1>0, <1>1, <1>4, OthersIdle DEF LockInv, Busy
<1>6. HolderInv(c)'
  BY <1>1, <1>2, <1>4 DEF HolderInv, Materializes
<1>7. \A d \in Clients : HolderInv(d)'
  BY <1>0, <1>4, <1>6, OthersIdle
<1>8. CacheInv => CacheInv'
  BY <1>1 DEF CacheInv, Signature
<1> QED BY <1>1, <1>3, <1>5, <1>7, <1>8 DEF IInv

LEMMA ReplaceSound ==
    ASSUME IInv, NEW c \in Clients, Replace(c)
    PROVE  IInv'
<1>0. TypeOK /\ LockInv /\ lock = c /\ pc[c] \in {"repair", "save"} /\ stamp < MaxStamp
  <2>1. pc[c] \in {"repair", "save"} /\ Busy(c)
    BY DEF Replace, Busy
  <2> QED BY <2>1, Holds DEF IInv, Replace
<1>1. /\ file' = Normal(cur[c]) /\ stamp' = stamp + 1
      /\ UNCHANGED <<backup, cache, cacheSig, cacheMat, cur, op, seen, lock, raced>>
      /\ pc' = [pc EXCEPT ![c] = IF pc[c] = "repair" THEN "fill" ELSE "saved"]
  BY DEF Replace, Goto, At, cached
<1>2. cur[c] \in Data /\ cur[c].locked \subseteq Clients /\ intended \subseteq Clients
  BY <1>0, FilesFacts DEF TypeOK
<1>3. /\ raced \/ pc[c] = "repair" => intended' = cur[c].locked
      /\ ~raced /\ pc[c] # "repair" =>
           /\ op[c] = "lock" => intended' = intended \cup {c}
           /\ op[c] = "unlock" => intended' = intended \ {c}
           /\ op[c] = "reset" => intended' = {}
           /\ op[c] \notin {"lock", "unlock", "reset"} => intended' = intended
  BY ReplaceIntends
<1>4. intended' \subseteq Clients
  BY <1>2, <1>3
<1>5. TypeOK'
  <2>1. stamp' \in 1 .. MaxStamp
    BY <1>0, <1>1, Assumed DEF TypeOK
  <2>2. file' \in Files
    BY <1>1, <1>2, FilesFacts
  <2>3. pc' \in [Clients -> Places]
    BY <1>0, <1>1 DEF TypeOK, Places
  <2> QED BY <1>0, <1>1, <1>4, <2>1, <2>2, <2>3 DEF TypeOK
<1>6. /\ pc'[c] = (IF pc[c] = "repair" THEN "fill" ELSE "saved")
      /\ \A d \in Clients \ {c} : pc'[d] = pc[d]
  BY <1>0, <1>1 DEF TypeOK
<1>7. LockInv'
  BY <1>0, <1>1, <1>6, OthersIdle DEF LockInv, Busy
<1>8. HolderInv(c)'
  BY <1>1, <1>6 DEF HolderInv, Normal
<1>9. \A d \in Clients : HolderInv(d)'
  BY <1>0, <1>6, <1>8, OthersIdle
<1>10. ~raced => file'.data.locked = intended'
  <2> SUFFICES ASSUME ~raced PROVE cur[c].locked = intended'
    BY <1>1, <1>2, FilesFacts
  <2>1. CASE pc[c] = "repair"
    BY <1>3, <2>1
  <2>2. CASE pc[c] = "save"
    BY <1>3, <2>2 DEF IInv, HolderInv
  <2> QED BY <1>0, <2>1, <2>2
<1>11. cacheSig' <= stamp' /\ cacheSig' # Signature'
  <2>1. Signature' = stamp'
    BY <1>1 DEF Signature, Normal
  <2> QED BY <1>0, <1>1, <2>1 DEF IInv, TypeOK
<1>12. CacheInv => CacheInv'
  BY <1>1, <1>11 DEF CacheInv
<1> QED BY <1>1, <1>5, <1>7, <1>9, <1>10, <1>11, <1>12 DEF IInv

LEMMA SignatureRange ==
    ASSUME IInv
    PROVE  /\ Signature \in 0 .. MaxStamp /\ Signature <= stamp
           /\ file.kind = "normal" => Signature # 0
<1>1. stamp \in 1 .. MaxStamp /\ MaxStamp \in Nat
  BY Assumed DEF IInv, TypeOK
<1> QED BY <1>1 DEF Signature

\* The cache was just filled: it is the file wherever it is marked so.
LEMMA FilledCache ==
    ASSUME IInv, NEW c \in Clients, NEW mat \in BOOLEAN, FillCache(c, mat),
           ~raced /\ mat => file = Normal(cur[c])
    PROVE  /\ cache' \in Data \cup {NoCache} /\ cacheSig' \in 0 .. MaxStamp /\ cacheMat' \in BOOLEAN
           /\ cacheSig' <= stamp
           /\ ~raced => CacheInv'
<1>1. cache' = cur[c] /\ cacheSig' = Signature /\ cacheMat' = mat /\ cur[c] \in Data
      /\ file' = file /\ stamp' = stamp /\ Signature' = Signature
  BY DEF FillCache, IInv, TypeOK, disk, Signature
<1>2. ~raced /\ mat => Signature # 0
  <2>1. Normal(cur[c]).kind = "normal"
    BY <1>1, FilesFacts
  <2> QED BY <2>1, SignatureRange
<1> QED BY <1>1, <1>2, SignatureRange DEF CacheInv

LEMMA FillSound ==
    ASSUME IInv, NEW c \in Clients, Fill(c)
    PROVE  IInv'
<1>0. TypeOK /\ LockInv /\ lock = c /\ pc[c] = "fill"
  <2>1. pc[c] = "fill" /\ Busy(c)
    BY DEF Fill, At, Busy
  <2> QED BY <2>1, Holds DEF IInv
<1>1. /\ FillCache(c, Materializes(c)) /\ Materializes(c) \in BOOLEAN
      /\ UNCHANGED <<disk, cur, op, seen, lock, intended, raced>>
      /\ pc' = [pc EXCEPT ![c] = "have"]
  BY DEF Fill, Goto, FillCache, Materializes
<1>2. ~raced => HolderInv(c)
  BY DEF IInv
<1>3. /\ cache' \in Data \cup {NoCache} /\ cacheSig' \in 0 .. MaxStamp /\ cacheMat' \in BOOLEAN
      /\ cacheSig' <= stamp
      /\ ~raced => CacheInv'
  BY <1>0, <1>1, <1>2, FilledCache DEF HolderInv
<1>4. TypeOK'
  BY <1>0, <1>1, <1>3 DEF TypeOK, Places, disk
<1>5. pc'[c] = "have" /\ \A d \in Clients \ {c} : pc'[d] = pc[d]
  BY <1>0, <1>1 DEF TypeOK
<1>6. LockInv'
  BY <1>0, <1>1, <1>5, OthersIdle DEF LockInv, Busy
<1>7. ~raced => HolderInv(c)'
  BY <1>0, <1>1, <1>2, <1>5 DEF HolderInv, Materializes, disk
<1>8. ~raced => \A d \in Clients : HolderInv(d)'
  BY <1>0, <1>5, <1>7, OthersIdle
<1> QED BY <1>1, <1>3, <1>4, <1>6, <1>8 DEF IInv, disk

LEMMA ReturnShape ==
    ASSUME IInv, NEW c \in Clients, Return(c)
    PROVE  \E p \in {"idle", "between"}, s \in SUBSET Clients :
              /\ pc' = [pc EXCEPT ![c] = p] /\ lock' = Free
              /\ op' = [op EXCEPT ![c] = "load"] /\ cur' = [cur EXCEPT ![c] = Defaults]
              /\ seen' = [seen EXCEPT ![c] = s]
<1>1. cur[c].profiles \subseteq Clients
  BY DEF IInv, TypeOK, Data
<1>2. CASE op[c] = "getProfiles"
  BY <1>1, <1>2 DEF Return
<1>3. CASE op[c] # "getProfiles"
  BY <1>3 DEF Return
<1> QED BY <1>2, <1>3

LEMMA SavedSound ==
    ASSUME IInv, NEW c \in Clients, Saved(c)
    PROVE  IInv'
<1>1. pc[c] = "saved" /\ lock = c /\ FillCache(c, TRUE) /\ Return(c)
      /\ UNCHANGED <<disk, intended, raced>>
  <2>1. pc[c] = "saved" /\ Busy(c)
    BY DEF Saved, At, Busy
  <2> QED BY <2>1, Holds DEF IInv, Saved, FillCache
<1>2. ~raced => file = Normal(cur[c])
  BY <1>1 DEF IInv, HolderInv
<1>3. /\ cache' \in Data \cup {NoCache} /\ cacheSig' \in 0 .. MaxStamp /\ cacheMat' \in BOOLEAN
      /\ cacheSig' <= stamp
      /\ ~raced => CacheInv'
  BY <1>1, <1>2, FilledCache
<1> QED BY <1>1, <1>3, ReturnShape, ReturnSound

LEMMA SameCache ==
    ASSUME IInv, UNCHANGED <<file, stamp, cache, cacheSig, cacheMat>>
    PROVE  /\ cache' \in Data \cup {NoCache} /\ cacheSig' \in 0 .. MaxStamp /\ cacheMat' \in BOOLEAN
           /\ cacheSig' <= stamp
           /\ ~raced => CacheInv'
<1>1. CacheInv => CacheInv'
  BY DEF CacheInv, Signature
<1> QED BY <1>1 DEF IInv, TypeOK

LEMMA FinishSound ==
    ASSUME IInv, NEW c \in Clients, Finish(c)
    PROVE  IInv'
<1>0. TypeOK /\ LockInv /\ lock = c /\ pc[c] = "have" /\ UNCHANGED <<disk, cached, intended, raced>>
  <2>1. pc[c] = "have" /\ Busy(c)
    BY DEF Finish, At, Busy
  <2> QED BY <2>1, Holds DEF IInv, Finish
<1>1. CASE Return(c)
  BY <1>0, <1>1, SameCache, ReturnShape, ReturnSound DEF disk, cached
<1>2. CASE /\ Mutated(c) # cur[c] /\ Hold(c, Mutated(c)) /\ Goto(c, "save")
  <2>1. /\ Mutated(c) \in Data
        /\ op[c] = "lock" => Mutated(c).locked = cur[c].locked \cup {c}
        /\ op[c] = "unlock" => Mutated(c).locked = cur[c].locked \ {c}
        /\ op[c] \notin {"lock", "unlock"} => Mutated(c).locked = cur[c].locked
    BY <1>0, MutatedData
  <2>2. cur' \in [Clients -> Data] /\ cur'[c] = Mutated(c) /\ pc'[c] = "save" /\ op' = op
    BY <1>0, <1>2, <2>1 DEF TypeOK, Hold, Goto
  <2>3. op[c] \in {"lock", "unlock", "setProfiles"}
    BY <1>2, MutatedOther
  <2>4. ~raced => cur[c].locked = intended
    <3>1. ~raced => file = Normal(cur[c])
      BY <1>0, <2>3 DEF IInv, HolderInv, Materializes
    <3>2. cur[c] \in Data
      BY <1>0 DEF TypeOK
    <3> QED BY <3>1, <3>2, FilesFacts DEF IInv
  <2>5. ~raced => HolderInv(c)'
    BY <1>0, <2>1, <2>2, <2>3, <2>4 DEF HolderInv
  <2>6. "save" \in Places
    BY DEF Places
  <2> QED BY <1>0, <1>2, <2>2, <2>5, <2>6, ReadSound
<1> QED BY <1>1, <1>2 DEF Finish

LEMMA WriteFailsSound ==
    ASSUME IInv, NEW c \in Clients, WriteFails(c)
    PROVE  IInv'
<1>1. lock = c
  <2>1. Busy(c)
    BY DEF WriteFails, Busy
  <2> QED BY <2>1, Holds DEF IInv
<1>2. {} \in SUBSET Clients /\ "idle" \in {"idle", "between"}
  OBVIOUS
<1> QED BY <1>1, <1>2, SameCache, ReturnSound DEF WriteFails, Hold, disk, cached

LEMMA ExternalSound ==
    ASSUME IInv, NEW f \in Outside, External(f)
    PROVE  IInv'
<1>1. /\ file' = f /\ stamp' = stamp + 1 /\ stamp < MaxStamp
      /\ intended' = f.data.locked /\ raced' = (raced \/ lock # Free)
      /\ UNCHANGED <<backup, cache, cacheSig, cacheMat, lock, pc, op, cur, seen>>
  BY DEF External, cached, local
<1>2. f \in Files /\ f.data \in Data /\ f.data.locked \subseteq Clients
  BY Assumed, FilesFacts
<1>3. TypeOK'
  <2>1. stamp' \in 1 .. MaxStamp
    BY <1>1, Assumed DEF IInv, TypeOK
  <2>2. raced' \in BOOLEAN
    BY <1>1 DEF IInv, TypeOK
  <2> QED BY <1>1, <1>2, <2>1, <2>2 DEF IInv, TypeOK
<1>4. LockInv'
  BY <1>1 DEF IInv, LockInv, Busy
<1>5. cacheSig' <= stamp' /\ cacheSig' # stamp'
  BY <1>1 DEF IInv, TypeOK
<1>6. ASSUME ~raced' PROVE CacheInv' /\ \A c \in Clients : HolderInv(c)'
  <2>1. ~raced /\ lock = Free
    BY <1>1, <1>6 DEF IInv, TypeOK
  <2>2. CacheInv'
    BY <1>1, <1>5, <2>1 DEF IInv, CacheInv, Signature
  <2>3. \A c \in Clients : ~Busy(c)'
    BY <1>1, <2>1, Assumed DEF IInv, LockInv, Busy
  <2> QED BY <2>2, <2>3 DEF HolderInv, Busy
<1> QED BY <1>1, <1>3, <1>4, <1>5, <1>6 DEF IInv

LEMMA CrashSound ==
    ASSUME IInv, Crash
    PROVE  IInv'
<1>1. TypeOK'
  <2>1. file' = file /\ stamp' = stamp /\ backup' = backup /\ intended' = intended /\ raced' = raced
    BY DEF Crash, disk
  <2>2. /\ pc' \in [Clients -> Places] /\ op' \in [Clients -> Operations]
        /\ cur' \in [Clients -> Data] /\ seen' \in [Clients -> SUBSET Clients]
    BY FilesFacts DEF Crash, Places, Operations
  <2>3. cacheSig' \in 0 .. MaxStamp /\ cache' \in Data \cup {NoCache} /\ cacheMat' \in BOOLEAN
        /\ lock' \in Clients \cup {Free}
    <3>1. cache' = NoCache /\ cacheSig' = 0 /\ cacheMat' = FALSE /\ lock' = Free
      BY DEF Crash
    <3>2. cacheSig' \in 0 .. MaxStamp
      BY <3>1, Assumed
    <3>3. cacheMat' \in BOOLEAN
      BY <3>1
    <3> QED BY <3>1, <3>2, <3>3, Zenon
  <2> QED BY <2>1, <2>2, <2>3 DEF IInv, TypeOK
<1>2. \A c \in Clients : ~Busy(c)'
  BY DEF Crash, Busy
<1>3. LockInv'
  BY <1>2, Assumed DEF Crash, LockInv
<1>4. \A c \in Clients : HolderInv(c)'
  BY <1>2 DEF HolderInv, Busy
<1>5. CacheInv' /\ cacheSig' <= stamp'
  BY Assumed DEF Crash, CacheInv, IInv, TypeOK, disk
<1> QED BY <1>1, <1>3, <1>4, <1>5 DEF IInv, Crash, disk

LEMMA InitSound ==
    ASSUME Init
    PROVE  IInv
<1>1. TypeOK
  <2>1. file \in Files /\ backup \in Files
    BY FilesFacts DEF Init
  <2>2. /\ pc \in [Clients -> Places] /\ op \in [Clients -> Operations]
        /\ cur \in [Clients -> Data] /\ seen \in [Clients -> SUBSET Clients]
    BY FilesFacts DEF Init, Places, Operations
  <2>3. stamp \in 1 .. MaxStamp /\ cacheSig \in 0 .. MaxStamp
    BY Assumed DEF Init
  <2> QED BY <2>1, <2>2, <2>3 DEF Init, TypeOK
<1>2. \A c \in Clients : ~Busy(c)
  BY DEF Init, Busy
<1>3. LockInv
  BY <1>2, Assumed DEF Init, LockInv
<1>4. \A c \in Clients : HolderInv(c)
  BY <1>2 DEF HolderInv, Busy
<1>5. CacheInv /\ cacheSig <= stamp /\ file.data.locked = intended
  BY FilesFacts DEF Init, CacheInv
<1> QED BY <1>1, <1>3, <1>4, <1>5 DEF IInv

LEMMA Invariant == Spec => []IInv
<1>1. Init => IInv
  BY InitSound
<1>2. IInv /\ [Next]_vars => IInv'
  <2> SUFFICES ASSUME IInv, [Next]_vars PROVE IInv'
    OBVIOUS
  <2>1. ASSUME NEW c \in Clients, Steps(c) PROVE IInv'
    BY <2>1, LoadSound, BackupSound, ReplaceSound, WriteFailsSound, FillSound, SavedSound,
       FinishSound DEF Steps
  <2>2. ASSUME NEW c \in Clients, NEW o \in Operations, Begin(c, o) PROVE IInv'
    BY <2>2, BeginSound
  <2>3. ASSUME NEW f \in Outside, External(f) PROVE IInv'
    BY <2>3, ExternalSound
  <2>4. CASE Crash
    BY <2>4, CrashSound
  <2>5. CASE UNCHANGED vars
    <3>1. UNCHANGED <<file, stamp, backup, cache, cacheSig, cacheMat, lock, pc, op, cur, seen,
                      intended, raced>>
      BY <2>5 DEF vars, disk, cached, local
    <3>2. TypeOK' /\ LockInv'
      BY <3>1 DEF IInv, TypeOK, LockInv, Busy
    <3>3. CacheInv => CacheInv'
      BY <3>1 DEF CacheInv, Signature
    <3>4. \A c \in Clients : HolderInv(c) => HolderInv(c)'
      BY <3>1 DEF HolderInv, Materializes
    <3> QED BY <3>1, <3>2, <3>3, <3>4 DEF IInv
  <2> QED BY <2>1, <2>2, <2>3, <2>4, <2>5 DEF Next
<1> QED BY <1>1, <1>2, PTL DEF Spec

\* Every variable keeps its type.
THEOREM StoreTypeCorrect == Spec => []TypeOK
<1>1. IInv => TypeOK
  BY DEF IInv
<1> QED BY <1>1, Invariant, PTL

\* A trusted cache that is marked as materialised is the normalised file.
THEOREM MaterializedCacheTrue == Spec => []MaterializedCacheIsFile
<1>1. IInv => MaterializedCacheIsFile
  BY DEF IInv, CacheInv, MaterializedCacheIsFile, CacheTrusted
<1> QED BY <1>1, Invariant, PTL

\* No edit made under the lock is lost to another thread.
THEOREM EditsSurvive == Spec => []LockedEditsSurvive
<1>1. IInv => LockedEditsSurvive
  BY DEF IInv, LockedEditsSurvive
<1> QED BY <1>1, Invariant, PTL
================================================================================
