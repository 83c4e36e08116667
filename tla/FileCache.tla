----------------------------- MODULE FileCache ------------------------------
(***************************************************************************)
(* Caching/FileCache.php with its subclasses TextFileCache, PhpFileCache   *)
(* and VarExportFileCache: a cache kept in files, one per key, in shard    *)
(* directories chosen by the first two digits of the key's hash.  PHP      *)
(* workers share the directory and no lock: every system call of one       *)
(* worker interleaves with those of the others, and a worker may be killed *)
(* between any two.                                                        *)
(***************************************************************************)
EXTENDS CacheEntries, FiniteSets

CONSTANTS Procs,          \* the PHP workers
          Exportable,     \* values save() accepts (VarExportFileCache: arrays, scalars)
          Dirs,           \* the shard directories
          dirOf,          \* the shard of each key, from its hash
          SysTmp,         \* the temporary directory of the system
          NoTmp,          \* the worker has no temporary file
          Torn,           \* a file with part of its contents
          Faults,         \* the calls of the file system that may fail: see FaultKinds
          ThrowOnNotice,  \* an error handler turns notices into exceptions
          SameDevice,     \* SysTmp is on the file system of the cache
          TextFiles       \* the cache is a TextFileCache

\* mkdir(), file_put_contents(), rename(), and unlink() in delete() and clear()
FaultKinds == {"mkdir", "put", "rename", "unlink", "clear"}

ASSUME FileCacheAssumption ==
  /\ Faults \subseteq FaultKinds
  /\ Exportable \subseteq Values
  /\ dirOf \in [Keys -> Dirs]
  /\ SysTmp \notin Dirs
  /\ NoTmp \notin Dirs \cup {SysTmp}
  /\ Torn \notin Entry \cup {Absent}
  /\ {ThrowOnNotice, SameDevice, TextFiles} \subseteq BOOLEAN

VARIABLES entries,  \* the file under each key's path
          dirs,     \* shard directories that exist
          litter,   \* places that hold a swap file nobody will remove
          clock,    \* time()
          pc,       \* the next step of a worker
          job,      \* the call it makes
          tmp,      \* where its temporary file is
          shard,    \* the shard it works in
          seen,     \* the entry it read
          status,   \* how its last call ended, or "busy"
          todo,     \* clear(): shards still to visit
          left,     \* clear(): files of the shard still to visit
          owed      \* auxiliary: files that were there when clear() began
                    \* and that nobody has touched since

disk == <<entries, dirs, litter, owed>>
walk == <<todo, left>>
vars == <<entries, dirs, litter, clock, pc, job, shard, tmp, seen, status,
          todo, left, owed>>

File == Entry \cup {Absent, Torn}

NoItem == [data |-> CHOOSE v \in Values : TRUE, lifetime |-> 0]

PathOf(p) == job[p].key              \* cacheFilePath(): one path per key

DirOf(p) == shard[p]

Present == {k \in Keys : entries[k] # Absent}

Tmps(d) == {p \in Procs : tmp[p] = d}

IsEmpty(d) == d \notin litter /\ Tmps(d) = {} /\ \A k \in Present : dirOf[k] # d

Init ==
  /\ entries = [k \in Keys |-> Absent]
  /\ dirs = {}
  /\ litter = {}
  /\ clock = 0
  /\ pc = [p \in Procs |-> "idle"]
  /\ \E k \in Keys : job = [p \in Procs |-> [op |-> "none", key |-> k, item |-> NoItem]]
  /\ shard = [p \in Procs |-> dirOf[job[p].key]]
  /\ tmp = [p \in Procs |-> NoTmp]
  /\ seen = [p \in Procs |-> Absent]
  /\ status = [p \in Procs |-> "none"]
  /\ todo = [p \in Procs |-> {}]
  /\ left = [p \in Procs |-> {}]
  /\ owed = [p \in Procs |-> {}]

-----------------------------------------------------------------------------
(* Steps of a worker                                                       *)

At(p, l) == pc[p] = l

Goto(p, l) == pc' = [pc EXCEPT ![p] = l] /\ status' = status

Return(p, s) ==
  /\ pc' = [pc EXCEPT ![p] = "idle"]
  /\ status' = [status EXCEPT ![p] = s]

Call(p, l, op, k, item) ==
  /\ At(p, "idle")
  /\ job' = [job EXCEPT ![p] = [op |-> op, key |-> k, item |-> item]]
  /\ shard' = [shard EXCEPT ![p] = dirOf[k]]
  /\ seen' = [seen EXCEPT ![p] = Absent]
  /\ pc' = [pc EXCEPT ![p] = l]
  /\ status' = [status EXCEPT ![p] = "busy"]

\* Every change of a file ends what a clear() owes for that key.
SetFile(k, f) ==
  /\ entries' = [entries EXCEPT ![k] = f]
  /\ owed' = [q \in Procs |-> owed[q] \ {k}]

KeepFiles == UNCHANGED <<entries, owed>>

Tick ==
  /\ clock < MaxClock
  /\ clock' = clock + 1
  /\ UNCHANGED <<disk, pc, job, shard, tmp, seen, status, walk>>

-----------------------------------------------------------------------------
(* set()                                                                   *)

Set(p, k, v, ttl) ==
  /\ \/ AsksDelete(ttl) /\ Call(p, "unlink", "delete", k, NoItem)
     \/ /\ ~AsksDelete(ttl) /\ v \in Exportable
        /\ Call(p, "isdir", "set", k, [data |-> v, lifetime |-> Lifetime(ttl, clock)])
  /\ UNCHANGED <<disk, clock, tmp, walk>>

SetRefused(p, k, v, ttl) ==
  /\ ~AsksDelete(ttl) /\ v \notin Exportable
  /\ At(p, "idle")
  /\ Return(p, "threw")
  /\ UNCHANGED <<disk, clock, job, shard, tmp, seen, walk>>

\* createDirIfNeeded(): is_dir, mkdir, is_dir again when mkdir failed
IsDir(p) ==
  /\ At(p, "isdir")
  /\ Goto(p, IF DirOf(p) \in dirs THEN "writable" ELSE "mkdir")
  /\ UNCHANGED <<disk, clock, job, shard, tmp, seen, walk>>

MkDir(p) ==
  /\ At(p, "mkdir")
  /\ \/ /\ DirOf(p) \notin dirs
        /\ dirs' = dirs \cup {DirOf(p)}
        /\ Goto(p, "writable")
     \/ /\ DirOf(p) \in dirs \/ "mkdir" \in Faults
        /\ dirs' = dirs
        /\ Goto(p, "recheck")
  /\ UNCHANGED <<entries, litter, owed, clock, job, shard, tmp, seen, walk>>

\* Mutant: the failed mkdir is tried again.
RecheckRetries(p) ==
  /\ At(p, "recheck")
  /\ Goto(p, IF DirOf(p) \in dirs THEN "writable" ELSE "mkdir")
  /\ UNCHANGED <<disk, clock, job, shard, tmp, seen, walk>>

Recheck(p) ==
  /\ At(p, "recheck")
  /\ \/ DirOf(p) \in dirs /\ Goto(p, "writable")
     \/ DirOf(p) \notin dirs /\ Return(p, "false")
  /\ UNCHANGED <<disk, clock, job, shard, tmp, seen, walk>>

IsWritable(p) ==
  /\ At(p, "writable")
  /\ \/ DirOf(p) \in dirs /\ Goto(p, "tempnam")
     \/ DirOf(p) \notin dirs /\ Return(p, "false")
  /\ UNCHANGED <<disk, clock, job, shard, tmp, seen, walk>>

\* tempnam() creates the file in the shard; when the shard has gone, in the
\* temporary directory of the system, with a notice.
TempNam(p) ==
  /\ At(p, "tempnam")
  /\ \/ /\ DirOf(p) \in dirs
        /\ tmp' = [tmp EXCEPT ![p] = DirOf(p)]
        /\ Goto(p, "put") /\ litter' = litter
     \/ /\ DirOf(p) \notin dirs /\ ~ThrowOnNotice
        /\ tmp' = [tmp EXCEPT ![p] = SysTmp]
        /\ Goto(p, "put") /\ litter' = litter
     \/ /\ DirOf(p) \notin dirs /\ ThrowOnNotice
        /\ litter' = litter \cup {SysTmp}
        /\ Return(p, "threw") /\ tmp' = tmp
  /\ UNCHANGED <<entries, dirs, owed, clock, job, shard, seen, walk>>

\* file_put_contents(): when it fails the temporary file stays.
PutContents(p) ==
  /\ At(p, "put")
  /\ \/ Goto(p, "rename") /\ UNCHANGED <<tmp, litter>>
     \/ /\ "put" \in Faults
        /\ litter' = litter \cup {tmp[p]}
        /\ tmp' = [tmp EXCEPT ![p] = NoTmp]
        /\ Return(p, "false")
  /\ UNCHANGED <<entries, dirs, owed, clock, job, shard, seen, walk>>

\* rename() is atomic within a file system; across two, PHP copies the file
\* onto the target, which it first truncates, and removes the source.
Renames(p) == DirOf(p) \in dirs /\ (tmp[p] = DirOf(p) \/ SameDevice)

\* Mutant: the entry is written in place.
RenameInPlace(p) ==
  /\ At(p, "rename") /\ DirOf(p) \in dirs
  /\ SetFile(PathOf(p), Torn)
  /\ Goto(p, "copy") /\ tmp' = tmp
  /\ UNCHANGED <<dirs, litter, clock, job, shard, seen, walk>>

Rename(p) ==
  /\ At(p, "rename")
  /\ \/ /\ Renames(p)
        /\ SetFile(PathOf(p), job[p].item)
        /\ tmp' = [tmp EXCEPT ![p] = NoTmp]
        /\ Return(p, "true")
     \/ /\ DirOf(p) \in dirs /\ ~Renames(p)
        /\ SetFile(PathOf(p), Torn)
        /\ Goto(p, "copy") /\ tmp' = tmp
     \/ /\ DirOf(p) \notin dirs \/ "rename" \in Faults
        /\ KeepFiles
        /\ Goto(p, "discard") /\ tmp' = tmp
  /\ UNCHANGED <<dirs, litter, clock, job, shard, seen, walk>>

\* The copied file may have been unlinked meanwhile: the worker then writes
\* to a file without a name.
CopiesToo(p) == \E q \in Procs \ {p} : At(q, "copy") /\ PathOf(q) = PathOf(p)

Copy(p) ==
  /\ At(p, "copy")
  /\ \/ entries[PathOf(p)] = Torn /\ SetFile(PathOf(p), job[p].item)
     \/ /\ entries[PathOf(p)] # Torn \/ CopiesToo(p)
        /\ KeepFiles
  /\ tmp' = [tmp EXCEPT ![p] = NoTmp]
  /\ Return(p, "true")
  /\ UNCHANGED <<dirs, litter, clock, job, shard, seen, walk>>

Discard(p) ==
  /\ At(p, "discard")
  /\ tmp' = [tmp EXCEPT ![p] = NoTmp]
  /\ Return(p, "false")
  /\ UNCHANGED <<disk, clock, job, shard, seen, walk>>

-----------------------------------------------------------------------------
(* delete()                                                                *)

Delete(p, k) ==
  /\ Call(p, "unlink", "delete", k, NoItem)
  /\ UNCHANGED <<disk, clock, tmp, walk>>

Unlink(p) ==
  /\ At(p, "unlink")
  /\ \/ /\ PathOf(p) \in Present
        /\ SetFile(PathOf(p), Absent)
        /\ Return(p, "true")
     \/ /\ PathOf(p) \notin Present \/ "unlink" \in Faults
        /\ KeepFiles
        /\ Goto(p, "exists")
  /\ UNCHANGED <<dirs, litter, clock, job, shard, tmp, seen, walk>>

\* Mutant: a failed unlink is reported as success.
FileExistsTrue(p) ==
  /\ At(p, "exists")
  /\ Return(p, "true")
  /\ UNCHANGED <<disk, clock, job, shard, tmp, seen, walk>>

FileExists(p) ==
  /\ At(p, "exists")
  /\ Return(p, IF PathOf(p) \in Present THEN "false" ELSE "true")
  /\ UNCHANGED <<disk, clock, job, shard, tmp, seen, walk>>

-----------------------------------------------------------------------------
(* get() and has(): is_file, then open and read, then compare with time()  *)

Get(p, k) ==
  /\ Call(p, "isfile", "get", k, NoItem)
  /\ UNCHANGED <<disk, clock, tmp, walk>>

Has(p, k) ==
  /\ Call(p, "isfile", "has", k, NoItem)
  /\ UNCHANGED <<disk, clock, tmp, walk>>

IsFile(p) ==
  /\ At(p, "isfile")
  /\ \/ PathOf(p) \in Present /\ Goto(p, "open")
     \/ PathOf(p) \notin Present /\ Return(p, "miss")
  /\ UNCHANGED <<disk, clock, job, shard, tmp, seen, walk>>

\* fopen() or require of a file that has gone throws.
Open(p) ==
  /\ At(p, "open")
  /\ \/ /\ PathOf(p) \in Present
        /\ seen' = [seen EXCEPT ![p] = entries[PathOf(p)]]
        /\ Goto(p, "check")
     \/ /\ PathOf(p) \notin Present
        /\ seen' = seen
        /\ Return(p, "threw")
  /\ UNCHANGED <<disk, clock, job, shard, tmp, walk>>

Fresh(p) ==
  IF job[p].op = "has" THEN FreshForHas(seen[p], clock) ELSE FreshForGet(seen[p], clock)

\* A torn file is empty (a miss), or cut short: unserialize() makes false
\* of it and require a ParseError.  TextFileCache::fetch() closes the file of
\* an expired entry twice, and the second fclose() throws a TypeError.
Check(p) ==
  /\ At(p, "check")
  /\ \/ seen[p] # Torn /\ Fresh(p) /\ Return(p, "hit")
     \/ /\ seen[p] # Torn /\ ~Fresh(p)
        /\ Return(p, IF TextFiles /\ job[p].op = "get" THEN "threw" ELSE "miss")
     \/ seen[p] = Torn /\ \E s \in {"miss", "hit", "threw"} : Return(p, s)
  /\ UNCHANGED <<disk, clock, job, shard, tmp, seen, walk>>

-----------------------------------------------------------------------------
(* clear(): the shards, and the files of each before the shard itself.     *)
(* What readdir() delivers is the directory as it was when it was opened.  *)

Clear(p) ==
  /\ Call(p, "clear", "clear", job[p].key, NoItem)
  /\ todo' = [todo EXCEPT ![p] = dirs]
  /\ owed' = [owed EXCEPT ![p] = Present]
  /\ UNCHANGED <<entries, dirs, litter, clock, tmp, left>>

\* Mutant: the iterator does not descend into the shards.
EnterNoFiles(p, d) ==
  /\ At(p, "clear") /\ d \in todo[p]
  /\ left' = left
  /\ shard' = [shard EXCEPT ![p] = d]
  /\ Goto(p, "files") /\ todo' = todo
  /\ UNCHANGED <<disk, clock, job, tmp, seen>>

\* A shard that has gone is skipped, or, when it went after the iterator had
\* seen that it is a directory, makes the iterator throw.
Enter(p, d) ==
  /\ At(p, "clear") /\ d \in todo[p]
  /\ \/ /\ d \in dirs
        /\ left' = [left EXCEPT ![p] = {k \in Present : dirOf[k] = d}]
        /\ shard' = [shard EXCEPT ![p] = d]
        /\ Goto(p, "files") /\ todo' = todo
     \/ /\ d \notin dirs
        /\ todo' = [todo EXCEPT ![p] = @ \ {d}]
        /\ Goto(p, "clear") /\ UNCHANGED <<left, shard>>
     \/ /\ d \notin dirs
        /\ todo' = [todo EXCEPT ![p] = {}]
        /\ Return(p, "threw") /\ UNCHANGED <<left, shard>>
  /\ UNCHANGED <<disk, clock, job, tmp, seen>>

UnlinkOne(p, k) ==
  /\ At(p, "files") /\ k \in left[p]
  /\ left' = [left EXCEPT ![p] = @ \ {k}]
  /\ SetFile(k, Absent) \/ ("clear" \in Faults /\ KeepFiles)
  /\ UNCHANGED <<dirs, litter, clock, pc, job, shard, tmp, seen, status, todo>>

\* Mutant: the shard is removed with whatever it holds.
RmDirRecursive(p) ==
  /\ At(p, "files") /\ left[p] = {}
  /\ dirs' = dirs \ {DirOf(p)}
  /\ todo' = [todo EXCEPT ![p] = @ \ {DirOf(p)}]
  /\ Goto(p, "clear")
  /\ UNCHANGED <<entries, litter, owed, clock, job, shard, tmp, seen, left>>

RmDir(p) ==
  /\ At(p, "files") /\ left[p] = {}
  /\ dirs' = IF IsEmpty(DirOf(p)) THEN dirs \ {DirOf(p)} ELSE dirs
  /\ todo' = [todo EXCEPT ![p] = @ \ {DirOf(p)}]
  /\ Goto(p, "clear")
  /\ UNCHANGED <<entries, litter, owed, clock, job, shard, tmp, seen, left>>

Cleared(p) ==
  /\ At(p, "clear") /\ todo[p] = {}
  /\ Return(p, "cleared")
  /\ UNCHANGED <<disk, clock, job, shard, tmp, seen, walk>>

-----------------------------------------------------------------------------
\* A worker is killed in the middle of a call; another takes its place.
Crash(p) ==
  /\ ~At(p, "idle")
  /\ litter' = IF tmp[p] = NoTmp THEN litter ELSE litter \cup {tmp[p]}
  /\ tmp' = [tmp EXCEPT ![p] = NoTmp]
  /\ todo' = [todo EXCEPT ![p] = {}]
  /\ left' = [left EXCEPT ![p] = {}]
  /\ Return(p, "crashed")
  /\ UNCHANGED <<entries, dirs, owed, clock, job, shard, seen>>

Step(p) ==
  \/ IsDir(p) \/ MkDir(p) \/ Recheck(p) \/ IsWritable(p) \/ TempNam(p)
  \/ PutContents(p) \/ Rename(p) \/ Copy(p) \/ Discard(p)
  \/ Unlink(p) \/ FileExists(p)
  \/ IsFile(p) \/ Open(p) \/ Check(p)
  \/ \E d \in Dirs : Enter(p, d)
  \/ \E k \in Keys : UnlinkOne(p, k)
  \/ RmDir(p) \/ Cleared(p)

Start(p) ==
  \/ \E k \in Keys, v \in Values, ttl \in Ttls \cup {NoTtl} :
       Set(p, k, v, ttl) \/ SetRefused(p, k, v, ttl)
  \/ \E k \in Keys : Delete(p, k) \/ Get(p, k) \/ Has(p, k)
  \/ Clear(p)

Next == Tick \/ \E p \in Procs : Start(p) \/ Step(p) \/ Crash(p)

Spec == Init /\ [][Next]_vars

-----------------------------------------------------------------------------
(* Properties                                                              *)

Procedure == {"idle", "isdir", "mkdir", "recheck", "writable", "tempnam", "put",
              "rename", "copy", "discard", "unlink", "exists", "isfile", "open",
              "check", "clear", "files"}

Statuses == {"none", "busy", "true", "false", "threw", "miss", "hit", "cleared", "crashed"}

Jobs == [op : {"none", "set", "delete", "get", "has", "clear"}, key : Keys, item : Entry]

\* The type of the state.
TypeOK ==
  /\ entries \in [Keys -> File]
  /\ dirs \subseteq Dirs
  /\ litter \subseteq Dirs \cup {SysTmp}
  /\ clock \in Times
  /\ pc \in [Procs -> Procedure]
  /\ job \in [Procs -> Jobs]
  /\ shard \in [Procs -> Dirs]
  /\ tmp \in [Procs -> Dirs \cup {SysTmp, NoTmp}]
  /\ seen \in [Procs -> File]
  /\ status \in [Procs -> Statuses]
  /\ todo \in [Procs -> SUBSET Dirs]
  /\ left \in [Procs -> SUBSET Keys]
  /\ owed \in [Procs -> SUBSET Keys]

Writing == {"put", "rename", "copy", "discard"}

SetSteps == {"isdir", "mkdir", "recheck", "writable", "tempnam"} \cup Writing

\* What a worker holds at each step of a call, and which call it is.
Control == \A p \in Procs :
  /\ At(p, "idle") <=> status[p] # "busy"
  /\ pc[p] \in SetSteps => job[p].op = "set" /\ shard[p] = dirOf[job[p].key]
  /\ pc[p] \in {"unlink", "exists"} => job[p].op = "delete"
  /\ pc[p] \in {"isfile", "open", "check"} => job[p].op \in {"get", "has"}
  /\ pc[p] \in {"clear", "files"} => job[p].op = "clear"
  /\ pc[p] = "check" => seen[p] # Absent
  /\ pc[p] \in Writing <=> tmp[p] # NoTmp
  /\ pc[p] \in Writing => tmp[p] \in {shard[p], SysTmp}
  /\ pc[p] = "files" => shard[p] \in todo[p]

\* writeFile() "writes a string content to file in an atomic way": nobody ever
\* finds a part of an entry under a key, whoever writes, clears or dies.
NoTornEntry == \A k \in Keys : entries[k] # Torn

\* The reason: temporary files stay in the file system of the cache.
Whole ==
  /\ NoTornEntry
  /\ \A p \in Procs : seen[p] # Torn /\ pc[p] # "copy"
  /\ ThrowOnNotice => \A p \in Procs : tmp[p] # SysTmp

\* A file lies in a directory that exists: clear() never takes a shard away
\* from under an entry or from under the temporary file of a writer.
NothingLost ==
  /\ \A k \in Present : dirOf[k] \in dirs
  /\ \A p \in Procs : tmp[p] \in dirs \cup {SysTmp, NoTmp}
  /\ litter \subseteq dirs \cup {SysTmp}

\* When clear() reports success, no file that was there when it began is still
\* there untouched, whatever the other workers did meanwhile.
ClearWipes == \A p \in Procs : status[p] = "cleared" => owed[p] = {}

\* The reason: what a running clear() owes is still ahead of its iterator.
ClearOwes == \A p \in Procs :
  /\ owed[p] \subseteq Present
  /\ pc[p] \in {"clear", "files"} => \A k \in owed[p] : dirOf[k] \in todo[p]
  /\ pc[p] = "files" => \A k \in owed[p] : dirOf[k] = shard[p] => k \in left[p]

\* The inductive invariant.
IInv == TypeOK /\ Control /\ NothingLost

\* A call that reads answers; it never throws, neither because the entry has
\* expired nor because another worker removed it (ICache::get(): the value, "or
\* $default in case of cache miss").
ReadsAnswer ==
  \A p \in Procs : job[p].op \in {"get", "has"} => status[p] # "threw"

\* The detailed cache keeps the promise of CacheStore.
Promise == INSTANCE CacheStore WITH store <- entries

KeepsPromise == Promise!Spec

\* No worker waits for another one: every call returns, or its worker dies.
CallsReturn == \A p \in Procs : ~At(p, "idle") ~> At(p, "idle")

FairSpec == Spec /\ \A p \in Procs : WF_vars(Step(p))

=============================================================================
