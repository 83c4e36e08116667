--------------------------- MODULE FileCacheProofs ---------------------------
(***************************************************************************)
(* Theorems about FileCache, for any number of workers, keys, shards and   *)
(* values.                                                                 *)
(***************************************************************************)
EXTENDS FileCache, TLAPS

LEMMA NoItemType == NoItem \in Entry
  BY EntryAssumption DEF NoItem, Entry

LEMMA LifetimeType ==
  ASSUME NEW ttl \in Ttls \cup {NoTtl}, NEW now \in Times, ~AsksDelete(ttl)
  PROVE  Lifetime(ttl, now) \in Nat
  BY EntryAssumption DEF Lifetime, AsksDelete, Times

\* Any call keeps the types: it fills the job and empties what was seen.
LEMMA CallType ==
  ASSUME TypeOK, NEW p \in Procs, NEW k \in Keys, NEW item \in Entry,
         NEW l \in Procedure, NEW op \in {"set", "delete", "get", "has", "clear"},
         Call(p, l, op, k, item)
  PROVE  /\ job' \in [Procs -> Jobs] /\ shard' \in [Procs -> Dirs]
         /\ seen' \in [Procs -> File] /\ pc' \in [Procs -> Procedure]
         /\ status' \in [Procs -> Statuses]
  <1>1. job' \in [Procs -> Jobs]
    BY DEF TypeOK, Call, Jobs
  <1>2. shard' \in [Procs -> Dirs]
    BY FileCacheAssumption DEF TypeOK, Call
  <1>3. seen' \in [Procs -> File]
    BY DEF TypeOK, Call, File
  <1>4. pc' \in [Procs -> Procedure] /\ status' \in [Procs -> Statuses]
    BY DEF TypeOK, Call, Statuses
  <1> QED BY <1>1, <1>2, <1>3, <1>4

LEMMA InitType == Init => TypeOK
  <1> SUFFICES ASSUME Init PROVE TypeOK
    OBVIOUS
  <1>1. job \in [Procs -> Jobs]
    BY NoItemType DEF Init, Jobs
  <1>2. shard \in [Procs -> Dirs]
    BY <1>1, FileCacheAssumption DEF Init, Jobs
  <1>3. clock \in Times
    BY EntryAssumption DEF Init, Times
  <1> QED BY <1>1, <1>2, <1>3 DEF Init, TypeOK, File, Procedure, Statuses

\* Every step of a worker keeps the types.
LEMMA StepType ==
  ASSUME TypeOK, Control, NEW p \in Procs, Step(p) \/ Crash(p)
  PROVE  TypeOK'
  <1> USE DEF TypeOK, At, Goto, Return, SetFile, KeepFiles, Procedure, Statuses,
              disk, walk, DirOf, PathOf, Present, File
  <1>1. CASE IsDir(p)        BY <1>1 DEF IsDir
  <1>2. CASE MkDir(p)        BY <1>2 DEF MkDir
  <1>3. CASE Recheck(p)      BY <1>3 DEF Recheck
  <1>4. CASE IsWritable(p)   BY <1>4 DEF IsWritable
  <1>5. CASE TempNam(p)      BY <1>5 DEF TempNam
  <1>6. CASE PutContents(p)
    <2>1. tmp[p] \in Dirs \cup {SysTmp}
      BY <1>6 DEF PutContents, Control, Writing
    <2> QED BY <1>6, <2>1 DEF PutContents
  <1>7. CASE Rename(p)
    <2>1. job[p].item \in File /\ Torn \in File
      BY DEF Jobs
    <2>2. \A f \in File : [entries EXCEPT ![job[p].key] = f] \in [Keys -> File]
      OBVIOUS
    <2> QED BY <1>7, <2>1, <2>2 DEF Rename
  <1>8. CASE Copy(p)
    <2>1. job[p].key \in Keys /\ job[p].item \in File
      BY DEF Jobs
    <2>2. entries' \in [Keys -> File] /\ owed' \in [Procs -> SUBSET Keys]
      BY <1>8, <2>1 DEF Copy
    <2> QED BY <1>8, <2>2 DEF Copy
  <1>9. CASE Discard(p)      BY <1>9 DEF Discard
  <1>10. CASE Unlink(p)      BY <1>10 DEF Unlink
  <1>11. CASE FileExists(p)  BY <1>11 DEF FileExists
  <1>12. CASE IsFile(p)      BY <1>12 DEF IsFile
  <1>13. CASE Open(p)
    <2>1. seen' \in [Procs -> File]
      BY <1>13 DEF Open, Jobs
    <2>2. pc' \in [Procs -> Procedure] /\ status' \in [Procs -> Statuses]
      BY <1>13 DEF Open
    <2> QED BY <1>13, <2>1, <2>2 DEF Open
  <1>14. CASE Check(p)       BY <1>14 DEF Check
  <1>15. ASSUME NEW d \in Dirs, Enter(p, d) PROVE TypeOK'
    BY <1>15 DEF Enter
  <1>16. ASSUME NEW k \in Keys, UnlinkOne(p, k) PROVE TypeOK'
    BY <1>16 DEF UnlinkOne
  <1>17. CASE RmDir(p)       BY <1>17 DEF RmDir
  <1>18. CASE Cleared(p)     BY <1>18 DEF Cleared
  <1>19. CASE Crash(p)       BY <1>19 DEF Crash
  <1> QED
    BY <1>1, <1>2, <1>3, <1>4, <1>5, <1>6, <1>7, <1>8, <1>9, <1>10, <1>11, <1>12,
       <1>13, <1>14, <1>15, <1>16, <1>17, <1>18, <1>19 DEF Step

\* Every call a worker starts keeps the types.
LEMMA StartType ==
  ASSUME TypeOK, NEW p \in Procs, Start(p)
  PROVE  TypeOK'
  <1>1. ASSUME NEW k \in Keys, NEW v \in Values, NEW ttl \in Ttls \cup {NoTtl},
               Set(p, k, v, ttl)
        PROVE  TypeOK'
    <2>1. CASE AsksDelete(ttl)
      BY <1>1, <2>1, CallType, NoItemType DEF Set, TypeOK, disk, walk, Procedure
    <2>2. CASE ~AsksDelete(ttl)
      <3>1. [data |-> v, lifetime |-> Lifetime(ttl, clock)] \in Entry
        BY <2>2, LifetimeType DEF TypeOK, Entry
      <3> QED BY <1>1, <2>2, <3>1, CallType DEF Set, TypeOK, disk, walk, Procedure
    <2> QED BY <2>1, <2>2
  <1>2. ASSUME NEW k \in Keys, NEW v \in Values, NEW ttl \in Ttls \cup {NoTtl},
               SetRefused(p, k, v, ttl)
        PROVE  TypeOK'
    BY <1>2 DEF SetRefused, Return, TypeOK, disk, walk, Procedure, Statuses
  <1>3. ASSUME NEW k \in Keys, Delete(p, k) \/ Get(p, k) \/ Has(p, k)
        PROVE  TypeOK'
    BY <1>3, CallType, NoItemType DEF Delete, Get, Has, TypeOK, disk, walk, Procedure
  <1>4. CASE Clear(p)
    <2>1. job[p].key \in Keys
      BY DEF TypeOK, Jobs
    <2> QED BY <1>4, <2>1, CallType, NoItemType DEF Clear, TypeOK, Procedure, Present
  <1> QED BY <1>1, <1>2, <1>3, <1>4 DEF Start

-----------------------------------------------------------------------------

\* The calls and the steps of a worker keep the account of where it is.
LEMMA StartControl ==
  ASSUME TypeOK, Control, NEW p \in Procs, Start(p)
  PROVE  Control'
  <1> USE FileCacheAssumption
      DEF TypeOK, Control, Writing, SetSteps, At, Call, Return, disk, walk, Jobs
  <1>1. ASSUME NEW k \in Keys, NEW v \in Values, NEW ttl \in Ttls \cup {NoTtl},
               Set(p, k, v, ttl)
        PROVE  Control'
    BY <1>1 DEF Set
  <1>2. ASSUME NEW k \in Keys, NEW v \in Values, NEW ttl \in Ttls \cup {NoTtl},
               SetRefused(p, k, v, ttl)
        PROVE  Control'
    BY <1>2 DEF SetRefused
  <1>3. ASSUME NEW k \in Keys, Delete(p, k) \/ Get(p, k) \/ Has(p, k)
        PROVE  Control'
    BY <1>3 DEF Delete, Get, Has
  <1>4. CASE Clear(p)        BY <1>4 DEF Clear
  <1> QED BY <1>1, <1>2, <1>3, <1>4 DEF Start

LEMMA StepControl ==
  ASSUME TypeOK, Control, NEW p \in Procs, Step(p) \/ Crash(p)
  PROVE  Control'
  <1> USE FileCacheAssumption
      DEF TypeOK, Control, Writing, SetSteps, At, Goto, Return, SetFile, KeepFiles,
          disk, walk, DirOf, PathOf, Present
  <1>1. CASE IsDir(p)        BY <1>1 DEF IsDir
  <1>2. CASE MkDir(p)        BY <1>2 DEF MkDir
  <1>3. CASE Recheck(p)      BY <1>3 DEF Recheck
  <1>4. CASE IsWritable(p)   BY <1>4 DEF IsWritable
  <1>5. CASE TempNam(p)      BY <1>5 DEF TempNam
  <1>6. CASE PutContents(p)  BY <1>6 DEF PutContents
  <1>7. CASE Rename(p)       BY <1>7 DEF Rename
  <1>8. CASE Copy(p)         BY <1>8 DEF Copy
  <1>9. CASE Discard(p)      BY <1>9 DEF Discard
  <1>10. CASE Unlink(p)      BY <1>10 DEF Unlink
  <1>11. CASE FileExists(p)  BY <1>11 DEF FileExists
  <1>12. CASE IsFile(p)      BY <1>12 DEF IsFile
  <1>13. CASE Open(p)        BY <1>13 DEF Open, Jobs
  <1>14. CASE Check(p)       BY <1>14 DEF Check
  <1>15. ASSUME NEW d \in Dirs, Enter(p, d) PROVE Control'
    BY <1>15 DEF Enter
  <1>16. ASSUME NEW k \in Keys, UnlinkOne(p, k) PROVE Control'
    BY <1>16 DEF UnlinkOne
  <1>17. CASE RmDir(p)       BY <1>17 DEF RmDir
  <1>18. CASE Cleared(p)     BY <1>18 DEF Cleared
  <1>19. CASE Crash(p)       BY <1>19 DEF Crash
  <1> QED
    BY <1>1, <1>2, <1>3, <1>4, <1>5, <1>6, <1>7, <1>8, <1>9, <1>10, <1>11, <1>12,
       <1>13, <1>14, <1>15, <1>16, <1>17, <1>18, <1>19 DEF Step

\* No directory goes while a file lies in it: RmDir(p) is the only step that
\* takes one away, and it looks at the entries, at the temporary files of the
\* writers and at what dead writers left.
LEMMA StepNothingLost ==
  ASSUME IInv, NEW p \in Procs, Step(p) \/ Crash(p)
  PROVE  NothingLost'
  <1> USE FileCacheAssumption
      DEF IInv, TypeOK, NothingLost, At, Goto, Return, SetFile, KeepFiles,
          disk, walk, DirOf, PathOf, Present
  <1>1. CASE IsDir(p)        BY <1>1 DEF IsDir
  <1>2. CASE MkDir(p)        BY <1>2 DEF MkDir
  <1>3. CASE Recheck(p)      BY <1>3 DEF Recheck
  <1>4. CASE IsWritable(p)   BY <1>4 DEF IsWritable
  <1>5. CASE TempNam(p)      BY <1>5 DEF TempNam
  <1>6. CASE PutContents(p)
    <2>1. tmp[p] \in dirs \cup {SysTmp}
      BY <1>6 DEF PutContents, Control, Writing
    <2> QED BY <1>6, <2>1 DEF PutContents
  <1>7. CASE Rename(p)
    <2>1. shard[p] = dirOf[job[p].key]
      BY <1>7 DEF Rename, Control, SetSteps, Writing
    <2> QED BY <1>7, <2>1 DEF Rename, Renames
  <1>8. CASE Copy(p)
    <2>1. entries[job[p].key] = Torn => dirOf[job[p].key] \in dirs
      BY DEF Jobs
    <2> QED BY <1>8, <2>1 DEF Copy
  <1>9. CASE Discard(p)      BY <1>9 DEF Discard
  <1>10. CASE Unlink(p)      BY <1>10 DEF Unlink
  <1>11. CASE FileExists(p)  BY <1>11 DEF FileExists
  <1>12. CASE IsFile(p)      BY <1>12 DEF IsFile
  <1>13. CASE Open(p)        BY <1>13 DEF Open
  <1>14. CASE Check(p)       BY <1>14 DEF Check
  <1>15. ASSUME NEW d \in Dirs, Enter(p, d) PROVE NothingLost'
    BY <1>15 DEF Enter
  <1>16. ASSUME NEW k \in Keys, UnlinkOne(p, k) PROVE NothingLost'
    BY <1>16 DEF UnlinkOne
  <1>17. CASE RmDir(p)       BY <1>17 DEF RmDir, IsEmpty, Tmps
  <1>18. CASE Cleared(p)     BY <1>18 DEF Cleared
  <1>19. CASE Crash(p)
    <2>1. tmp[p] # NoTmp => tmp[p] \in dirs \cup {SysTmp}
      OBVIOUS
    <2> QED BY <1>19, <2>1 DEF Crash
  <1> QED
    BY <1>1, <1>2, <1>3, <1>4, <1>5, <1>6, <1>7, <1>8, <1>9, <1>10, <1>11, <1>12,
       <1>13, <1>14, <1>15, <1>16, <1>17, <1>18, <1>19 DEF Step

\* A call that only starts touches no file.
LEMMA StartKeepsDisk ==
  ASSUME NEW p \in Procs, Start(p)
  PROVE  UNCHANGED <<entries, dirs, litter, clock, tmp, left>>
  BY DEF Start, Set, SetRefused, Delete, Get, Has, Clear, disk, walk

LEMMA Inductive == IInv /\ [Next]_vars => IInv'
  <1> SUFFICES ASSUME IInv, [Next]_vars PROVE IInv'
    OBVIOUS
  <1>1. CASE UNCHANGED vars
    BY <1>1 DEF vars, IInv, TypeOK, Control, NothingLost, At, Present
  <1>2. CASE Tick
    BY <1>2, EntryAssumption
    DEF Tick, IInv, TypeOK, Control, NothingLost, At, Present, disk, walk, Times
  <1>3. ASSUME NEW p \in Procs, Start(p) PROVE IInv'
    <2>1. TypeOK' /\ Control'
      BY <1>3, StartType, StartControl DEF IInv
    <2>2. NothingLost'
      BY <1>3, StartKeepsDisk DEF IInv, NothingLost, Present
    <2> QED BY <2>1, <2>2 DEF IInv
  <1>4. ASSUME NEW p \in Procs, Step(p) \/ Crash(p) PROVE IInv'
    BY <1>4, StepType, StepControl, StepNothingLost DEF IInv
  <1> QED BY <1>1, <1>2, <1>3, <1>4 DEF Next

\* Type correctness and the account of every worker, and no file without its
\* directory, for every instance of the cache: NothingLost, which the run
\* filecache_expiry checks on two workers, holds for any number of them.
THEOREM Invariant == Spec => [](IInv /\ NothingLost)
  <1>1. Init => IInv
    <2> SUFFICES ASSUME Init PROVE IInv
      OBVIOUS
    <2>1. TypeOK
      BY InitType
    <2>2. Control /\ NothingLost
      BY FileCacheAssumption
      DEF Init, Control, NothingLost, At, Present, Writing, SetSteps
    <2> QED BY <2>1, <2>2 DEF IInv
  <1>2. IInv => NothingLost
    BY DEF IInv
  <1> QED BY <1>1, <1>2, Inductive, PTL DEF Spec

\* The types of the directory, the workers' steps and the clock, for every
\* instance of the cache (the invariant TypeOK of filecache_expiry).
THEOREM TypeCorrect == Spec => []TypeOK
  BY Invariant, PTL DEF IInv

-----------------------------------------------------------------------------

LEMMA StepWhole ==
  ASSUME IInv, Whole, SameDevice \/ ThrowOnNotice,
         NEW p \in Procs, Step(p) \/ Crash(p)
  PROVE  Whole'
  <1> USE FileCacheAssumption
      DEF IInv, TypeOK, Whole, NoTornEntry, At, Goto, Return, SetFile, KeepFiles,
          disk, walk, DirOf, PathOf, Present
  <1>1. CASE IsDir(p)        BY <1>1 DEF IsDir
  <1>2. CASE MkDir(p)        BY <1>2 DEF MkDir
  <1>3. CASE Recheck(p)      BY <1>3 DEF Recheck
  <1>4. CASE IsWritable(p)   BY <1>4 DEF IsWritable
  <1>5. CASE TempNam(p)      BY <1>5 DEF TempNam
  <1>6. CASE PutContents(p)  BY <1>6 DEF PutContents
  <1>7. CASE Rename(p)
    <2>1. tmp[p] \in {shard[p], SysTmp}
      BY <1>7 DEF Rename, Control, Writing
    <2>2. shard[p] \in dirs => Renames(p)
      BY <2>1 DEF Renames
    <2>3. job[p].item \in Entry
      BY DEF Jobs
    <2> QED BY <1>7, <2>2, <2>3 DEF Rename
  <1>8. CASE Copy(p)
    <2>1. job[p].item \in Entry
      BY DEF Jobs
    <2> QED BY <1>8, <2>1 DEF Copy
  <1>9. CASE Discard(p)      BY <1>9 DEF Discard
  <1>10. CASE Unlink(p)      BY <1>10 DEF Unlink
  <1>11. CASE FileExists(p)  BY <1>11 DEF FileExists
  <1>12. CASE IsFile(p)      BY <1>12 DEF IsFile
  <1>13. CASE Open(p)        BY <1>13 DEF Open, Jobs
  <1>14. CASE Check(p)       BY <1>14 DEF Check
  <1>15. ASSUME NEW d \in Dirs, Enter(p, d) PROVE Whole'
    BY <1>15 DEF Enter
  <1>16. ASSUME NEW k \in Keys, UnlinkOne(p, k) PROVE Whole'
    BY <1>16 DEF UnlinkOne
  <1>17. CASE RmDir(p)       BY <1>17 DEF RmDir
  <1>18. CASE Cleared(p)     BY <1>18 DEF Cleared
  <1>19. CASE Crash(p)       BY <1>19 DEF Crash
  <1> QED
    BY <1>1, <1>2, <1>3, <1>4, <1>5, <1>6, <1>7, <1>8, <1>9, <1>10, <1>11, <1>12,
       <1>13, <1>14, <1>15, <1>16, <1>17, <1>18, <1>19 DEF Step

\* What a call sees when it starts.
LEMMA StartSees ==
  ASSUME TypeOK, NEW p \in Procs, Start(p), NEW q \in Procs
  PROVE  seen'[q] \in {seen[q], Absent} /\ (pc'[q] = "copy" => pc[q] = "copy")
  BY DEF Start, Set, SetRefused, Delete, Get, Has, Clear, Call, Return, TypeOK

LEMMA WholeInductive ==
  ASSUME SameDevice \/ ThrowOnNotice
  PROVE  IInv /\ Whole /\ [Next]_vars => Whole'
  <1> SUFFICES ASSUME IInv, Whole, [Next]_vars PROVE Whole'
    OBVIOUS
  <1>1. CASE UNCHANGED vars
    BY <1>1 DEF vars, Whole, NoTornEntry
  <1>2. CASE Tick
    BY <1>2 DEF Tick, Whole, NoTornEntry, disk, walk
  <1>3. ASSUME NEW p \in Procs, Start(p) PROVE Whole'
    <2>1. UNCHANGED <<entries, tmp>>
      BY <1>3, StartKeepsDisk
    <2>2. \A q \in Procs : seen'[q] # Torn /\ pc'[q] # "copy"
      BY <1>3, StartSees, FileCacheAssumption DEF IInv, Whole
    <2> QED BY <2>1, <2>2 DEF Whole, NoTornEntry
  <1>4. ASSUME NEW p \in Procs, Step(p) \/ Crash(p) PROVE Whole'
    BY <1>4, StepWhole
  <1> QED BY <1>1, <1>2, <1>3, <1>4 DEF Next

\* writeFile() is atomic for any number of writers, clearing workers, crashes
\* and refused system calls, provided the temporary file never leaves the file
\* system of the cache: because it is the system's own, or because the notice
\* of tempnam() stops the call.  Without that proviso rename() copies a file
\* from the system's temporary directory to the entry, and readers see a part.
THEOREM AtomicWrites ==
  ASSUME SameDevice \/ ThrowOnNotice
  PROVE  Spec => []NoTornEntry
  <1>1. Init => Whole
    BY FileCacheAssumption DEF Init, Whole, NoTornEntry
  <1>2. IInv /\ Whole /\ [Next]_vars => Whole'
    BY WholeInductive
  <1>3. Whole => NoTornEntry
    BY DEF Whole
  <1> QED BY Invariant, <1>1, <1>2, <1>3, PTL DEF Spec

-----------------------------------------------------------------------------

LEMMA StepClearOwes ==
  ASSUME IInv, ClearOwes, "clear" \notin Faults, NEW p \in Procs, Step(p) \/ Crash(p)
  PROVE  ClearOwes'
  <1> USE FileCacheAssumption
      DEF IInv, TypeOK, ClearOwes, At, Goto, Return, SetFile, KeepFiles,
          disk, walk, DirOf, PathOf, Present
  <1>1. CASE IsDir(p)        BY <1>1 DEF IsDir
  <1>2. CASE MkDir(p)        BY <1>2 DEF MkDir
  <1>3. CASE Recheck(p)      BY <1>3 DEF Recheck
  <1>4. CASE IsWritable(p)   BY <1>4 DEF IsWritable
  <1>5. CASE TempNam(p)      BY <1>5 DEF TempNam
  <1>6. CASE PutContents(p)  BY <1>6 DEF PutContents
  <1>7. CASE Rename(p)       BY <1>7 DEF Rename
  <1>8. CASE Copy(p)         BY <1>8 DEF Copy
  <1>9. CASE Discard(p)      BY <1>9 DEF Discard
  <1>10. CASE Unlink(p)      BY <1>10 DEF Unlink
  <1>11. CASE FileExists(p)  BY <1>11 DEF FileExists
  <1>12. CASE IsFile(p)      BY <1>12 DEF IsFile
  <1>13. CASE Open(p)        BY <1>13 DEF Open
  <1>14. CASE Check(p)       BY <1>14 DEF Check
  <1>15. ASSUME NEW d \in Dirs, Enter(p, d) PROVE ClearOwes'
    \* A file that is owed exists, hence so does its shard.
    <2>1. \A k \in owed[p] : dirOf[k] \in dirs
      BY DEF NothingLost
    <2> QED BY <1>15, <2>1 DEF Enter
  <1>16. ASSUME NEW k \in Keys, UnlinkOne(p, k) PROVE ClearOwes'
    BY <1>16 DEF UnlinkOne
  <1>17. CASE RmDir(p)       BY <1>17 DEF RmDir
  <1>18. CASE Cleared(p)     BY <1>18 DEF Cleared
  <1>19. CASE Crash(p)       BY <1>19 DEF Crash
  <1> QED
    BY <1>1, <1>2, <1>3, <1>4, <1>5, <1>6, <1>7, <1>8, <1>9, <1>10, <1>11, <1>12,
       <1>13, <1>14, <1>15, <1>16, <1>17, <1>18, <1>19 DEF Step

LEMMA StartClearOwes ==
  ASSUME IInv, ClearOwes, NEW p \in Procs, Start(p)
  PROVE  ClearOwes'
  <1> USE FileCacheAssumption
      DEF IInv, TypeOK, ClearOwes, At, Call, Return, disk, walk, Present
  <1>1. ASSUME NEW k \in Keys, NEW v \in Values, NEW ttl \in Ttls \cup {NoTtl},
               Set(p, k, v, ttl) \/ SetRefused(p, k, v, ttl)
        PROVE  ClearOwes'
    BY <1>1 DEF Set, SetRefused
  <1>2. ASSUME NEW k \in Keys, Delete(p, k) \/ Get(p, k) \/ Has(p, k)
        PROVE  ClearOwes'
    BY <1>2 DEF Delete, Get, Has
  <1>3. CASE Clear(p)
    BY <1>3 DEF Clear, NothingLost
  <1> QED BY <1>1, <1>2, <1>3 DEF Start

\* Nothing is added to what a clear() owes, except when it begins; the steps
\* that report success are those of an iterator that has come to its end.
LEMMA WipesStep ==
  ASSUME IInv, ClearOwes, ClearWipes, "clear" \notin Faults, NEW p \in Procs,
         Start(p) \/ Step(p) \/ Crash(p)
  PROVE  ClearWipes'
  <1>1. \A q \in Procs : owed'[q] \subseteq owed[q] \/ (q = p /\ status'[q] = "busy")
    <2>1. CASE Start(p)
      BY <2>1 DEF Start, Set, SetRefused, Delete, Get, Has, Clear, Call, Return,
                  disk, walk, IInv, TypeOK
    <2>2. CASE Step(p) \/ Crash(p)
      BY <2>2 DEF Step, Crash, IsDir, MkDir, Recheck, IsWritable, TempNam,
                  PutContents, Rename, Copy, Discard, Unlink, FileExists, IsFile,
                  Open, Check, Enter, UnlinkOne, RmDir, Cleared, SetFile, KeepFiles,
                  disk, walk
    <2> QED BY <2>1, <2>2
  <1>2. \A q \in Procs : status'[q] = "cleared" =>
          \/ status[q] = "cleared"
          \/ At(q, "clear") /\ todo[q] = {}
    <2>1. CASE Start(p)
      BY <2>1 DEF Start, Set, SetRefused, Delete, Get, Has, Clear, Call, Return,
                  IInv, TypeOK
    <2>2. CASE Step(p) \/ Crash(p)
      BY <2>2 DEF Step, Crash, IsDir, MkDir, Recheck, IsWritable, TempNam,
                  PutContents, Rename, Copy, Discard, Unlink, FileExists, IsFile,
                  Open, Check, Enter, UnlinkOne, RmDir, Cleared, Goto, Return,
                  IInv, TypeOK
    <2> QED BY <2>1, <2>2
  <1>3. \A q \in Procs : At(q, "clear") /\ todo[q] = {} => owed[q] = {}
    BY DEF ClearOwes, At, IInv, TypeOK
  <1> QED BY <1>1, <1>2, <1>3 DEF ClearWipes

\* clear() reports success only when every file that was there when it began
\* has been removed or replaced since, for any number of workers that write,
\* delete, clear and die meanwhile and whatever else the file system refuses,
\* provided the unlink() calls of clear(), whose result it ignores, succeed.
THEOREM ClearIsComplete ==
  ASSUME "clear" \notin Faults
  PROVE  Spec => []ClearWipes
  <1>1. Init => ClearOwes /\ ClearWipes
    BY DEF Init, ClearOwes, ClearWipes, At
  <1>2. IInv /\ ClearOwes /\ ClearWipes /\ [Next]_vars => ClearOwes' /\ ClearWipes'
    <2> SUFFICES ASSUME IInv, ClearOwes, ClearWipes, [Next]_vars
                 PROVE  ClearOwes' /\ ClearWipes'
      OBVIOUS
    <2>1. CASE UNCHANGED vars
      BY <2>1 DEF vars, ClearOwes, ClearWipes, At, Present
    <2>2. CASE Tick
      BY <2>2 DEF Tick, ClearOwes, ClearWipes, At, Present, disk, walk
    <2>3. ASSUME NEW p \in Procs, Start(p) \/ Step(p) \/ Crash(p)
          PROVE  ClearOwes' /\ ClearWipes'
      BY <2>3, StartClearOwes, StepClearOwes, WipesStep
    <2> QED BY <2>1, <2>2, <2>3 DEF Next
  <1> QED BY Invariant, <1>1, <1>2, PTL DEF Spec

-----------------------------------------------------------------------------

\* The start of a call is the start of a call of the promise.
LEMMA StartRefines ==
  ASSUME IInv, NEW p \in Procs, Start(p)
  PROVE  Promise!Begin(p) \/ Promise!Refuse(p)
  <1> USE DEF Promise!Answer, Promise!Idle, Promise!Ops
  \* The promise reads the arguments as the cache does.
  <1>0. \A ttl \in Ttls \cup {NoTtl} :
          /\ Promise!AsksDelete(ttl) <=> AsksDelete(ttl)
          /\ Promise!Lifetime(ttl, clock) = Lifetime(ttl, clock)
    BY DEF AsksDelete, Lifetime, Promise!AsksDelete, Promise!Lifetime
  <1>1. status[p] # "busy" <=> At(p, "idle")
    BY DEF IInv, Control
  <1>2. NoTtl \in Ttls \cup {NoTtl} /\ ~AsksDelete(NoTtl) /\ Lifetime(NoTtl, clock) = 0
    BY DEF AsksDelete, Lifetime
  <1>3. NoItem.data \in Values /\ NoItem = [data |-> NoItem.data, lifetime |-> 0]
    BY EntryAssumption DEF NoItem
  <1>4. ASSUME NEW l, NEW op \in Promise!Ops, NEW k \in Keys,
               Call(p, l, op, k, NoItem), l # "idle", UNCHANGED <<entries, clock>>
        PROVE  Promise!Begin(p)
    <2>1. job' = [job EXCEPT ![p] = [op |-> op, key |-> k,
                   item |-> [data |-> NoItem.data, lifetime |-> Lifetime(NoTtl, clock)]]]
      BY <1>2, <1>3, <1>4 DEF Call
    <2>2. NoItem.data \in Values
      BY <1>3
    <2>3. \E v \in Values, ttl \in Ttls \cup {NoTtl} :
            /\ ~AsksDelete(ttl)
            /\ job' = [job EXCEPT ![p] = [op |-> op, key |-> k,
                         item |-> [data |-> v, lifetime |-> Lifetime(ttl, clock)]]]
      BY <1>2, <2>1, <2>2, Zenon
    <2>4. /\ Promise!Idle(p) /\ Promise!Answer(p, "busy")
          /\ seen' = [seen EXCEPT ![p] = Absent]
      BY <1>1, <1>4 DEF Call
    <2> QED BY <1>4, <2>3, <2>4, <1>0, Zenon DEF Promise!Begin
  <1>5. ASSUME NEW k \in Keys, NEW v \in Values, NEW ttl \in Ttls \cup {NoTtl},
               Set(p, k, v, ttl)
        PROVE  Promise!Begin(p)
    <2>1. CASE AsksDelete(ttl)
      BY <1>4, <1>5, <2>1 DEF Set, disk
    <2>2. CASE ~AsksDelete(ttl)
      <3>1. /\ Promise!Idle(p) /\ Promise!Answer(p, "busy")
            /\ seen' = [seen EXCEPT ![p] = Absent] /\ UNCHANGED <<entries, clock>>
        BY <1>1, <1>5, <2>2 DEF Set, Call, disk
      <3>2. job' = [job EXCEPT ![p] = [op |-> "set", key |-> k,
                     item |-> [data |-> v, lifetime |-> Lifetime(ttl, clock)]]]
        BY <1>5, <2>2 DEF Set, Call
      <3>3. "set" \in Promise!Ops
        OBVIOUS
      <3> QED BY <1>0, <2>2, <3>1, <3>2, <3>3, Zenon DEF Promise!Begin
    <2> QED BY <2>1, <2>2
  <1>6. ASSUME NEW k \in Keys, NEW v \in Values, NEW ttl \in Ttls \cup {NoTtl},
               SetRefused(p, k, v, ttl)
        PROVE  Promise!Refuse(p)
    BY <1>1, <1>6 DEF SetRefused, Return, Promise!Refuse, disk
  <1>7. ASSUME NEW k \in Keys, Delete(p, k) \/ Get(p, k) \/ Has(p, k)
        PROVE  Promise!Begin(p)
    BY <1>4, <1>7 DEF Delete, Get, Has, disk
  <1>8. CASE Clear(p)
    <2>1. job[p].key \in Keys
      BY DEF IInv, TypeOK, Jobs
    <2> QED BY <1>4, <1>8, <2>1 DEF Clear
  <1> QED BY <1>5, <1>6, <1>7, <1>8 DEF Start

\* Every system call of a worker is one action of the promise, or none.
LEMMA StepRefines ==
  ASSUME IInv, Whole, SameDevice \/ ThrowOnNotice,
         NEW p \in Procs, Step(p) \/ Crash(p)
  PROVE  Promise!Next \/ UNCHANGED Promise!vars
  <1> USE FileCacheAssumption
      DEF At, Goto, Return, SetFile, KeepFiles, disk, walk, PathOf, Present,
          Promise!Doing, Promise!Idle, Promise!Answer, Promise!vars
  <1>1. /\ status[p] = "busy" <=> ~At(p, "idle")
        /\ pc[p] \in SetSteps => job[p].op = "set"
        /\ pc[p] \in {"unlink", "exists"} => job[p].op = "delete"
        /\ pc[p] \in {"isfile", "open", "check"} => job[p].op \in {"get", "has"}
        /\ pc[p] \in {"clear", "files"} => job[p].op = "clear"
        /\ pc[p] = "check" => seen[p] # Absent
    BY DEF IInv, Control
  <1>2. job[p].key \in Keys /\ entries \in [Keys -> File]
    BY DEF IInv, TypeOK, Jobs
  <1>3. ASSUME Return(p, "false") \/ Return(p, "threw") \/ Return(p, "crashed"),
               ~At(p, "idle"), UNCHANGED <<entries, clock, job, seen>>
        PROVE  Promise!Next
    <2>1. Promise!Fail(p)
      BY <1>1, <1>3 DEF Promise!Fail
    <2> QED BY <2>1 DEF Promise!Next
  <1>4. CASE IsDir(p)        BY <1>4 DEF IsDir
  <1>5. CASE MkDir(p)        BY <1>5 DEF MkDir
  <1>6. CASE Recheck(p)      BY <1>3, <1>6 DEF Recheck
  <1>7. CASE IsWritable(p)   BY <1>3, <1>7 DEF IsWritable
  <1>8. CASE TempNam(p)      BY <1>3, <1>8 DEF TempNam
  <1>9. CASE PutContents(p)  BY <1>3, <1>9 DEF PutContents
  <1>10. CASE Rename(p)
    <2>1. DirOf(p) \in dirs => Renames(p)
      BY <1>10 DEF Rename, Renames, IInv, Control, Writing, Whole, DirOf
    <2>2. CASE Return(p, "true") /\ SetFile(PathOf(p), job[p].item)
      <3>1. Promise!Put(p)
        BY <1>1, <1>10, <2>2 DEF Rename, Promise!Put, SetSteps, Writing
      <3> QED BY <3>1 DEF Promise!Next
    <2> QED BY <1>10, <2>1, <2>2 DEF Rename
  <1>11. CASE Copy(p)
    <2>1. FALSE
      BY <1>11 DEF Copy, Whole
    <2> QED BY <2>1
  <1>12. CASE Discard(p)     BY <1>3, <1>12 DEF Discard
  <1>13. CASE Unlink(p)
    <2>1. CASE Return(p, "true") /\ SetFile(PathOf(p), Absent)
      <3>1. Promise!Remove(p)
        BY <1>1, <1>13, <2>1 DEF Unlink, Promise!Remove
      <3> QED BY <3>1 DEF Promise!Next
    <2> QED BY <1>13, <2>1 DEF Unlink
  <1>14. CASE FileExists(p)
    <2>1. CASE job[p].key \in Present
      BY <1>3, <1>14, <2>1 DEF FileExists
    <2>2. CASE job[p].key \notin Present
      <3>1. entries' = [entries EXCEPT ![job[p].key] = Absent]
        BY <1>2, <1>14, <2>2 DEF FileExists
      <3>2. Promise!Remove(p)
        BY <1>1, <1>14, <2>2, <3>1 DEF FileExists, Promise!Remove
      <3> QED BY <3>2 DEF Promise!Next
    <2> QED BY <2>1, <2>2
  <1>15. CASE IsFile(p)
    <2>1. CASE Return(p, "miss") /\ job[p].key \notin Present
      <3>1. Promise!Miss(p)
        BY <1>1, <1>2, <1>15, <2>1 DEF IsFile, Promise!Miss
      <3> QED BY <3>1 DEF Promise!Next
    <2> QED BY <1>15, <2>1 DEF IsFile
  <1>16. CASE Open(p)
    <2>1. CASE job[p].key \in Present
      <3>1. Promise!Look(p)
        BY <1>1, <1>16, <2>1 DEF Open, Promise!Look
      <3> QED BY <3>1 DEF Promise!Next
    <2> QED BY <1>3, <1>16, <2>1 DEF Open
  <1>17. CASE Check(p)
    <2>1. seen[p] # Torn /\ seen[p] # Absent
      BY <1>1, <1>17 DEF Check, Whole
    <2>2. CASE Fresh(p)
      <3>1. Promise!Hit(p)
        BY <1>1, <1>17, <2>1, <2>2 DEF Check, Fresh, Promise!Hit, FreshForGet, FreshForHas,
                  Promise!FreshForGet, Promise!FreshForHas
      <3> QED BY <3>1 DEF Promise!Next
    <2>3. CASE ~Fresh(p) /\ Return(p, "threw")
      BY <1>3, <1>17, <2>1, <2>3 DEF Check
    <2>4. CASE ~Fresh(p) /\ Return(p, "miss")
      <3>1. Promise!Miss(p)
        BY <1>1, <1>17, <2>1, <2>4 DEF Check, Fresh, Promise!Miss, FreshForGet, FreshForHas,
                  Promise!FreshForGet, Promise!FreshForHas
      <3> QED BY <3>1 DEF Promise!Next
    <2> QED BY <1>17, <2>1, <2>2, <2>3, <2>4 DEF Check
  <1>18. ASSUME NEW d \in Dirs, Enter(p, d)
         PROVE  Promise!Next \/ UNCHANGED Promise!vars
    BY <1>3, <1>18 DEF Enter
  <1>19. ASSUME NEW k \in Keys, UnlinkOne(p, k)
         PROVE  Promise!Next \/ UNCHANGED Promise!vars
    <2>1. CASE SetFile(k, Absent)
      <3>1. Promise!Wipe(p, k)
        BY <1>1, <1>19, <2>1 DEF UnlinkOne, Promise!Wipe
      <3> QED BY <3>1 DEF Promise!Next
    <2> QED BY <1>19, <2>1 DEF UnlinkOne
  <1>20. CASE RmDir(p)       BY <1>20 DEF RmDir
  <1>21. CASE Cleared(p)
    <2>1. Promise!Cleared(p)
      BY <1>1, <1>21 DEF Cleared, Promise!Cleared
    <2> QED BY <2>1 DEF Promise!Next
  <1>22. CASE Crash(p)       BY <1>3, <1>22 DEF Crash
  <1> QED
    BY <1>4, <1>5, <1>6, <1>7, <1>8, <1>9, <1>10, <1>11, <1>12, <1>13, <1>14, <1>15,
       <1>16, <1>17, <1>18, <1>19, <1>20, <1>21, <1>22 DEF Step

\* The file cache implements the promise of a shared cache: whatever the
\* workers do to each other, a call that reports success took effect at one
\* instant, a read answers from one whole entry, and a call that fails or dies
\* changes nothing.
THEOREM Refinement ==
  ASSUME SameDevice \/ ThrowOnNotice
  PROVE  Spec => KeepsPromise
  <1>1. Init => Promise!Init
    BY DEF Init, Promise!Init, NoItem, Promise!NoItem
  <1>2. Init => Whole
    BY FileCacheAssumption DEF Init, Whole, NoTornEntry
  <1>3. IInv /\ Whole /\ [Next]_vars => Whole'
    BY WholeInductive
  <1>4. IInv /\ Whole /\ [Next]_vars => [Promise!Next]_(Promise!vars)
    <2> SUFFICES ASSUME IInv, Whole, [Next]_vars
                 PROVE  Promise!Next \/ UNCHANGED Promise!vars
      OBVIOUS
    <2>1. CASE UNCHANGED vars
      BY <2>1 DEF vars, Promise!vars
    <2>2. CASE Tick
      <3>1. Promise!Tick
        BY <2>2 DEF Tick, Promise!Tick, disk
      <3> QED BY <3>1 DEF Promise!Next
    <2>3. ASSUME NEW p \in Procs, Start(p) \/ Step(p) \/ Crash(p)
          PROVE  Promise!Next \/ UNCHANGED Promise!vars
      BY <2>3, StartRefines, StepRefines DEF Promise!Next
    <2> QED BY <2>1, <2>2, <2>3 DEF Next
  <1> QED BY Invariant, <1>1, <1>2, <1>3, <1>4, PTL DEF Spec, KeepsPromise, Promise!Spec

=============================================================================
