------------------------------ MODULE FileCache ------------------------------
(***************************************************************************)
(* The disk cache handler (BCTransportHandlerFileCache.cpp): a map of what *)
(* is cached in memory, one file per response on disk, and an ini file     *)
(* from which the map is rebuilt when the cache is enabled.                *)
(*                                                                         *)
(* One thread calls the cache, so a call changes memory in one step.  What *)
(* it does to the disk takes time, and the program may die in between: a   *)
(* call queues its disk operations in order in disk.todo, DiskStep does    *)
(* them one by one, the next call comes when all are done, and Crash may   *)
(* come at any time.                                                       *)
(***************************************************************************)
EXTENDS Integers, Sequences, FiniteSets, Functions

CONSTANTS
  Url,                   \* what responses are cached under
  Job,                   \* loads that the cache may serve
  NoFile,                \* a path that names no file
  Sizes,                 \* the sizes of response bodies
  Limits,                \* what SetMaxCacheSize may be given
  DefaultFileCacheSize,  \* kDefaultFileCacheSize
  MaxPracticalFileSize,  \* kMaxPracticalFileSize
  AccessLimit,           \* kDefaultAccessCountBeforeMaintenance
  Expiration,            \* kDefaultExpirationTimeSeconds
  MaxTime,               \* bound: the last value of the clocks
  MaxStores,             \* bound: calls of CacheToDisk
  MaxStarts,             \* bound: how often the program is started
  MaxCrashes             \* bound: how often it dies

ASSUME FileCacheAssumption ==
  /\ NoFile \notin Int
  /\ Sizes \subseteq Nat \ {0} /\ Sizes # {} /\ Limits \subseteq Nat
  /\ {DefaultFileCacheSize, MaxPracticalFileSize, AccessLimit, MaxTime} \subseteq Nat
  /\ {Expiration, MaxStores, MaxStarts, MaxCrashes} \subseteq Nat /\ MaxStarts > 0

VARIABLES
  enabled,  \* mbEnabled, and mbInitialized, which no call leaves different
  cache,    \* mDataMap and mnCacheAccessCountSinceLastMaintenance
  maxSize,  \* mnMaxFileCacheSize
  disk,     \* the cache directory, its ini file, disk operations under way
  now,      \* GetHTTPTime(), the time of day
  ticks,    \* clock(), the time since the program was started
  jobs,     \* the loads that the cache serves
  stores,   \* how often the cache was told to keep a response
  starts,   \* how often the program was started
  crashes,  \* how often it died
  latest    \* the response the cache was last told to keep, per URL

vars == <<enabled, cache, maxSize, disk, now, ticks, jobs, stores, starts, crashes, latest>>

-----------------------------------------------------------------------------
Body == [url : Url, size : Sizes]

\* A file that was created and not, or not completely, written.
Unwritten == [url |-> "none", size |-> 0]

\* TransportHandlerFileCache::Info
Info == [file : Int, size : Sizes, lastUsed : Int, timeout : Int]

NoEntries == << >>

\* The name of a file is the time MakeTempPathName put into it.
Remove(files) == [op |-> "remove", files |-> files]
Store(file, content) == [op |-> "store", file |-> file, content |-> content]
SaveIni(entries) == [op |-> "save", entries |-> entries]

NoJob == [state |-> "none", url |-> "none", path |-> NoFile]

TypeOK ==
  /\ enabled \in BOOLEAN
  /\ DOMAIN cache.entries \subseteq Url /\ Range(cache.entries) \subseteq Info
  /\ cache.count \in 0..AccessLimit
  /\ maxSize \in Limits \cup {DefaultFileCacheSize}
  /\ DOMAIN disk.ini \subseteq Url /\ Range(disk.ini) \subseteq Info
  /\ DOMAIN disk.files \subseteq Int /\ Range(disk.files) \subseteq Body \cup {Unwritten}
  /\ \A k \in DOMAIN disk.todo : disk.todo[k].op \in {"remove", "store", "save"}
  /\ now \in 0..MaxTime /\ ticks \in 0..MaxTime
  /\ \A j \in Job : /\ jobs[j].state \in {"none", "admitted", "named", "open"}
                    /\ jobs[j].url \in Url \cup {"none"}
                    /\ jobs[j].path \in Int \cup {NoFile}
  /\ stores \in 0..MaxStores /\ starts \in 1..MaxStarts /\ crashes \in 0..MaxCrashes
  /\ \A u \in Url : latest[u] \in Body \cup {Unwritten}

Init ==
  /\ enabled = FALSE
  /\ cache = [entries |-> NoEntries, count |-> 0]
  /\ maxSize = DefaultFileCacheSize
  /\ disk = [files |-> NoEntries, ini |-> NoEntries, todo |-> << >>]
  /\ now = 0 /\ ticks = 0
  /\ jobs = [j \in Job |-> NoJob]
  /\ stores = 0 /\ starts = 1 /\ crashes = 0
  /\ latest = [u \in Url |-> Unwritten]

\* No call is under way.
Quiet == disk.todo = << >>

\* The bytes of all the files that have an entry
Bytes(entries) == UNION {{u} \X (1..entries[u].size) : u \in DOMAIN entries}

Usage(entries) == Cardinality(Bytes(entries))

FilesOf(entries) == {entries[u].file : u \in DOMAIN entries}

Without(entries, urls) == Restrict(entries, DOMAIN entries \ urls)

\* The entries or files m with the given one under key
With(m, key, value) ==
  [k \in DOMAIN m \cup {key} |-> IF k = key THEN value ELSE m[k]]

OpenFiles == {jobs[j].path : j \in {i \in Job : jobs[i].state = "open"}}

-----------------------------------------------------------------------------
(* Maintenance.  A call works on c, the cache and the disk operations it *)
(* has queued so far; stuck are the open files the platform will not let *)
(* it remove, which RemoveCachedFile's callers never learn.              *)

Call == [entries |-> cache.entries, count |-> cache.count, todo |-> << >>]

RemoveFiles(c, files, stuck) ==
  IF files = {} THEN c ELSE [c EXCEPT !.todo = Append(@, Remove(files \ stuck))]

\* UpdateCacheIniFile
UpdateCacheIniFile(c) ==
  IF enabled THEN [c EXCEPT !.todo = Append(@, SaveIni(c.entries))] ELSE c

Expired(entries) == {u \in DOMAIN entries : now >= entries[u].timeout}

\* Mutant: the limit is compared with the number of entries.
EvictionsByNumber(entries, limit) ==
  {gone \in SUBSET DOMAIN entries : Cardinality(DOMAIN entries \ gone) <= limit}

\* What the loop over FindLRUItem may evict: the entries used longest ago,
\* in any order where they were used at the same time, and none more than
\* it takes.
Evictions(entries, limit) ==
  {gone \in SUBSET DOMAIN entries :
     LET kept == DOMAIN entries \ gone IN
     /\ Usage(Restrict(entries, kept)) <= limit
     /\ \A u \in gone, v \in kept : entries[u].lastUsed <= entries[v].lastUsed
     /\ gone # {} =>
          \E last \in gone :
             /\ \A u \in gone : entries[u].lastUsed <= entries[last].lastUsed
             /\ Usage(Restrict(entries, kept \cup {last})) > limit}

\* DoPeriodicCacheMaintenance
Maintained(c, limit, stuck) ==
  IF ~enabled THEN {c} ELSE
  LET live == Without(c.entries, Expired(c.entries)) IN
  { LET entries == Without(live, gone)
        files   == FilesOf(c.entries) \ FilesOf(entries)
        swept   == [RemoveFiles(c, files, stuck) EXCEPT !.entries = entries, !.count = 0]
    IN  IF files = {} THEN swept ELSE UpdateCacheIniFile(swept)
    : gone \in Evictions(live, limit) }

\* Mutant: the count is not looked at.
CountedOnly(c, stuck) == {[c EXCEPT !.count = @ + 1]}

\* An access was counted: maintenance may be due.
Counted(c, stuck) ==
  IF c.count + 1 > AccessLimit THEN Maintained(c, maxSize, stuck)
  ELSE {[c EXCEPT !.count = @ + 1]}

\* The call c is all that is done in memory; its disk operations follow.
Finish(c) ==
  /\ cache' = [entries |-> c.entries, count |-> c.count]
  /\ disk' = [disk EXCEPT !.todo = c.todo]

-----------------------------------------------------------------------------
(* Calls *)

\* Drops u's entry and its file, if there is one; the ini file still has it.
Purged(c, u, stuck) ==
  IF u \in DOMAIN c.entries
  THEN [RemoveFiles(c, {c.entries[u].file}, stuck) EXCEPT !.entries = Without(@, {u})]
  ELSE c

\* Mutant: the entry stays until the new one replaces it.
RemoveCachedDataLater(u, stuck) == Counted(Call, stuck)

\* RemoveCachedData counts the access and maybe tidies up before it purges.
RemoveCachedData(u, stuck) ==
  {Purged(c, u, stuck) : c \in Counted(Call, stuck)}

\* Mutant: nobody looks whether the name is taken.
NewNameUnchecked(c) == ticks

\* The files that the steps of todo remove
Removed(todo) == UNION {todo[k].files : k \in {i \in DOMAIN todo : todo[i].op = "remove"}}

\* MakeTempPathName: the time since the program was started, or the latest
\* time before it that no file has.
GetNewCacheFileName(c) ==
  LET taken   == DOMAIN disk.files \ Removed(c.todo)
      Free(n) == n \notin taken
  IN  CHOOSE n \in (ticks - Cardinality(taken))..ticks :
        Free(n) /\ \A m \in n + 1..ticks : ~Free(m)

\* The file of the new entry is written, or only created, or not even named;
\* an entry without its file is erased again.
Written(c, b, outcome) ==
  LET file == GetNewCacheFileName(c)
      info == [file |-> file, size |-> b.size, lastUsed |-> now, timeout |-> now + Expiration]
  IN  CASE outcome = "written" ->
             [c EXCEPT !.todo = Append(@, Store(file, b)),
                       !.entries = With(@, b.url, info)]
        [] outcome = "created" -> [c EXCEPT !.todo = Append(@, Store(file, Unwritten))]
        [] outcome = "unnamed" -> c

\* CacheToDisk(uri, mime, requestData)
CacheToDisk(b, outcome, stuck) ==
  /\ Quiet /\ enabled /\ stores < MaxStores
  /\ \E c \in RemoveCachedData(b.url, stuck) :
       \E d \in Counted(Written(c, b, outcome), stuck) : Finish(d)
  /\ latest' = [latest EXCEPT ![b.url] = b]
  /\ stores' = stores + 1
  /\ UNCHANGED <<enabled, maxSize, now, ticks, jobs, starts, crashes>>

\* InvalidateCachedData: a POST, PUT or DELETE to u is about to be sent.
InvalidateCachedData(u, stuck) ==
  /\ Quiet /\ enabled
  /\ Finish(Purged(Call, u, stuck))
  /\ latest' = [latest EXCEPT ![u] = Unwritten]
  /\ UNCHANGED <<enabled, maxSize, now, ticks, jobs, stores, starts, crashes>>

\* ClearCache, also called by SetCacheDirectory
ClearCache(stuck) ==
  /\ Quiet
  /\ LET c == RemoveFiles(Call, FilesOf(cache.entries), stuck)
     IN  Finish(UpdateCacheIniFile([c EXCEPT !.entries = NoEntries]))
  /\ UNCHANGED <<enabled, maxSize, now, ticks, jobs, stores, starts, crashes, latest>>

\* SetMaxCacheSize
SetMaxCacheSize(size, stuck) ==
  /\ Quiet
  /\ maxSize' = size
  /\ IF size < maxSize
     THEN \E c \in Maintained(Call, size, stuck) : Finish(c)
     ELSE UNCHANGED <<cache, disk>>
  /\ UNCHANGED <<enabled, now, ticks, jobs, stores, starts, crashes, latest>>

\* UseFileCache(TRUE), Init: the map is read back from the ini file, without
\* what has expired, is too large or has no file; all other files go.
FromIni ==
  LET usable == {u \in DOMAIN disk.ini : /\ disk.ini[u].size <= MaxPracticalFileSize
                                         /\ disk.ini[u].timeout > now
                                         /\ disk.ini[u].file \in DOMAIN disk.files}
  IN  [u \in usable |-> [disk.ini[u] EXCEPT !.lastUsed = IF @ > now THEN now ELSE @]]

\* Mutant: the files without an entry stay.
EnableUntidily(stuck) ==
  /\ Quiet /\ ~enabled
  /\ enabled' = TRUE
  /\ Finish([Call EXCEPT !.entries = FromIni])
  /\ UNCHANGED <<maxSize, now, ticks, jobs, stores, starts, crashes, latest>>

EnableFileCache(stuck) ==
  /\ Quiet /\ ~enabled
  /\ enabled' = TRUE
  /\ Finish(RemoveFiles([Call EXCEPT !.entries = FromIni],
                        DOMAIN disk.files \ FilesOf(FromIni), stuck))
  /\ UNCHANGED <<maxSize, now, ticks, jobs, stores, starts, crashes, latest>>

\* UseFileCache(FALSE), Shutdown
DisableFileCache(stuck) ==
  /\ Quiet /\ enabled
  /\ enabled' = FALSE
  /\ \E c \in Maintained(Call, maxSize, stuck) :
       Finish([UpdateCacheIniFile(c) EXCEPT !.entries = NoEntries])
  /\ UNCHANGED <<maxSize, now, ticks, jobs, stores, starts, crashes, latest>>

\* SetCacheIniFileName removes the old ini file.
SetCacheIniFileName ==
  /\ Quiet
  /\ disk' = [disk EXCEPT !.todo = <<SaveIni(NoEntries)>>]
  /\ UNCHANGED <<enabled, cache, maxSize, now, ticks, jobs, stores, starts, crashes, latest>>

-----------------------------------------------------------------------------
(* Loads served from the cache *)

GetCachedDataValidity(u) ==
  enabled /\ u \in DOMAIN cache.entries /\ cache.entries[u].timeout > now

JobMoves(j, from, to) ==
  /\ Quiet /\ jobs[j].state = from
  /\ jobs' = [jobs EXCEPT ![j] = to]
  /\ UNCHANGED <<enabled, cache, maxSize, disk, now, ticks, stores, starts, crashes, latest>>

\* initializeHandle prefers the cache to the handler of the scheme.
Admit(j, u) ==
  /\ GetCachedDataValidity(u)
  /\ JobMoves(j, "none", [NoJob EXCEPT !.state = "admitted", !.url = u])

\* InitJob looks the entry up again; without one the path names no file.
InitJob(j) ==
  LET u == jobs[j].url IN
  JobMoves(j, "admitted",
           [NoJob EXCEPT !.state = "named",
              !.path = IF u \in DOMAIN cache.entries THEN cache.entries[u].file ELSE NoFile])

\* A job whose file is gone by now fails.
Connect(j) ==
  JobMoves(j, "named", IF jobs[j].path \in DOMAIN disk.files
                       THEN [jobs[j] EXCEPT !.state = "open"] ELSE NoJob)

\* Transfer until all of the open file is read, Disconnect and ShutdownJob
Transfer(j) == JobMoves(j, "open", NoJob)

-----------------------------------------------------------------------------
(* The disk, the clocks and the end of the program *)

FilesAfter(step) ==
  CASE step.op = "remove" -> Restrict(disk.files, DOMAIN disk.files \ step.files)
    [] step.op = "store"  -> With(disk.files, step.file, step.content)
    [] OTHER              -> disk.files

DiskStep ==
  /\ ~Quiet
  /\ LET step == Head(disk.todo) IN
     disk' = [files |-> FilesAfter(step),
              ini   |-> IF step.op = "save" THEN step.entries ELSE disk.ini,
              todo  |-> Tail(disk.todo)]
  /\ UNCHANGED <<enabled, cache, maxSize, now, ticks, jobs, stores, starts, crashes, latest>>

\* The files and the ini file that the program may leave when it dies now:
\* those of a step half done, too.
Remains ==
  {[files |-> disk.files, ini |-> disk.ini]} \cup
  IF Quiet THEN {} ELSE
  LET step == Head(disk.todo) IN
  CASE step.op = "remove" ->
         {[files |-> Restrict(disk.files, DOMAIN disk.files \ S), ini |-> disk.ini]
          : S \in SUBSET step.files}
    [] step.op = "store" ->
         {[files |-> With(disk.files, step.file, Unwritten), ini |-> disk.ini]}
    [] step.op = "save" ->
         {[files |-> disk.files, ini |-> Restrict(step.entries, S)]
          : S \in SUBSET DOMAIN step.entries}

\* A new process finds what is on the disk, at whatever time the clock says.
StartWith(remains) ==
  /\ starts < MaxStarts /\ starts' = starts + 1
  /\ enabled' = FALSE
  /\ cache' = [entries |-> NoEntries, count |-> 0]
  /\ maxSize' = DefaultFileCacheSize
  /\ disk' = [files |-> remains.files, ini |-> remains.ini, todo |-> << >>]
  /\ now' \in 0..MaxTime /\ ticks' = 0
  /\ jobs' = [j \in Job |-> NoJob]
  /\ UNCHANGED <<stores, latest>>

Restart ==
  /\ Quiet /\ ~enabled /\ \A j \in Job : jobs[j].state = "none"
  /\ StartWith(disk)
  /\ UNCHANGED crashes

Crash ==
  /\ crashes < MaxCrashes /\ crashes' = crashes + 1
  /\ \E remains \in Remains : StartWith(remains)

Tick ==
  /\ Quiet /\ ticks < MaxTime /\ ticks' = ticks + 1
  /\ now' \in {now, now + 1} /\ now' <= MaxTime
  /\ UNCHANGED <<enabled, cache, maxSize, disk, jobs, stores, starts, crashes, latest>>

Calls ==
  \E stuck \in SUBSET OpenFiles :
    \/ \E b \in Body, outcome \in {"written", "created", "unnamed"} :
         CacheToDisk(b, outcome, stuck)
    \/ \E u \in Url : InvalidateCachedData(u, stuck)
    \/ ClearCache(stuck)
    \/ \E size \in Limits : SetMaxCacheSize(size, stuck)
    \/ EnableFileCache(stuck)
    \/ DisableFileCache(stuck)

JobSteps ==
  \E j \in Job :
    \/ \E u \in Url : Admit(j, u)
    \/ InitJob(j) \/ Connect(j) \/ Transfer(j)

Next ==
  Calls \/ SetCacheIniFileName \/ JobSteps \/ DiskStep \/ Restart \/ Crash \/ Tick

Spec == Init /\ [][Next]_vars

-----------------------------------------------------------------------------
(* Properties *)

\* However the map came about, by calls or from an ini file that a crash has
\* left behind, between two calls each entry has a file and no two share it:
\* RemoveCachedFile on behalf of one never takes the response of another.
EntriesOwnFiles ==
  Quiet => /\ FilesOf(cache.entries) \subseteq DOMAIN disk.files
           /\ \A u, v \in DOMAIN cache.entries :
                cache.entries[u].file = cache.entries[v].file => u = v

\* CacheToDisk, InvalidateCachedData: as long as the program never dies, over
\* any number of orderly shutdowns, what is cached for a URL is the response
\* that the cache was last told to keep, and nothing after a POST to it.
EntriesAreLatest ==
  crashes = 0 /\ Quiet =>
    \A u \in DOMAIN cache.entries : disk.files[cache.entries[u].file] = latest[u]

\* DoPeriodicCacheMaintenance: the cache outgrows its limit by at most one
\* response per access counted since it last tidied up, also when the map
\* comes from an ini file whose writer died.
UsageBounded ==
  \E limit \in Limits \cup {DefaultFileCacheSize}, size \in Sizes :
    Usage(cache.entries) <= limit + cache.count * size

\* RemoveUnusedCachedFiles: whatever crashes and failed writes have left, once
\* the cache is enabled it keeps no file without an entry, save open ones.
EnablingTidies ==
  [][~enabled /\ enabled' =>
       \A f \in DOMAIN disk.files :
         \/ f \in FilesOf(cache'.entries)
         \/ f \in OpenFiles
         \/ \E k \in DOMAIN disk'.todo : f \in disk'.todo[k].files]_vars
=============================================================================
