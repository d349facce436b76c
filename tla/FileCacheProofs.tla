--------------------------- MODULE FileCacheProofs ---------------------------
(***************************************************************************)
(* Theorems about FileCache, for any URLs, sizes, limits, times, failures  *)
(* and crashes.                                                            *)
(*                                                                         *)
(* What the map promises about the disk is promised for the time when the  *)
(* operations of the call are done.  Settled says that of one file without *)
(* doing them: nothing in the queue touches the file and it is as it       *)
(* should be, or the last operation that touches it stores what it should  *)
(* hold.  The files of the map and, after an orderly shutdown, those of    *)
(* the ini file are settled whatever of a call is under way.               *)
(*                                                                         *)
(* How much the map holds is bounded through what is saved: an ini file is *)
(* within a limit, so the cache is too when it has read one.               *)
(***************************************************************************)
EXTENDS FileCache, FiniteSetTheorems, WellFoundedInduction, TLAPS

-----------------------------------------------------------------------------
(* The inductive invariant *)

Content == Body \cup {Unwritten}

Entries == UNION {[D -> Info] : D \in SUBSET Url}

Step ==
  [op : {"remove"}, files : SUBSET Int]
    \cup [op : {"store"}, file : Int, content : Content]
    \cup [op : {"save"}, entries : Entries]

FilesOK(files) ==
  /\ DOMAIN files \subseteq Int /\ IsFiniteSet(DOMAIN files)
  /\ \A f \in DOMAIN files : files[f] \in Content

\* No two entries share a file.
OneToOne(entries) ==
  \A u, v \in DOMAIN entries : entries[u].file = entries[v].file => u = v

Touches(step, f) ==
  \/ step.op = "remove" /\ f \in step.files
  \/ step.op = "store" /\ f = step.file

\* When todo is done on files, the file f holds b.
Settled(f, b, files, todo) ==
  \/ /\ f \in DOMAIN files /\ files[f] = b
     /\ \A k \in DOMAIN todo : ~Touches(todo[k], f)
  \/ \E k \in DOMAIN todo :
        /\ todo[k] = Store(f, b)
        /\ \A m \in DOMAIN todo : m > k => ~Touches(todo[m], f)

\* The file of each entry will hold something, and, if the program has not
\* died so far, the response of l.
Kept(entries, l, files, todo, died) ==
  \A u \in DOMAIN entries :
    \E b \in Content : /\ Settled(entries[u].file, b, files, todo)
                       /\ died = 0 => b = l[u]

CallType == [entries : Entries, count : 0..AccessLimit, todo : Seq(Step)]

\* A call with so much done: c has the map and what is to be done on files.
CallOK(c, l, files, died) ==
  /\ c \in CallType
  /\ OneToOne(c.entries)
  /\ \A k \in DOMAIN c.todo : c.todo[k].op = "save" => OneToOne(c.todo[k].entries)
  /\ Kept(c.entries, l, files, c.todo, died)

JobType ==
  [state : {"none", "admitted", "named", "open"}, url : Url \cup {"none"},
   path : Int \cup {NoFile}]

Counters ==
  /\ enabled \in BOOLEAN /\ maxSize \in Limits \cup {DefaultFileCacheSize}
  /\ now \in 0..MaxTime /\ ticks \in 0..MaxTime
  /\ jobs \in [Job -> JobType] /\ latest \in [Url -> Content]
  /\ stores \in 0..MaxStores /\ starts \in 1..MaxStarts /\ crashes \in 0..MaxCrashes

\* The map, and what is under way
Underway == [entries |-> cache.entries, count |-> cache.count, todo |-> disk.todo]

\* After an orderly shutdown the ini file, when it is written, is right.
IniOK(ini, l, files, todo, died) ==
  /\ (\A k \in DOMAIN todo : todo[k].op # "save") => Kept(ini, l, files, todo, died)
  /\ \A k \in DOMAIN todo :
       todo[k].op = "save" /\ (\A m \in DOMAIN todo : m > k => todo[m].op # "save")
         => Kept(todo[k].entries, l, files, todo, died)

IInv ==
  /\ Counters
  /\ disk = [files |-> disk.files, ini |-> disk.ini, todo |-> disk.todo]
  /\ FilesOK(disk.files) /\ disk.ini \in Entries /\ OneToOne(disk.ini)
  /\ CallOK(Underway, latest, disk.files, crashes)
  /\ ~enabled => /\ cache.entries = NoEntries
                 /\ crashes = 0 => IniOK(disk.ini, latest, disk.files, disk.todo, crashes)

LEMMA Constants ==
  /\ Sizes \subseteq Nat \ {0} /\ Limits \subseteq Nat
  /\ DefaultFileCacheSize \in Nat /\ MaxPracticalFileSize \in Nat /\ AccessLimit \in Nat
  /\ MaxTime \in Nat /\ Expiration \in Nat /\ MaxStores \in Nat
  /\ MaxStarts \in Nat \ {0} /\ MaxCrashes \in Nat
  BY FileCacheAssumption

-----------------------------------------------------------------------------
(* Maps of entries and files *)

LEMMA InEntries ==
  ASSUME NEW e \in Entries
  PROVE  /\ DOMAIN e \subseteq Url
         /\ \A u \in DOMAIN e : e[u] \in Info
<1>1. PICK D \in SUBSET Url : e \in [D -> Info]
  BY DEF Entries
<1> QED BY <1>1

LEMMA IsEntries ==
  ASSUME NEW D \in SUBSET Url, NEW e \in [D -> Info]
  PROVE  e \in Entries
  BY DEF Entries

LEMMA NoneAreEntries == NoEntries \in Entries /\ DOMAIN NoEntries = {} /\ OneToOne(NoEntries)
<1>1. DOMAIN NoEntries = {}
  BY DEF NoEntries
<1>2. NoEntries \in [{} -> Info]
  BY DEF NoEntries
<1> QED BY <1>1, <1>2, IsEntries DEF OneToOne

LEMMA InfoFields ==
  ASSUME NEW i \in Info
  PROVE  i.file \in Int /\ i.size \in Sizes /\ i.lastUsed \in Int /\ i.timeout \in Int
  BY DEF Info

LEMMA FilesAreNumbers ==
  ASSUME NEW e \in Entries
  PROVE  FilesOf(e) \subseteq Int
  BY InEntries, InfoFields DEF FilesOf

\* What is left of the entries e
Part(p, e) ==
  /\ p \in Entries /\ DOMAIN p \subseteq DOMAIN e
  /\ \A u \in DOMAIN p : p[u] = e[u]

LEMMA RestrictedEntries ==
  ASSUME NEW e \in Entries, NEW S, S \subseteq DOMAIN e
  PROVE  Part(Restrict(e, S), e) /\ DOMAIN Restrict(e, S) = S
<1>1. DOMAIN Restrict(e, S) = S /\ \A u \in S : Restrict(e, S)[u] = e[u]
  BY DEF Restrict
<1>2. Restrict(e, S) \in [S -> Info] /\ S \in SUBSET Url
  BY InEntries DEF Restrict
<1>3. Restrict(e, S) \in Entries
  BY <1>2, IsEntries
<1> QED BY <1>1, <1>3 DEF Part

LEMMA PartIsOneToOne ==
  ASSUME NEW e, NEW p, Part(p, e), OneToOne(e)
  PROVE  OneToOne(p)
  BY DEF Part, OneToOne

LEMMA PartOfPart ==
  ASSUME NEW e, NEW p, NEW q, Part(p, e), Part(q, p)
  PROVE  Part(q, e)
  BY DEF Part

\* The file of an entry that is left is no file of one that went.
LEMMA FilesApart ==
  ASSUME NEW e, NEW p, Part(p, e), OneToOne(e), NEW u \in DOMAIN e \ DOMAIN p
  PROVE  e[u].file \notin FilesOf(p)
  BY DEF Part, OneToOne, FilesOf

LEMMA RestrictedFiles ==
  ASSUME NEW files, FilesOK(files), NEW S, S \subseteq DOMAIN files
  PROVE  /\ FilesOK(Restrict(files, S))
         /\ DOMAIN Restrict(files, S) = S
         /\ \A g \in S : Restrict(files, S)[g] = files[g]
<1>1. /\ DOMAIN Restrict(files, S) = S
      /\ \A g \in S : Restrict(files, S)[g] = files[g]
  BY DEF Restrict
<1>2. IsFiniteSet(S)
  BY FS_Subset DEF FilesOK
<1> QED BY <1>1, <1>2 DEF FilesOK

-----------------------------------------------------------------------------
(* Disk operations *)

LEMMA Steps ==
  /\ \A files \in SUBSET Int : Remove(files) \in Step /\ Remove(files).op = "remove"
                               /\ Remove(files).files = files
  /\ \A f \in Int, b \in Content : Store(f, b) \in Step /\ Store(f, b).op = "store"
                                   /\ Store(f, b).file = f /\ Store(f, b).content = b
  /\ \A e \in Entries : SaveIni(e) \in Step /\ SaveIni(e).op = "save" /\ SaveIni(e).entries = e
  BY DEF Step, Remove, Store, SaveIni

LEMMA StepKinds ==
  ASSUME NEW step \in Step
  PROVE  \/ step.op = "remove" /\ step.files \subseteq Int
         \/ step.op = "store" /\ step.file \in Int /\ step.content \in Content
         \/ step.op = "save" /\ step.entries \in Entries
  BY DEF Step

\* FilesAfter, for any files
After(files, step) ==
  CASE step.op = "remove" -> Restrict(files, DOMAIN files \ step.files)
    [] step.op = "store"  -> With(files, step.file, step.content)
    [] OTHER              -> files

LEMMA AfterIsOK ==
  ASSUME NEW files, FilesOK(files), NEW step \in Step
  PROVE  /\ FilesOK(After(files, step))
         /\ \A f \in DOMAIN files : ~Touches(step, f) =>
              f \in DOMAIN After(files, step) /\ After(files, step)[f] = files[f]
         /\ \A f \in Int, b \in Content : step = Store(f, b) =>
              f \in DOMAIN After(files, step) /\ After(files, step)[f] = b
<1>1. CASE step.op = "remove"
  <2>1. After(files, step) = Restrict(files, DOMAIN files \ step.files)
    BY <1>1 DEF After
  <2>2. /\ FilesOK(After(files, step))
        /\ DOMAIN After(files, step) = DOMAIN files \ step.files
        /\ \A g \in DOMAIN files \ step.files : After(files, step)[g] = files[g]
    BY <2>1, RestrictedFiles
  <2>3. \A f \in Int, b \in Content : step # Store(f, b)
    BY <1>1, Steps
  <2> QED BY <1>1, <2>2, <2>3 DEF Touches
<1>2. CASE step.op = "store"
  <2>1. After(files, step) = With(files, step.file, step.content)
    BY <1>2 DEF After
  <2>2. step.file \in Int /\ step.content \in Content
    BY <1>2, StepKinds
  <2>3. /\ FilesOK(After(files, step))
        /\ DOMAIN After(files, step) = DOMAIN files \cup {step.file}
        /\ After(files, step)[step.file] = step.content
        /\ \A g \in DOMAIN files \ {step.file} : After(files, step)[g] = files[g]
    <3> DEFINE after == After(files, step)
    <3>1. /\ DOMAIN after = DOMAIN files \cup {step.file}
          /\ after[step.file] = step.content
          /\ \A g \in DOMAIN files \ {step.file} : after[g] = files[g]
      BY <2>1 DEF With
    <3>2. IsFiniteSet(DOMAIN files \cup {step.file})
      BY FS_AddElement DEF FilesOK
    <3> HIDE DEF after
    <3>3. FilesOK(after)
      BY <2>2, <3>1, <3>2 DEF FilesOK
    <3> QED BY <3>1, <3>3 DEF after
  <2>4. \A f \in Int, b \in Content : step = Store(f, b) => f = step.file /\ b = step.content
    BY Steps
  <2>5. \A f \in DOMAIN files : ~Touches(step, f) => f # step.file
    BY <1>2 DEF Touches
  <2> QED BY <2>3, <2>4, <2>5
<1>3. CASE step.op = "save"
  <2>1. After(files, step) = files
    BY <1>3 DEF After
  <2>2. \A f \in Int, b \in Content : step # Store(f, b)
    BY <1>3, Steps
  <2> QED BY <2>1, <2>2
<1> QED BY <1>1, <1>2, <1>3, StepKinds

LEMMA AppendElements ==
  ASSUME NEW S, NEW s \in Seq(S), NEW x \in S
  PROVE  /\ Append(s, x) \in Seq(S) /\ Len(s) \in Nat
         /\ DOMAIN s = 1..Len(s) /\ DOMAIN Append(s, x) = 1..Len(s) + 1
         /\ Append(s, x)[Len(s) + 1] = x
         /\ \A k \in 1..Len(s) : Append(s, x)[k] = s[k]
  OBVIOUS

LEMMA TailElements ==
  ASSUME NEW S, NEW s \in Seq(S), s # << >>
  PROVE  /\ Tail(s) \in Seq(S) /\ Len(s) \in Nat \ {0} /\ Head(s) = s[1] /\ Head(s) \in S
         /\ DOMAIN s = 1..Len(s) /\ DOMAIN Tail(s) = 1..Len(s) - 1
         /\ \A k \in 1..Len(s) - 1 : Tail(s)[k] = s[k + 1]
  OBVIOUS

\* What is settled stays so when an operation is done, ...
LEMMA SettledByStep ==
  ASSUME NEW files, FilesOK(files), NEW todo \in Seq(Step), todo # << >>,
         NEW f \in Int, NEW b \in Content, Settled(f, b, files, todo)
  PROVE  Settled(f, b, After(files, Head(todo)), Tail(todo))
<1> DEFINE n == Len(todo)
           rest == Tail(todo)
           after == After(files, Head(todo))
<1>1. /\ n \in Nat \ {0} /\ Head(todo) = todo[1] /\ Head(todo) \in Step
      /\ DOMAIN todo = 1..n /\ DOMAIN rest = 1..n - 1
      /\ \A k \in 1..n - 1 : rest[k] = todo[k + 1]
  BY TailElements
<1>2. /\ \A g \in DOMAIN files : ~Touches(Head(todo), g) => g \in DOMAIN after /\ after[g] = files[g]
      /\ Head(todo) = Store(f, b) => f \in DOMAIN after /\ after[f] = b
  BY <1>1, AfterIsOK
<1> HIDE DEF n, rest, after
<1>3. CASE /\ f \in DOMAIN files /\ files[f] = b
           /\ \A k \in DOMAIN todo : ~Touches(todo[k], f)
  <2>1. ~Touches(Head(todo), f)
    BY <1>1, <1>3
  <2>2. \A k \in DOMAIN rest : ~Touches(rest[k], f)
    BY <1>1, <1>3
  <2> QED BY <1>2, <1>3, <2>1, <2>2 DEF Settled, rest, after
<1>4. ASSUME NEW k \in DOMAIN todo, todo[k] = Store(f, b),
             \A m \in DOMAIN todo : m > k => ~Touches(todo[m], f)
      PROVE  Settled(f, b, after, rest)
  <2>1. CASE k = 1
    <3>1. f \in DOMAIN after /\ after[f] = b
      BY <1>1, <1>2, <1>4, <2>1
    <3>2. ASSUME NEW m \in DOMAIN rest
          PROVE  ~Touches(rest[m], f)
      <4>1. m + 1 \in DOMAIN todo /\ m + 1 > k /\ rest[m] = todo[m + 1]
        BY <1>1, <2>1
      <4> QED BY <1>4, <4>1
    <3> QED BY <3>1, <3>2 DEF Settled
  <2>2. CASE k # 1
    <3>1. k - 1 \in DOMAIN rest /\ rest[k - 1] = todo[k]
      BY <1>1, <2>2
    <3>2. ASSUME NEW m \in DOMAIN rest, m > k - 1
          PROVE  ~Touches(rest[m], f)
      <4>1. m + 1 \in DOMAIN todo /\ m + 1 > k /\ rest[m] = todo[m + 1]
        BY <1>1, <3>2
      <4> QED BY <1>4, <4>1
    <3> QED BY <1>4, <3>1, <3>2 DEF Settled
  <2> QED BY <2>1, <2>2
<1> QED BY <1>3, <1>4 DEF Settled, after, rest

\* ... when one that leaves the file alone is added, ...
LEMMA SettledByAppend ==
  ASSUME NEW files, NEW todo \in Seq(Step), NEW step \in Step,
         NEW f \in Int, NEW b \in Content, Settled(f, b, files, todo), ~Touches(step, f)
  PROVE  Settled(f, b, files, Append(todo, step))
<1> DEFINE n == Len(todo)
           more == Append(todo, step)
<1>1. /\ n \in Nat /\ DOMAIN todo = 1..n /\ DOMAIN more = 1..n + 1
      /\ more[n + 1] = step /\ \A k \in 1..n : more[k] = todo[k]
  BY AppendElements
<1> HIDE DEF n, more
<1>2. CASE /\ f \in DOMAIN files /\ files[f] = b
           /\ \A k \in DOMAIN todo : ~Touches(todo[k], f)
  <2>1. ASSUME NEW k \in DOMAIN more
        PROVE  ~Touches(more[k], f)
    BY <1>1, <1>2
  <2> QED BY <1>2, <2>1 DEF Settled, more
<1>3. ASSUME NEW k \in DOMAIN todo, todo[k] = Store(f, b),
             \A m \in DOMAIN todo : m > k => ~Touches(todo[m], f)
      PROVE  Settled(f, b, files, more)
  <2>1. k \in DOMAIN more /\ more[k] = Store(f, b)
    BY <1>1, <1>3
  <2>2. ASSUME NEW m \in DOMAIN more, m > k
        PROVE  ~Touches(more[m], f)
    BY <1>1, <1>3, <2>2
  <2> QED BY <2>1, <2>2 DEF Settled
<1> QED BY <1>2, <1>3 DEF Settled, more

\* ... and it is settled by the operation that stores it.
LEMMA SettledByStore ==
  ASSUME NEW files, NEW todo \in Seq(Step), NEW f \in Int, NEW b \in Content
  PROVE  Settled(f, b, files, Append(todo, Store(f, b)))
<1> DEFINE n == Len(todo)
           more == Append(todo, Store(f, b))
<1>1. Store(f, b) \in Step
  BY Steps
<1>2. n \in Nat /\ DOMAIN more = 1..n + 1 /\ more[n + 1] = Store(f, b)
  BY <1>1, AppendElements
<1> HIDE DEF n, more
<1>3. n + 1 \in DOMAIN more /\ \A m \in DOMAIN more : ~(m > n + 1)
  BY <1>2
<1> QED BY <1>2, <1>3 DEF Settled, more

\* When nothing is left to do, the file is there.
LEMMA SettledIsThere ==
  ASSUME NEW files, NEW f, NEW b
  PROVE  Settled(f, b, files, << >>) <=> f \in DOMAIN files /\ files[f] = b
  BY DEF Settled

-----------------------------------------------------------------------------
(* What a call does *)

LEMMA CallFields ==
  ASSUME NEW c \in CallType
  PROVE  /\ c.entries \in Entries /\ c.count \in 0..AccessLimit /\ c.todo \in Seq(Step)
         /\ \A e \in Entries : [c EXCEPT !.entries = e] \in CallType
         /\ \A n \in 0..AccessLimit : [c EXCEPT !.count = n] \in CallType
         /\ \A todo \in Seq(Step) : [c EXCEPT !.todo = todo] \in CallType
  BY DEF CallType

LEMMA KeptByAppend ==
  ASSUME NEW e \in Entries, NEW l, NEW files, NEW todo \in Seq(Step), NEW died,
         Kept(e, l, files, todo, died),
         NEW step \in Step, \A u \in DOMAIN e : ~Touches(step, e[u].file)
  PROVE  Kept(e, l, files, Append(todo, step), died)
<1> SUFFICES ASSUME NEW u \in DOMAIN e
             PROVE  \E b \in Content : /\ Settled(e[u].file, b, files, Append(todo, step))
                                       /\ died = 0 => b = l[u]
  BY DEF Kept
<1>1. PICK b \in Content : Settled(e[u].file, b, files, todo) /\ (died = 0 => b = l[u])
  BY DEF Kept
<1>2. e[u].file \in Int
  BY InEntries, InfoFields
<1>3. Settled(e[u].file, b, files, Append(todo, step))
  BY <1>1, <1>2, SettledByAppend
<1> QED BY <1>1, <1>3

LEMMA KeptByStep ==
  ASSUME NEW e \in Entries, NEW l, NEW files, FilesOK(files), NEW died,
         NEW todo \in Seq(Step), todo # << >>, Kept(e, l, files, todo, died)
  PROVE  Kept(e, l, After(files, Head(todo)), Tail(todo), died)
<1> SUFFICES ASSUME NEW u \in DOMAIN e
             PROVE  \E b \in Content :
                      /\ Settled(e[u].file, b, After(files, Head(todo)), Tail(todo))
                      /\ died = 0 => b = l[u]
  BY DEF Kept
<1>1. PICK b \in Content : Settled(e[u].file, b, files, todo) /\ (died = 0 => b = l[u])
  BY DEF Kept
<1>2. e[u].file \in Int
  BY InEntries, InfoFields
<1>3. Settled(e[u].file, b, After(files, Head(todo)), Tail(todo))
  BY <1>1, <1>2, SettledByStep
<1> QED BY <1>1, <1>3

LEMMA KeptInPart ==
  ASSUME NEW e, NEW p, Part(p, e), NEW l, NEW files, NEW todo, NEW died,
         Kept(e, l, files, todo, died)
  PROVE  Kept(p, l, files, todo, died)
  BY DEF Part, Kept

SavesOneToOne(todo) ==
  \A k \in DOMAIN todo : todo[k].op = "save" => OneToOne(todo[k].entries)

NoStores(todo) == \A k \in DOMAIN todo : todo[k].op # "store"

LEMMA SavesByAppend ==
  ASSUME NEW todo \in Seq(Step), NEW step \in Step
  PROVE  /\ SavesOneToOne(todo) /\ (step.op = "save" => OneToOne(step.entries))
              => SavesOneToOne(Append(todo, step))
         /\ NoStores(todo) /\ step.op # "store" => NoStores(Append(todo, step))
<1> DEFINE n == Len(todo)
           more == Append(todo, step)
<1>1. /\ n \in Nat /\ DOMAIN todo = 1..n /\ DOMAIN more = 1..n + 1
      /\ more[n + 1] = step /\ \A k \in 1..n : more[k] = todo[k]
  BY AppendElements
<1> HIDE DEF n, more
<1>2. \A k \in DOMAIN more : more[k] = step \/ (k \in DOMAIN todo /\ more[k] = todo[k])
  BY <1>1
<1>3. ASSUME SavesOneToOne(todo), step.op = "save" => OneToOne(step.entries)
      PROVE  SavesOneToOne(more)
  BY <1>2, <1>3 DEF SavesOneToOne
<1>4. ASSUME NoStores(todo), step.op # "store"
      PROVE  NoStores(more)
  BY <1>2, <1>4 DEF NoStores
<1> QED BY <1>3, <1>4 DEF more

\* What a call may make of c without a store
Follows(d, c) ==
  /\ DOMAIN d.entries \subseteq DOMAIN c.entries
  /\ NoStores(c.todo) => NoStores(d.todo)

LEMMA FollowsOn ==
  ASSUME NEW c, NEW d, NEW e, Follows(d, c), Follows(e, d)
  PROVE  Follows(e, c)
  BY DEF Follows

\* Removes files that the entries p, which are left of those of c, do not need.
LEMMA RemovalOK ==
  ASSUME NEW c, NEW l, NEW files, NEW died, CallOK(c, l, files, died),
         NEW p, Part(p, c.entries), NEW gone \in SUBSET Int, NEW stuck,
         gone \cap FilesOf(p) = {}
  PROVE  LET d == [RemoveFiles(c, gone, stuck) EXCEPT !.entries = p]
         IN  CallOK(d, l, files, died) /\ Follows(d, c) /\ d.entries = p
<1> DEFINE step == Remove(gone \ stuck)
           d == [RemoveFiles(c, gone, stuck) EXCEPT !.entries = p]
<1>1. /\ c \in CallType /\ c.entries \in Entries /\ c.todo \in Seq(Step)
      /\ OneToOne(c.entries) /\ SavesOneToOne(c.todo)
      /\ Kept(c.entries, l, files, c.todo, died)
  BY CallFields DEF CallOK, SavesOneToOne
<1>2. p \in Entries /\ OneToOne(p) /\ Kept(p, l, files, c.todo, died)
  BY <1>1, PartIsOneToOne, KeptInPart DEF Part
<1>3. step \in Step /\ step.op = "remove" /\ step.files = gone \ stuck
  BY Steps
<1> HIDE DEF step
<1>4. CASE gone = {}
  <2>1. d = [c EXCEPT !.entries = p]
    BY <1>4 DEF RemoveFiles
  <2>2. d \in CallType /\ d.entries = p /\ d.todo = c.todo
    BY <1>1, <1>2, <2>1, CallFields DEF CallType
  <2> HIDE DEF d
  <2>3. CallOK(d, l, files, died)
    BY <1>1, <1>2, <2>2 DEF CallOK, SavesOneToOne
  <2> QED BY <2>2, <2>3 DEF Follows, Part, d
<1>5. CASE gone # {}
  <2>1. d = [[c EXCEPT !.todo = Append(c.todo, step)] EXCEPT !.entries = p]
    BY <1>5 DEF RemoveFiles, step
  <2>2. Append(c.todo, step) \in Seq(Step)
    BY <1>1, <1>3, AppendElements
  <2>3. d \in CallType /\ d.entries = p /\ d.todo = Append(c.todo, step)
    BY <1>1, <1>2, <2>1, <2>2 DEF CallType
  <2> HIDE DEF d
  <2>4. \A u \in DOMAIN p : ~Touches(step, p[u].file)
    BY <1>3 DEF Touches, FilesOf
  <2>5. Kept(p, l, files, d.todo, died)
    BY <1>1, <1>2, <1>3, <2>3, <2>4, KeptByAppend
  <2>6. SavesOneToOne(d.todo) /\ (NoStores(c.todo) => NoStores(d.todo))
    BY <1>1, <1>3, <2>3, SavesByAppend
  <2>7. CallOK(d, l, files, died)
    BY <1>2, <2>3, <2>5, <2>6 DEF CallOK, SavesOneToOne
  <2> QED BY <2>3, <2>6, <2>7 DEF Follows, Part, d
<1> QED BY <1>4, <1>5

LEMMA RecountOK ==
  ASSUME NEW c, NEW l, NEW files, NEW died, CallOK(c, l, files, died), NEW n \in 0..AccessLimit
  PROVE  LET d == [c EXCEPT !.count = n]
         IN  CallOK(d, l, files, died) /\ Follows(d, c) /\ d.entries = c.entries
<1> DEFINE d == [c EXCEPT !.count = n]
<1>1. c \in CallType
  BY DEF CallOK
<1>2. d \in CallType /\ d.entries = c.entries /\ d.todo = c.todo
  BY <1>1 DEF CallType
<1> HIDE DEF d
<1>3. CallOK(d, l, files, died) /\ Follows(d, c)
  BY <1>2 DEF CallOK, Follows
<1> QED BY <1>2, <1>3 DEF d

LEMMA SavedOK ==
  ASSUME NEW c, NEW l, NEW files, NEW died, CallOK(c, l, files, died)
  PROVE  /\ CallOK(UpdateCacheIniFile(c), l, files, died)
         /\ Follows(UpdateCacheIniFile(c), c)
         /\ UpdateCacheIniFile(c).entries = c.entries
         /\ enabled => UpdateCacheIniFile(c).todo = Append(c.todo, SaveIni(c.entries))
<1>1. CASE ~enabled
  <2>1. UpdateCacheIniFile(c) = c
    BY <1>1 DEF UpdateCacheIniFile
  <2> QED BY <1>1, <2>1 DEF Follows
<1>2. CASE enabled
  <2> DEFINE d == UpdateCacheIniFile(c)
             step == SaveIni(c.entries)
  <2>1. /\ c \in CallType /\ c.entries \in Entries /\ c.todo \in Seq(Step)
        /\ OneToOne(c.entries) /\ SavesOneToOne(c.todo)
        /\ Kept(c.entries, l, files, c.todo, died)
    BY CallFields DEF CallOK, SavesOneToOne
  <2>2. step \in Step /\ step.op = "save" /\ step.entries = c.entries
    BY <2>1, Steps
  <2> HIDE DEF step
  <2>3. Append(c.todo, step) \in Seq(Step)
    BY <2>1, <2>2, AppendElements
  <2>4. d = [c EXCEPT !.todo = Append(c.todo, step)]
    BY <1>2 DEF UpdateCacheIniFile, step
  <2>5. d \in CallType /\ d.entries = c.entries /\ d.todo = Append(c.todo, step)
    BY <2>1, <2>3, <2>4 DEF CallType
  <2> HIDE DEF d
  <2>6. \A u \in DOMAIN c.entries : ~Touches(step, c.entries[u].file)
    BY <2>2 DEF Touches
  <2>7. Kept(c.entries, l, files, d.todo, died)
    BY <2>1, <2>2, <2>5, <2>6, KeptByAppend
  <2>8. SavesOneToOne(d.todo) /\ (NoStores(c.todo) => NoStores(d.todo))
    BY <2>1, <2>2, <2>5, SavesByAppend
  <2>9. CallOK(d, l, files, died)
    BY <2>1, <2>5, <2>7, <2>8 DEF CallOK, SavesOneToOne
  <2> QED BY <2>5, <2>8, <2>9 DEF Follows, d, step
<1> QED BY <1>1, <1>2

LEMMA MaintainedOK ==
  ASSUME NEW c, NEW l, NEW files, NEW died, CallOK(c, l, files, died),
         NEW limit, NEW stuck, NEW d \in Maintained(c, limit, stuck)
  PROVE  CallOK(d, l, files, died) /\ Follows(d, c)
<1>1. CASE ~enabled
  BY <1>1 DEF Maintained, Follows
<1>2. CASE enabled
  <2> DEFINE live == Without(c.entries, Expired(c.entries))
  <2>1. PICK gone \in Evictions(live, limit) :
          LET entries == Without(live, gone)
              removed == FilesOf(c.entries) \ FilesOf(entries)
              swept   == [RemoveFiles(c, removed, stuck) EXCEPT !.entries = entries, !.count = 0]
          IN  d = IF removed = {} THEN swept ELSE UpdateCacheIniFile(swept)
    BY <1>2 DEF Maintained
  <2> DEFINE entries == Without(live, gone)
             removed == FilesOf(c.entries) \ FilesOf(entries)
             kept    == [RemoveFiles(c, removed, stuck) EXCEPT !.entries = entries]
             swept   == [kept EXCEPT !.count = 0]
  <2>2. c.entries \in Entries
    BY CallFields DEF CallOK
  <2>3. Part(live, c.entries)
    <3>1. DOMAIN c.entries \ Expired(c.entries) \subseteq DOMAIN c.entries
      OBVIOUS
    <3> QED BY <2>2, <3>1, RestrictedEntries DEF Without
  <2>4. Part(entries, live)
    <3>1. DOMAIN live \ gone \subseteq DOMAIN live /\ live \in Entries
      BY <2>3 DEF Part
    <3> HIDE DEF live
    <3> QED BY <3>1, RestrictedEntries DEF Without
  <2>5. Part(entries, c.entries)
    BY <2>3, <2>4, PartOfPart
  <2>6. removed \subseteq Int /\ removed \cap FilesOf(entries) = {}
    BY <2>2, FilesAreNumbers
  <2> HIDE DEF live, entries, removed
  <2>7. CallOK(kept, l, files, died) /\ Follows(kept, c)
    BY <2>5, <2>6, RemovalOK
  <2> HIDE DEF kept
  <2>8. CallOK(swept, l, files, died) /\ Follows(swept, kept)
    <3>1. 0 \in 0..AccessLimit
      BY Constants
    <3> QED BY <2>7, <3>1, RecountOK
  <2>9. d = swept \/ d = UpdateCacheIniFile(swept)
    BY <2>1 DEF kept, swept, removed, entries, live
  <2> HIDE DEF swept
  <2>10. CallOK(d, l, files, died) /\ Follows(d, swept)
    BY <2>8, <2>9, SavedOK DEF Follows
  <2> QED BY <2>7, <2>8, <2>10, FollowsOn
<1> QED BY <1>1, <1>2

LEMMA CountedOK ==
  ASSUME NEW c, NEW l, NEW files, NEW died, CallOK(c, l, files, died),
         NEW stuck, NEW d \in Counted(c, stuck)
  PROVE  CallOK(d, l, files, died) /\ Follows(d, c)
<1>1. c.count \in 0..AccessLimit
  BY CallFields DEF CallOK
<1>2. CASE c.count + 1 > AccessLimit
  BY <1>2, MaintainedOK DEF Counted
<1>3. CASE ~(c.count + 1 > AccessLimit)
  <2>1. d = [c EXCEPT !.count = c.count + 1]
    BY <1>3 DEF Counted
  <2>2. c.count + 1 \in 0..AccessLimit
    BY <1>1, <1>3, Constants
  <2> QED BY <2>1, <2>2, RecountOK
<1> QED BY <1>2, <1>3

LEMMA PurgedOK ==
  ASSUME NEW c, NEW l, NEW files, NEW died, CallOK(c, l, files, died), NEW u, NEW stuck
  PROVE  /\ CallOK(Purged(c, u, stuck), l, files, died)
         /\ Follows(Purged(c, u, stuck), c)
         /\ u \notin DOMAIN Purged(c, u, stuck).entries
<1>1. CASE u \notin DOMAIN c.entries
  BY <1>1 DEF Purged, Follows
<1>2. CASE u \in DOMAIN c.entries
  <2> DEFINE p == Without(c.entries, {u})
             gone == {c.entries[u].file}
             d == [RemoveFiles(c, gone, stuck) EXCEPT !.entries = p]
  <2>1. c.entries \in Entries /\ OneToOne(c.entries)
    BY CallFields DEF CallOK
  <2>2. Part(p, c.entries) /\ DOMAIN p = DOMAIN c.entries \ {u}
    <3>1. DOMAIN c.entries \ {u} \subseteq DOMAIN c.entries
      OBVIOUS
    <3> QED BY <2>1, <3>1, RestrictedEntries DEF Without
  <2>3. gone \subseteq Int /\ gone \cap FilesOf(p) = {}
    <3>1. c.entries[u].file \in Int
      BY <1>2, <2>1, InEntries, InfoFields
    <3>2. c.entries[u].file \notin FilesOf(p)
      BY <1>2, <2>1, <2>2, FilesApart
    <3> QED BY <3>1, <3>2
  <2>4. Purged(c, u, stuck) = d
    BY <1>2 DEF Purged, RemoveFiles
  <2> HIDE DEF p, gone
  <2>5. CallOK(d, l, files, died) /\ Follows(d, c) /\ d.entries = p
    BY <2>2, <2>3, RemovalOK
  <2> HIDE DEF d
  <2> QED BY <2>2, <2>4, <2>5
<1> QED BY <1>1, <1>2

LEMMA RemoveCachedDataOK ==
  ASSUME NEW l, NEW files, NEW died, CallOK(Call, l, files, died),
         NEW u, NEW stuck, NEW d \in RemoveCachedData(u, stuck)
  PROVE  /\ CallOK(d, l, files, died) /\ NoStores(d.todo)
         /\ u \notin DOMAIN d.entries
<1>1. PICK c \in Counted(Call, stuck) : d = Purged(c, u, stuck)
  BY DEF RemoveCachedData
<1>2. CallOK(c, l, files, died) /\ Follows(c, Call)
  BY CountedOK
<1>3. CallOK(d, l, files, died) /\ Follows(d, c) /\ u \notin DOMAIN d.entries
  BY <1>1, <1>2, PurgedOK
<1>4. NoStores(Call.todo)
  BY DEF NoStores, Call
<1> QED BY <1>2, <1>3, <1>4 DEF Follows

-----------------------------------------------------------------------------
(* The name of a new file *)

LEMMA Least ==
  ASSUME NEW T \in SUBSET Nat, T # {}
  PROVE  \E n \in T : \A m \in T : n <= m
<1>1. PICK n \in T : \A m \in T : ~(<<m, n>> \in OpToRel(<, Nat))
  BY NatLessThanWellFounded, WFMin, Zenon
<1>2. \A m \in T : ~(m < n)
  BY <1>1 DEF OpToRel
<1>3. \A m \in T : n <= m
  BY <1>2
<1> QED BY <1>3

\* Of one number more than there are in taken, one is free ...
LEMMA SomeFree ==
  ASSUME NEW taken \in SUBSET Int, IsFiniteSet(taken), NEW last \in Int
  PROVE  \E n \in (last - Cardinality(taken))..last : n \notin taken
<1> DEFINE size == Cardinality(taken)
           names == (last - size)..last
<1>1. size \in Nat
  BY FS_CardinalityType
<1>2. last - size \in Int /\ ~(last - size > last) /\ last - (last - size) + 1 = size + 1
  BY <1>1
<1>3. Cardinality(names) = size + 1
  BY <1>2, FS_Interval
<1>4. ~(names \subseteq taken)
  <2> SUFFICES ASSUME names \subseteq taken PROVE FALSE
    OBVIOUS
  <2>1. Cardinality(names) <= size
    BY FS_Subset
  <2> QED BY <1>1, <1>3, <2>1
<1> QED BY <1>4

\* ... and one of the free ones is the last.
LEMMA LastFree ==
  ASSUME NEW taken, NEW first \in Int, NEW last \in Int,
         \E n \in first..last : n \notin taken
  PROVE  \E n \in first..last : /\ n \notin taken
                                /\ \A m \in n + 1..last : ~(m \notin taken)
<1> DEFINE back == {k \in Nat : last - k \in first..last /\ last - k \notin taken}
<1>1. back # {}
  <2>1. PICK n \in first..last : n \notin taken
    OBVIOUS
  <2>2. last - n \in Nat /\ last - (last - n) = n
    BY <2>1
  <2>3. last - n \in back
    BY <2>1, <2>2
  <2> QED BY <2>3
<1>2. PICK k \in back : \A m \in back : k <= m
  BY <1>1, Least
<1>3. ASSUME NEW m \in last - k + 1..last
      PROVE  ~(m \notin taken)
  <2> SUFFICES ASSUME m \notin taken PROVE FALSE
    OBVIOUS
  <2>1. last - m \in Nat /\ last - (last - m) = m /\ m \in first..last /\ ~(k <= last - m)
    BY <1>2, <1>3
  <2>2. last - m \in back
    BY <2>1
  <2> QED BY <1>2, <2>1, <2>2
<1> QED BY <1>2, <1>3

LEMMA NameIsNew ==
  ASSUME NEW c, FilesOK(disk.files), ticks \in Nat
  PROVE  /\ GetNewCacheFileName(c) \in Int
         /\ GetNewCacheFileName(c) \notin DOMAIN disk.files \ Removed(c.todo)
<1> DEFINE taken == DOMAIN disk.files \ Removed(c.todo)
           first == ticks - Cardinality(taken)
<1>1. taken \in SUBSET Int /\ IsFiniteSet(taken)
  BY FS_Subset DEF FilesOK
<1>2. first \in Int
  BY <1>1, FS_CardinalityType
<1> HIDE DEF taken
<1>3. \E n \in first..ticks : n \notin taken
  BY <1>1, SomeFree
<1> HIDE DEF first
<1>4. \E n \in first..ticks : n \notin taken /\ \A m \in n + 1..ticks : ~(m \notin taken)
  <2>1. ticks \in Int
    OBVIOUS
  <2> QED BY <1>2, <1>3, <2>1, LastFree, Zenon
<1>5. GetNewCacheFileName(c) =
        CHOOSE n \in first..ticks : n \notin taken /\ \A m \in n + 1..ticks : ~(m \notin taken)
  BY DEF GetNewCacheFileName, taken, first
<1>6. GetNewCacheFileName(c) \in first..ticks /\ GetNewCacheFileName(c) \notin taken
  BY <1>4, <1>5
<1> QED BY <1>2, <1>6 DEF taken

\* As long as nothing was stored, the files of all entries are taken, so the
\* new file is that of none.
LEMMA NameIsNobodys ==
  ASSUME NEW c, NEW l, NEW died, CallOK(c, l, disk.files, died), NoStores(c.todo),
         FilesOK(disk.files), ticks \in Nat,
         NEW u \in DOMAIN c.entries
  PROVE  c.entries[u].file # GetNewCacheFileName(c)
<1> DEFINE f == c.entries[u].file
<1>1. PICK b \in Content : Settled(f, b, disk.files, c.todo)
  BY DEF CallOK, Kept
<1>2. \A k \in DOMAIN c.todo : c.todo[k] # Store(f, b)
  BY DEF NoStores, Store
<1>3. f \in DOMAIN disk.files /\ \A k \in DOMAIN c.todo : ~Touches(c.todo[k], f)
  BY <1>1, <1>2 DEF Settled
<1>4. f \notin Removed(c.todo)
  BY <1>3 DEF Removed, Touches
<1> QED BY <1>3, <1>4, NameIsNew

LEMMA WrittenOK ==
  ASSUME NEW c, NEW l, NEW died, CallOK(c, l, disk.files, died), NoStores(c.todo),
         FilesOK(disk.files), ticks \in Nat, now \in Int,
         NEW b \in Body, b.url \notin DOMAIN c.entries, l[b.url] = b,
         NEW outcome \in {"written", "created", "unnamed"}
  PROVE  CallOK(Written(c, b, outcome), l, disk.files, died)
<1> DEFINE file == GetNewCacheFileName(c)
           info == [file |-> file, size |-> b.size, lastUsed |-> now, timeout |-> now + Expiration]
<1>1. /\ c \in CallType /\ c.entries \in Entries /\ c.todo \in Seq(Step)
      /\ OneToOne(c.entries) /\ SavesOneToOne(c.todo)
      /\ Kept(c.entries, l, disk.files, c.todo, died)
  BY CallFields DEF CallOK, SavesOneToOne
<1>2. file \in Int
  BY NameIsNew
<1>3. \A u \in DOMAIN c.entries : c.entries[u].file # file
  BY NameIsNobodys
<1>4. b.url \in Url /\ b.size \in Sizes /\ b \in Content
  BY DEF Body, Content
<1>5. info \in Info /\ info.file = file
  BY <1>2, <1>4, Constants DEF Info
<1>6. ASSUME NEW x \in Content
      PROVE  /\ Store(file, x) \in Step /\ Append(c.todo, Store(file, x)) \in Seq(Step)
             /\ SavesOneToOne(Append(c.todo, Store(file, x)))
             /\ Kept(c.entries, l, disk.files, Append(c.todo, Store(file, x)), died)
  <2> DEFINE step == Store(file, x)
  <2>1. step \in Step /\ step.op = "store" /\ step.file = file
    BY <1>2, Steps
  <2> HIDE DEF step
  <2>2. Append(c.todo, step) \in Seq(Step)
    BY <1>1, <2>1, AppendElements
  <2>3. SavesOneToOne(Append(c.todo, step))
    BY <1>1, <2>1, SavesByAppend
  <2>4. \A u \in DOMAIN c.entries : ~Touches(step, c.entries[u].file)
    BY <1>3, <2>1 DEF Touches
  <2>5. Kept(c.entries, l, disk.files, Append(c.todo, step), died)
    BY <1>1, <2>1, <2>4, KeptByAppend
  <2> QED BY <2>1, <2>2, <2>3, <2>5 DEF step
<1>7. CASE outcome = "unnamed"
  BY <1>7 DEF Written
<1>8. CASE outcome = "created"
  <2> DEFINE more == Append(c.todo, Store(file, Unwritten))
             d == [c EXCEPT !.todo = more]
  <2>1. Unwritten \in Content
    BY DEF Content
  <2>2. more \in Seq(Step) /\ SavesOneToOne(more) /\ Kept(c.entries, l, disk.files, more, died)
    BY <1>6, <2>1
  <2>3. Written(c, b, outcome) = d
    BY <1>8 DEF Written
  <2> HIDE DEF more
  <2>4. d \in CallType /\ d.entries = c.entries /\ d.todo = more
    BY <1>1, <2>2 DEF CallType
  <2> HIDE DEF d
  <2> QED BY <1>1, <2>2, <2>3, <2>4 DEF CallOK, SavesOneToOne
<1>9. CASE outcome = "written"
  <2> DEFINE more == Append(c.todo, Store(file, b))
             e == With(c.entries, b.url, info)
             d == [[c EXCEPT !.todo = more] EXCEPT !.entries = e]
  <2>1. /\ Store(file, b) \in Step /\ more \in Seq(Step) /\ SavesOneToOne(more)
        /\ Kept(c.entries, l, disk.files, more, died)
    BY <1>4, <1>6
  <2>2. Settled(file, b, disk.files, more)
    BY <1>1, <1>2, <1>4, SettledByStore
  <2>3. Written(c, b, outcome) = d
    BY <1>9 DEF Written
  <2> HIDE DEF more, info
  <2>4. /\ e \in Entries /\ DOMAIN e = DOMAIN c.entries \cup {b.url} /\ e[b.url] = info
        /\ \A v \in DOMAIN c.entries \ {b.url} : e[v] = c.entries[v]
    <3>1. /\ DOMAIN e = DOMAIN c.entries \cup {b.url} /\ e[b.url] = info
          /\ \A v \in DOMAIN c.entries \ {b.url} : e[v] = c.entries[v]
      BY DEF With
    <3>2. e \in [DOMAIN c.entries \cup {b.url} -> Info]
      BY <1>1, <1>5, InEntries DEF With
    <3>3. DOMAIN c.entries \cup {b.url} \in SUBSET Url
      BY <1>1, <1>4, InEntries
    <3> QED BY <3>1, <3>2, <3>3, IsEntries
  <2> HIDE DEF e, file
  <2>5. OneToOne(e)
    BY <1>1, <1>3, <1>5, <2>4 DEF OneToOne
  <2>6. Kept(e, l, disk.files, more, died)
    <3> SUFFICES ASSUME NEW u \in DOMAIN e
                 PROVE  \E x \in Content : /\ Settled(e[u].file, x, disk.files, more)
                                           /\ died = 0 => x = l[u]
      BY DEF Kept
    <3>1. CASE u = b.url
      BY <1>4, <1>5, <2>2, <2>4, <3>1
    <3>2. CASE u # b.url
      <4>1. u \in DOMAIN c.entries /\ e[u] = c.entries[u]
        BY <2>4, <3>2
      <4> QED BY <2>1, <4>1 DEF Kept
    <3> QED BY <3>1, <3>2
  <2>7. d \in CallType /\ d.entries = e /\ d.todo = more
    BY <1>1, <2>1, <2>4 DEF CallType
  <2> HIDE DEF d
  <2> QED BY <2>1, <2>3, <2>5, <2>6, <2>7 DEF CallOK, SavesOneToOne
<1> QED BY <1>7, <1>8, <1>9

-----------------------------------------------------------------------------
(* The invariant holds at first and is kept *)

LEMMA InitInvariant == Init => IInv
<1> SUFFICES ASSUME Init PROVE IInv
  OBVIOUS
<1>1. Counters
  <2>1. NoJob \in JobType
    BY DEF NoJob, JobType
  <2>2. jobs \in [Job -> JobType]
    BY <2>1 DEF Init
  <2>3. latest \in [Url -> Content]
    BY DEF Init, Content
  <2>4. now \in 0..MaxTime /\ ticks \in 0..MaxTime /\ stores \in 0..MaxStores
        /\ starts \in 1..MaxStarts /\ crashes \in 0..MaxCrashes
    BY Constants DEF Init
  <2>5. enabled \in BOOLEAN /\ maxSize \in Limits \cup {DefaultFileCacheSize}
    BY DEF Init
  <2> QED BY <2>2, <2>3, <2>4, <2>5 DEF Counters
<1>2. /\ disk = [files |-> disk.files, ini |-> disk.ini, todo |-> disk.todo]
      /\ disk.files = NoEntries /\ disk.ini = NoEntries /\ disk.todo = << >>
      /\ cache.entries = NoEntries /\ cache.count = 0
  BY DEF Init
<1>3. FilesOK(disk.files)
  BY <1>2, NoneAreEntries, FS_EmptySet DEF FilesOK
<1>4. \A todo : Kept(NoEntries, latest, disk.files, todo, crashes)
  BY NoneAreEntries DEF Kept
<1>5. CallOK(Underway, latest, disk.files, crashes)
  <2>1. << >> \in Seq(Step) /\ 0 \in 0..AccessLimit
    BY Constants
  <2>2. Underway \in CallType
    BY <1>2, <2>1, NoneAreEntries DEF Underway, CallType
  <2>3. Underway.entries = NoEntries /\ Underway.todo = << >>
    BY <1>2 DEF Underway
  <2> QED BY <1>4, <2>2, <2>3, NoneAreEntries DEF CallOK
<1>6. IniOK(disk.ini, latest, disk.files, disk.todo, crashes)
  BY <1>2, <1>4 DEF IniOK
<1> QED BY <1>1, <1>2, <1>3, <1>5, <1>6, NoneAreEntries DEF IInv

\* Between two calls, the map is right for the files there are.
LEMMA CallIsOK ==
  ASSUME IInv, Quiet
  PROVE  CallOK(Call, latest, disk.files, crashes)
  BY DEF IInv, Quiet, Underway, Call

\* Finish, as far as the invariant goes
Finished(d) ==
  /\ cache'.entries = d.entries /\ cache'.count = d.count
  /\ disk' = [disk EXCEPT !.todo = d.todo]

LEMMA CallFinished ==
  ASSUME IInv, NEW d, CallOK(d, latest', disk.files, crashes), Finished(d),
         Counters', crashes' = crashes,
         ~enabled' => /\ d.entries = NoEntries
                      /\ crashes = 0 => IniOK(disk.ini, latest', disk.files, d.todo, crashes)
  PROVE  IInv'
<1>1. /\ disk' = [files |-> disk'.files, ini |-> disk'.ini, todo |-> disk'.todo]
      /\ disk'.files = disk.files /\ disk'.ini = disk.ini /\ disk'.todo = d.todo
  <2>1. disk = [files |-> disk.files, ini |-> disk.ini, todo |-> disk.todo]
    BY DEF IInv
  <2>2. disk' = [disk EXCEPT !.todo = d.todo]
    BY DEF Finished
  <2>3. disk' = [files |-> disk.files, ini |-> disk.ini, todo |-> d.todo]
    BY <2>1, <2>2
  <2> QED BY <2>3
<1>2. cache'.entries = d.entries /\ cache'.count = d.count
  BY DEF Finished
<1>3. Underway' \in CallType /\ Underway'.entries = d.entries /\ Underway'.todo = d.todo
  <2>1. d.entries \in Entries /\ d.count \in 0..AccessLimit /\ d.todo \in Seq(Step)
    BY CallFields DEF CallOK
  <2> QED BY <1>1, <1>2, <2>1 DEF Underway, CallType
<1>4. CallOK(Underway', latest', disk'.files, crashes')
  BY <1>1, <1>3 DEF CallOK
<1>5. FilesOK(disk'.files) /\ disk'.ini \in Entries /\ OneToOne(disk'.ini)
  BY <1>1 DEF IInv
<1>6. ~enabled' => /\ cache'.entries = NoEntries
                   /\ crashes' = 0 => IniOK(disk'.ini, latest', disk'.files, disk'.todo, crashes')
  BY <1>1, <1>2
<1> QED BY <1>1, <1>4, <1>5, <1>6 DEF IInv

LEMMA CallDone ==
  ASSUME IInv, NEW d, CallOK(d, latest', disk.files, crashes), Finish(d),
         Counters', crashes' = crashes,
         ~enabled' => /\ d.entries = NoEntries
                      /\ crashes = 0 => IniOK(disk.ini, latest', disk.files, d.todo, crashes)
  PROVE  IInv'
<1>1. Finished(d)
  BY DEF Finish, Finished
<1> QED BY <1>1, CallFinished

LEMMA LatestOfOthers ==
  ASSUME NEW c, NEW files, NEW died, CallOK(c, latest, files, died),
         latest \in [Url -> Content], NEW u, u \notin DOMAIN c.entries, NEW b
  PROVE  CallOK(c, [latest EXCEPT ![u] = b], files, died)
<1> DEFINE l == [latest EXCEPT ![u] = b]
<1>1. c.entries \in Entries
  BY CallFields DEF CallOK
<1>2. \A v \in DOMAIN c.entries : l[v] = latest[v]
  BY <1>1, InEntries
<1> HIDE DEF l
<1>3. Kept(c.entries, l, files, c.todo, died)
  BY <1>2 DEF CallOK, Kept
<1>4. CallOK(c, l, files, died)
  BY <1>3 DEF CallOK
<1> QED BY <1>4 DEF l

LEMMA CacheToDiskInvariant ==
  ASSUME IInv, NEW b \in Body, NEW outcome \in {"written", "created", "unnamed"}, NEW stuck,
         CacheToDisk(b, outcome, stuck)
  PROVE  IInv'
<1>0. PICK c \in RemoveCachedData(b.url, stuck) :
        \E d \in Counted(Written(c, b, outcome), stuck) : Finish(d)
  BY DEF CacheToDisk
<1>1. PICK d \in Counted(Written(c, b, outcome), stuck) : Finish(d)
  BY <1>0
<1>2. CallOK(c, latest, disk.files, crashes) /\ NoStores(c.todo) /\ b.url \notin DOMAIN c.entries
  BY CallIsOK, RemoveCachedDataOK DEF CacheToDisk
<1>3. latest \in [Url -> Content] /\ latest' = [latest EXCEPT ![b.url] = b]
      /\ b.url \in Url /\ b \in Content
  BY DEF CacheToDisk, IInv, Counters, Body, Content
<1>4. CallOK(c, latest', disk.files, crashes) /\ latest'[b.url] = b
  BY <1>2, <1>3, LatestOfOthers
<1>5. CallOK(Written(c, b, outcome), latest', disk.files, crashes)
  <2>1. FilesOK(disk.files) /\ ticks \in Nat /\ now \in Int
    BY Constants DEF IInv, Counters
  <2> QED BY <1>2, <1>4, <2>1, WrittenOK
<1>6. CallOK(d, latest', disk.files, crashes)
  BY <1>5, CountedOK
<1>7. Counters'
  BY <1>3, Constants DEF CacheToDisk, IInv, Counters
<1>8. enabled' /\ crashes' = crashes
  BY DEF CacheToDisk
<1> QED BY <1>1, <1>6, <1>7, <1>8, CallDone

LEMMA InvalidateInvariant ==
  ASSUME IInv, NEW u \in Url, NEW stuck, InvalidateCachedData(u, stuck)
  PROVE  IInv'
<1> DEFINE d == Purged(Call, u, stuck)
<1>1. CallOK(d, latest, disk.files, crashes) /\ u \notin DOMAIN d.entries
  BY CallIsOK, PurgedOK DEF InvalidateCachedData
<1>2. latest \in [Url -> Content] /\ latest' = [latest EXCEPT ![u] = Unwritten]
      /\ Unwritten \in Content
  BY DEF InvalidateCachedData, IInv, Counters, Content
<1>3. Finish(d) /\ enabled' /\ crashes' = crashes
  BY DEF InvalidateCachedData
<1> HIDE DEF d
<1>4. CallOK(d, latest', disk.files, crashes)
  BY <1>1, <1>2, LatestOfOthers
<1>5. Counters'
  BY <1>2 DEF InvalidateCachedData, IInv, Counters
<1> QED BY <1>3, <1>4, <1>5, CallDone

\* What holds of the ini file between two calls
LEMMA IniIsOK ==
  ASSUME IInv, Quiet, ~enabled, crashes = 0
  PROVE  IniOK(disk.ini, latest, disk.files, << >>, crashes)
  BY DEF IInv, Quiet

LEMMA ClearCacheInvariant ==
  ASSUME IInv, NEW stuck, ClearCache(stuck)
  PROVE  IInv'
<1> DEFINE gone == FilesOf(cache.entries)
           c == RemoveFiles(Call, gone, stuck)
           none == [c EXCEPT !.entries = NoEntries]
           d == UpdateCacheIniFile(none)
<1>1. CallOK(Call, latest, disk.files, crashes) /\ Call.entries = cache.entries
  BY CallIsOK DEF ClearCache, Call
<1>2. gone \in SUBSET Int
  BY <1>1, CallFields, FilesAreNumbers DEF CallOK
<1>3. Part(NoEntries, Call.entries) /\ FilesOf(NoEntries) = {}
  BY NoneAreEntries DEF Part, FilesOf
<1>4. CallOK(none, latest, disk.files, crashes) /\ none.entries = NoEntries
  BY <1>1, <1>2, <1>3, RemovalOK
<1>5. CallOK(d, latest, disk.files, crashes) /\ d.entries = NoEntries
  BY <1>4, SavedOK
<1>6. ASSUME ~enabled
      PROVE  d.todo = << >>
  <2>1. gone = {}
    BY <1>6, NoneAreEntries DEF IInv, FilesOf
  <2>2. d = [Call EXCEPT !.entries = NoEntries]
    BY <1>6, <2>1 DEF UpdateCacheIniFile, RemoveFiles
  <2> QED BY <2>2 DEF Call
<1>7. Finish(d) /\ Quiet /\ UNCHANGED <<enabled, latest, crashes>> /\ Counters'
  BY DEF ClearCache, IInv, Counters
<1> HIDE DEF d
<1>8. ~enabled' /\ crashes = 0 => IniOK(disk.ini, latest', disk.files, d.todo, crashes)
  BY <1>6, <1>7, IniIsOK
<1> QED BY <1>5, <1>7, <1>8, CallDone

LEMMA SetMaxInvariant ==
  ASSUME IInv, NEW size \in Limits, NEW stuck, SetMaxCacheSize(size, stuck)
  PROVE  IInv'
<1>1. Quiet /\ UNCHANGED <<enabled, latest, crashes>> /\ Counters'
  BY DEF SetMaxCacheSize, IInv, Counters
<1>2. CASE size < maxSize
  <2>1. PICK d \in Maintained(Call, size, stuck) : Finish(d)
    BY <1>2 DEF SetMaxCacheSize
  <2>2. CallOK(d, latest, disk.files, crashes)
    BY <1>1, CallIsOK, MaintainedOK
  <2>3. ASSUME ~enabled
        PROVE  d.todo = << >> /\ d.entries = NoEntries
    <3>1. d = Call
      BY <2>1, <2>3 DEF Maintained
    <3> QED BY <2>3, <3>1 DEF Call, IInv
  <2>4. ~enabled' /\ crashes = 0 => IniOK(disk.ini, latest', disk.files, d.todo, crashes)
    BY <1>1, <2>3, IniIsOK
  <2> QED BY <1>1, <2>1, <2>2, <2>3, <2>4, CallDone
<1>3. CASE ~(size < maxSize)
  BY <1>1, <1>3 DEF SetMaxCacheSize, IInv, Underway
<1> QED BY <1>2, <1>3

\* Init reads from the ini file what no two entries share and what, if the
\* program never died, is the latest.
LEMMA FromIniOK ==
  ASSUME IInv, Quiet, ~enabled
  PROVE  CallOK([Call EXCEPT !.entries = FromIni], latest, disk.files, crashes)
<1> DEFINE usable == DOMAIN FromIni
           c == [Call EXCEPT !.entries = FromIni]
<1>1. disk.ini \in Entries /\ OneToOne(disk.ini)
  BY DEF IInv
<1>2. /\ usable \subseteq DOMAIN disk.ini
      /\ \A u \in usable : disk.ini[u].file \in DOMAIN disk.files
      /\ \A u \in usable :
           FromIni[u] = [disk.ini[u] EXCEPT !.lastUsed = IF @ > now THEN now ELSE @]
  BY DEF FromIni
<1>3. \A u \in usable : FromIni[u] \in Info /\ FromIni[u].file = disk.ini[u].file
  <2> SUFFICES ASSUME NEW u \in usable
               PROVE  FromIni[u] \in Info /\ FromIni[u].file = disk.ini[u].file
    OBVIOUS
  <2> DEFINE i == disk.ini[u]
             used == IF i.lastUsed > now THEN now ELSE i.lastUsed
  <2>1. i \in Info
    BY <1>1, <1>2, InEntries
  <2>2. used \in Int
    BY <2>1, InfoFields DEF IInv, Counters
  <2>3. FromIni[u] = [i EXCEPT !.lastUsed = used]
    BY <1>2
  <2> HIDE DEF i, used
  <2>4. [i EXCEPT !.lastUsed = used] \in Info /\ [i EXCEPT !.lastUsed = used].file = i.file
    BY <2>1, <2>2 DEF Info
  <2> QED BY <2>3, <2>4 DEF i
<1>4. FromIni \in Entries
  <2>1. FromIni \in [usable -> Info]
    <3>1. FromIni = [u \in usable |-> FromIni[u]]
      BY DEF FromIni
    <3> HIDE DEF usable
    <3> QED BY <1>3, <3>1
  <2>2. usable \in SUBSET Url
    BY <1>1, <1>2, InEntries
  <2> QED BY <2>1, <2>2, IsEntries
<1>5. OneToOne(FromIni)
  BY <1>1, <1>2, <1>3 DEF OneToOne
<1>6. Kept(FromIni, latest, disk.files, << >>, crashes)
  <2> SUFFICES ASSUME NEW u \in usable
               PROVE  \E b \in Content : /\ Settled(FromIni[u].file, b, disk.files, << >>)
                                         /\ crashes = 0 => b = latest[u]
    BY DEF Kept
  <2> DEFINE f == disk.ini[u].file
  <2>1. f \in DOMAIN disk.files /\ FromIni[u].file = f
    BY <1>2, <1>3
  <2>2. disk.files[f] \in Content
    BY <2>1 DEF IInv, FilesOK
  <2>3. Settled(f, disk.files[f], disk.files, << >>)
    BY <2>1, SettledIsThere
  <2>4. CASE crashes = 0
    <3>1. Kept(disk.ini, latest, disk.files, << >>, crashes)
      BY <2>4, IniIsOK DEF IniOK
    <3>2. PICK b \in Content : Settled(f, b, disk.files, << >>) /\ b = latest[u]
      BY <1>2, <2>4, <3>1 DEF Kept
    <3> QED BY <2>1, <3>2
  <2> QED BY <2>1, <2>2, <2>3, <2>4
<1>7. c \in CallType /\ c.entries = FromIni /\ c.todo = << >>
  <2>1. Call \in CallType /\ Call.todo = << >>
    BY CallIsOK DEF CallOK, Call
  <2> QED BY <1>4, <2>1 DEF CallType
<1> HIDE DEF c
<1>8. CallOK(c, latest, disk.files, crashes)
  BY <1>5, <1>6, <1>7 DEF CallOK
<1> QED BY <1>8 DEF c

LEMMA EnableInvariant ==
  ASSUME IInv, NEW stuck, EnableFileCache(stuck)
  PROVE  IInv'
<1> DEFINE c == [Call EXCEPT !.entries = FromIni]
           gone == DOMAIN disk.files \ FilesOf(FromIni)
           d == RemoveFiles(c, gone, stuck)
           e == [d EXCEPT !.entries = FromIni]
<1>1. Quiet /\ ~enabled /\ enabled' /\ UNCHANGED <<latest, crashes>> /\ Counters' /\ Finish(d)
  BY DEF EnableFileCache, IInv, Counters
<1>2. CallOK(c, latest, disk.files, crashes) /\ c.entries = FromIni
  <2>1. c.entries = FromIni
    BY DEF Call
  <2> QED BY <1>1, <2>1, FromIniOK
<1>3. Part(FromIni, c.entries)
  BY <1>2, CallFields DEF CallOK, Part
<1>4. gone \in SUBSET Int /\ gone \cap FilesOf(FromIni) = {}
  BY DEF IInv, FilesOK
<1>5. CallOK(e, latest, disk.files, crashes)
  <2> HIDE DEF c, gone
  <2> QED BY <1>2, <1>3, <1>4, RemovalOK DEF d
<1>6. d.entries = e.entries /\ d.count = e.count /\ d.todo = e.todo
  <2>1. c \in CallType
    BY <1>2 DEF CallOK
  <2>2. d.entries = FromIni /\ e.entries = FromIni
    BY <1>2, <2>1 DEF RemoveFiles, CallType
  <2> QED BY <2>2
<1> HIDE DEF d, e
<1>7. Finish(e)
  BY <1>1, <1>6 DEF Finish
<1> QED BY <1>1, <1>5, <1>7, CallDone

\* The ini file is right when the last thing a call does is to write it.
LEMMA SavedLast ==
  ASSUME NEW e \in Entries, NEW l, NEW files, NEW todo \in Seq(Step), NEW died, NEW ini,
         Kept(e, l, files, Append(todo, SaveIni(e)), died)
  PROVE  IniOK(ini, l, files, Append(todo, SaveIni(e)), died)
<1> DEFINE n == Len(todo)
           step == SaveIni(e)
           more == Append(todo, step)
<1>1. step \in Step /\ step.op = "save" /\ step.entries = e
  BY Steps
<1>2. n \in Nat /\ DOMAIN more = 1..n + 1 /\ more[n + 1] = step
  BY <1>1, AppendElements
<1>3. Kept(e, l, files, more, died)
  OBVIOUS
<1> HIDE DEF n, step, more
<1>4. n + 1 \in DOMAIN more /\ more[n + 1].op = "save"
  BY <1>1, <1>2
<1>5. ASSUME NEW k \in DOMAIN more, \A m \in DOMAIN more : m > k => more[m].op # "save"
      PROVE  Kept(more[k].entries, l, files, more, died)
  <2>1. ~(n + 1 > k)
    BY <1>4, <1>5
  <2>2. k = n + 1
    BY <1>2, <2>1
  <2> QED BY <1>1, <1>2, <1>3, <2>2
<1>6. IniOK(ini, l, files, more, died)
  BY <1>4, <1>5 DEF IniOK
<1> QED BY <1>6 DEF more, step

LEMMA EmptiedOK ==
  ASSUME NEW c, NEW l, NEW files, NEW died, CallOK(c, l, files, died)
  PROVE  LET d == [c EXCEPT !.entries = NoEntries]
         IN  CallOK(d, l, files, died) /\ d.entries = NoEntries
<1> DEFINE d == [c EXCEPT !.entries = NoEntries]
<1>1. c \in CallType
  BY DEF CallOK
<1>2. d \in CallType /\ d.entries = NoEntries /\ d.todo = c.todo
  BY <1>1, NoneAreEntries DEF CallType
<1> HIDE DEF d
<1>3. Kept(NoEntries, l, files, c.todo, died)
  BY NoneAreEntries DEF Kept
<1>4. CallOK(d, l, files, died)
  BY <1>2, <1>3, NoneAreEntries DEF CallOK
<1> QED BY <1>2, <1>4 DEF d

LEMMA DisableInvariant ==
  ASSUME IInv, NEW stuck, DisableFileCache(stuck)
  PROVE  IInv'
<1>1. PICK c \in Maintained(Call, maxSize, stuck) :
        Finish([UpdateCacheIniFile(c) EXCEPT !.entries = NoEntries])
  BY DEF DisableFileCache
<1> DEFINE s == UpdateCacheIniFile(c)
           d == [s EXCEPT !.entries = NoEntries]
<1>2. Quiet /\ enabled /\ UNCHANGED <<latest, crashes>> /\ Counters'
  BY DEF DisableFileCache, IInv, Counters
<1>3. CallOK(c, latest, disk.files, crashes)
  BY <1>2, CallIsOK, MaintainedOK
<1>4. /\ CallOK(s, latest, disk.files, crashes) /\ s.entries = c.entries
      /\ s.todo = Append(c.todo, SaveIni(c.entries))
  BY <1>2, <1>3, SavedOK
<1>5. Finish(d)
  BY <1>1
<1>6. c.entries \in Entries /\ c.todo \in Seq(Step)
  BY <1>3, CallFields DEF CallOK
<1> HIDE DEF s
<1>7. CallOK(d, latest, disk.files, crashes) /\ d.entries = NoEntries
  BY <1>4, EmptiedOK
<1>8. d.todo = Append(c.todo, SaveIni(c.entries))
  <2>1. s \in CallType
    BY <1>4 DEF CallOK
  <2>2. d.todo = s.todo
    BY <2>1 DEF CallType
  <2> QED BY <1>4, <2>2
<1>9. Kept(c.entries, latest, disk.files, Append(c.todo, SaveIni(c.entries)), crashes)
  BY <1>4 DEF CallOK
<1>10. IniOK(disk.ini, latest, disk.files, Append(c.todo, SaveIni(c.entries)), crashes)
  BY <1>6, <1>9, SavedLast
<1> HIDE DEF d
<1> QED BY <1>2, <1>5, <1>7, <1>8, <1>10, CallDone

LEMMA SetIniNameInvariant ==
  ASSUME IInv, SetCacheIniFileName
  PROVE  IInv'
<1> DEFINE step == SaveIni(NoEntries)
           todo == Append(<< >>, step)
           d == [Call EXCEPT !.todo = todo]
<1>1. Quiet /\ UNCHANGED <<cache, enabled, latest, crashes>> /\ Counters'
  BY DEF SetCacheIniFileName, IInv, Counters
<1>2. Call \in CallType /\ Call.entries \in Entries /\ OneToOne(Call.entries)
      /\ Kept(Call.entries, latest, disk.files, << >>, crashes)
  <2>1. CallOK(Call, latest, disk.files, crashes) /\ Call.todo = << >>
    BY <1>1, CallIsOK DEF Call
  <2> QED BY <2>1, CallFields DEF CallOK
<1>3. step \in Step /\ step.op = "save" /\ step.entries = NoEntries
  BY NoneAreEntries, Steps
<1>4. << >> \in Seq(Step) /\ SavesOneToOne(<< >>)
  BY DEF SavesOneToOne
<1>5. todo \in Seq(Step) /\ SavesOneToOne(todo)
  <2> HIDE DEF step
  <2> QED BY <1>3, <1>4, NoneAreEntries, AppendElements, SavesByAppend
<1>6. Kept(Call.entries, latest, disk.files, todo, crashes)
  <2>1. \A u \in DOMAIN Call.entries : ~Touches(step, Call.entries[u].file)
    BY <1>3 DEF Touches
  <2> HIDE DEF step
  <2> QED BY <1>2, <1>3, <1>4, <2>1, KeptByAppend
<1>7. IniOK(disk.ini, latest, disk.files, todo, crashes)
  <2>1. Kept(NoEntries, latest, disk.files, todo, crashes)
    BY NoneAreEntries DEF Kept
  <2> QED BY <1>4, <2>1, NoneAreEntries, SavedLast
<1>8. disk' = [disk EXCEPT !.todo = todo]
  <2>1. todo = <<step>>
    <3> HIDE DEF step
    <3> QED OBVIOUS
  <2> QED BY <2>1 DEF SetCacheIniFileName
<1> HIDE DEF todo
<1>9. d \in CallType /\ d.entries = cache.entries /\ d.count = cache.count /\ d.todo = todo
  BY <1>2, <1>5 DEF CallType, Call
<1>10. Call.entries = cache.entries
  BY DEF Call
<1> HIDE DEF d
<1>11. CallOK(d, latest, disk.files, crashes)
  BY <1>2, <1>5, <1>6, <1>9, <1>10 DEF CallOK, SavesOneToOne
<1>12. Finished(d)
  BY <1>1, <1>8, <1>9 DEF Finished
<1>13. ~enabled => d.entries = NoEntries
  BY <1>9 DEF IInv
<1> QED BY <1>1, <1>7, <1>9, <1>11, <1>12, <1>13, CallFinished

LEMMA FilesAfterIsAfter ==
  ASSUME NEW step
  PROVE  FilesAfter(step) = After(disk.files, step)
  BY DEF FilesAfter, After

LEMMA TailIniOK ==
  ASSUME NEW ini \in Entries, NEW l, NEW files, FilesOK(files), NEW died,
         NEW todo \in Seq(Step), todo # << >>, IniOK(ini, l, files, todo, died),
         NEW next, next = IF Head(todo).op = "save" THEN Head(todo).entries ELSE ini
  PROVE  IniOK(next, l, After(files, Head(todo)), Tail(todo), died)
<1> DEFINE n == Len(todo)
           rest == Tail(todo)
           after == After(files, Head(todo))
<1>1. /\ n \in Nat \ {0} /\ Head(todo) = todo[1] /\ Head(todo) \in Step
      /\ DOMAIN todo = 1..n /\ DOMAIN rest = 1..n - 1
      /\ \A k \in 1..n - 1 : rest[k] = todo[k + 1]
      /\ rest \in Seq(Step)
  BY TailElements
<1>2. \A e \in Entries : Kept(e, l, files, todo, died) => Kept(e, l, after, rest, died)
  BY KeptByStep
<1>3. \A k \in DOMAIN todo : todo[k].op = "save" => todo[k].entries \in Entries
  <2>1. \A k \in DOMAIN todo : todo[k] \in Step
    OBVIOUS
  <2> QED BY <2>1, StepKinds
<1> HIDE DEF n, rest, after
<1>4. ASSUME \A k \in DOMAIN rest : rest[k].op # "save"
      PROVE  Kept(next, l, after, rest, died)
  <2>1. CASE Head(todo).op = "save"
    <3>1. 1 \in DOMAIN todo /\ todo[1].op = "save" /\ next = todo[1].entries
      BY <1>1, <2>1
    <3>2. ASSUME NEW m \in DOMAIN todo, m > 1
          PROVE  todo[m].op # "save"
      <4>1. m - 1 \in DOMAIN rest /\ rest[m - 1] = todo[m]
        BY <1>1, <3>2
      <4> QED BY <1>4, <4>1
    <3>3. Kept(todo[1].entries, l, files, todo, died)
      BY <3>1, <3>2 DEF IniOK
    <3> QED BY <1>2, <1>3, <3>1, <3>3
  <2>2. CASE Head(todo).op # "save"
    <3>1. ASSUME NEW m \in DOMAIN todo
          PROVE  todo[m].op # "save"
      <4>1. CASE m = 1
        BY <1>1, <2>2, <4>1
      <4>2. CASE m # 1
        <5>1. m - 1 \in DOMAIN rest /\ rest[m - 1] = todo[m]
          BY <1>1, <4>2
        <5> QED BY <1>4, <5>1
      <4> QED BY <4>1, <4>2
    <3>2. Kept(ini, l, files, todo, died)
      BY <3>1 DEF IniOK
    <3> QED BY <1>2, <2>2, <3>2
  <2> QED BY <2>1, <2>2
<1>5. ASSUME NEW k \in DOMAIN rest, rest[k].op = "save",
             \A m \in DOMAIN rest : m > k => rest[m].op # "save"
      PROVE  Kept(rest[k].entries, l, after, rest, died)
  <2>1. k + 1 \in DOMAIN todo /\ rest[k] = todo[k + 1]
    BY <1>1
  <2>2. ASSUME NEW m \in DOMAIN todo, m > k + 1
        PROVE  todo[m].op # "save"
    <3>1. m - 1 \in DOMAIN rest /\ m - 1 > k /\ rest[m - 1] = todo[m]
      BY <1>1, <2>2
    <3> QED BY <1>5, <3>1
  <2>3. Kept(todo[k + 1].entries, l, files, todo, died)
    BY <1>5, <2>1, <2>2 DEF IniOK
  <2> QED BY <1>2, <1>3, <1>5, <2>1, <2>3
<1>6. IniOK(next, l, after, rest, died)
  BY <1>4, <1>5 DEF IniOK
<1> QED BY <1>6 DEF after, rest

LEMMA DiskStepInvariant ==
  ASSUME IInv, DiskStep
  PROVE  IInv'
<1> DEFINE step == Head(disk.todo)
<1>1. /\ disk.todo # << >> /\ UNCHANGED <<cache, enabled, latest, crashes>> /\ Counters'
      /\ disk'.files = After(disk.files, step) /\ disk'.todo = Tail(disk.todo)
      /\ disk'.ini = IF step.op = "save" THEN step.entries ELSE disk.ini
      /\ disk' = [files |-> disk'.files, ini |-> disk'.ini, todo |-> disk'.todo]
  BY FilesAfterIsAfter DEF DiskStep, Quiet, IInv, Counters
<1>2. /\ CallOK(Underway, latest, disk.files, crashes)
      /\ Underway.entries = cache.entries /\ Underway.count = cache.count
      /\ Underway.todo = disk.todo /\ Underway \in CallType
  BY DEF IInv, Underway, CallOK
<1>3. /\ cache.entries \in Entries /\ cache.count \in 0..AccessLimit /\ disk.todo \in Seq(Step)
      /\ OneToOne(cache.entries) /\ SavesOneToOne(disk.todo)
      /\ Kept(cache.entries, latest, disk.files, disk.todo, crashes)
  BY <1>2, CallFields DEF CallOK, SavesOneToOne
<1>4. FilesOK(disk.files) /\ disk.ini \in Entries /\ OneToOne(disk.ini)
  BY DEF IInv
<1>5. /\ disk'.todo \in Seq(Step) /\ step \in Step
      /\ SavesOneToOne(disk'.todo) /\ (step.op = "save" => OneToOne(step.entries))
  <2> DEFINE n == Len(disk.todo)
             rest == Tail(disk.todo)
  <2>1. /\ n \in Nat \ {0} /\ step = disk.todo[1] /\ step \in Step
        /\ DOMAIN disk.todo = 1..n /\ DOMAIN rest = 1..n - 1
        /\ \A k \in 1..n - 1 : rest[k] = disk.todo[k + 1]
        /\ rest \in Seq(Step)
    BY <1>1, <1>3, TailElements
  <2> HIDE DEF n, step, rest
  <2>2. 1 \in DOMAIN disk.todo /\ \A k \in DOMAIN rest : k + 1 \in DOMAIN disk.todo
    BY <2>1
  <2>3. SavesOneToOne(rest)
    BY <1>3, <2>1, <2>2 DEF SavesOneToOne
  <2>4. step.op = "save" => OneToOne(step.entries)
    BY <1>3, <2>1, <2>2 DEF SavesOneToOne
  <2> QED BY <1>1, <2>1, <2>3, <2>4 DEF rest
<1> HIDE DEF step
<1>6. FilesOK(disk'.files)
  BY <1>1, <1>4, <1>5, AfterIsOK
<1>7. disk'.ini \in Entries /\ OneToOne(disk'.ini)
  <2>1. step.op = "save" => step.entries \in Entries
    BY <1>5, StepKinds
  <2> QED BY <1>1, <1>4, <1>5, <2>1
<1>8. CallOK(Underway', latest', disk'.files, crashes')
  <2>1. Kept(cache.entries, latest, disk'.files, disk'.todo, crashes)
    BY <1>1, <1>3, <1>4, KeptByStep DEF step
  <2>2. /\ Underway'.entries = cache.entries /\ Underway'.todo = disk'.todo
        /\ Underway' \in CallType
    BY <1>1, <1>3, <1>5 DEF Underway, CallType
  <2> QED BY <1>1, <1>3, <1>5, <2>1, <2>2 DEF CallOK, SavesOneToOne
<1>9. ASSUME ~enabled'
      PROVE  /\ cache'.entries = NoEntries
             /\ crashes' = 0 => IniOK(disk'.ini, latest', disk'.files, disk'.todo, crashes')
  <2>1. cache'.entries = NoEntries /\ (crashes = 0 => IniOK(disk.ini, latest, disk.files, disk.todo, crashes))
    BY <1>1, <1>9 DEF IInv
  <2>2. crashes = 0 => IniOK(disk'.ini, latest, disk'.files, disk'.todo, crashes)
    BY <1>1, <1>3, <1>4, <2>1, TailIniOK DEF step
  <2> QED BY <1>1, <2>1, <2>2
<1> QED BY <1>1, <1>6, <1>7, <1>8, <1>9 DEF IInv

\* A new process starts with an empty map, whatever of the files and of the
\* ini file it finds.
LEMMA StartInvariant ==
  ASSUME IInv, NEW remains, StartWith(remains), FilesOK(remains.files),
         remains.ini \in Entries, OneToOne(remains.ini), crashes' \in 0..MaxCrashes,
         crashes' = 0 => IniOK(remains.ini, latest, remains.files, << >>, crashes')
  PROVE  IInv'
<1>1. Counters'
  <2>1. NoJob \in JobType
    BY DEF NoJob, JobType
  <2>2. jobs' \in [Job -> JobType]
    BY <2>1 DEF StartWith
  <2>3. now' \in 0..MaxTime /\ ticks' \in 0..MaxTime /\ stores' \in 0..MaxStores
        /\ starts' \in 1..MaxStarts
    BY Constants DEF StartWith, IInv, Counters
  <2>4. enabled' \in BOOLEAN /\ maxSize' \in Limits \cup {DefaultFileCacheSize}
        /\ latest' \in [Url -> Content]
    BY DEF StartWith, IInv, Counters
  <2> QED BY <2>2, <2>3, <2>4 DEF Counters
<1>2. /\ disk' = [files |-> disk'.files, ini |-> disk'.ini, todo |-> disk'.todo]
      /\ disk'.files = remains.files /\ disk'.ini = remains.ini /\ disk'.todo = << >>
      /\ cache'.entries = NoEntries /\ cache'.count = 0 /\ latest' = latest
  BY DEF StartWith
<1>3. << >> \in Seq(Step) /\ 0 \in 0..AccessLimit
  BY Constants
<1>4. /\ Underway' \in CallType
      /\ Underway'.entries = NoEntries /\ Underway'.todo = << >>
  BY <1>2, <1>3, NoneAreEntries DEF Underway, CallType
<1>5. Kept(NoEntries, latest', disk'.files, << >>, crashes')
  BY NoneAreEntries DEF Kept
<1>6. CallOK(Underway', latest', disk'.files, crashes')
  BY <1>4, <1>5, NoneAreEntries DEF CallOK
<1> QED BY <1>1, <1>2, <1>6 DEF IInv

LEMMA RestartInvariant ==
  ASSUME IInv, Restart
  PROVE  IInv'
<1>1. Quiet /\ ~enabled /\ StartWith(disk) /\ crashes' = crashes
  BY DEF Restart
<1>2. FilesOK(disk.files) /\ disk.ini \in Entries /\ OneToOne(disk.ini) /\ crashes' \in 0..MaxCrashes
  BY <1>1 DEF IInv, Counters
<1>3. crashes' = 0 => IniOK(disk.ini, latest, disk.files, << >>, crashes')
  BY <1>1, IniIsOK
<1> QED BY <1>1, <1>2, <1>3, StartInvariant

\* What a crash leaves of the ini file is a part of one that was to be written.
LEMMA RemainsOK ==
  ASSUME IInv, NEW remains \in Remains
  PROVE  FilesOK(remains.files) /\ remains.ini \in Entries /\ OneToOne(remains.ini)
<1>1. FilesOK(disk.files) /\ disk.ini \in Entries /\ OneToOne(disk.ini)
  BY DEF IInv
<1>2. CASE remains = [files |-> disk.files, ini |-> disk.ini]
  BY <1>1, <1>2
<1>3. CASE remains # [files |-> disk.files, ini |-> disk.ini]
  <2> DEFINE step == Head(disk.todo)
  <2>1. ~Quiet
    BY <1>3 DEF Remains
  <2>2. disk.todo \in Seq(Step) /\ SavesOneToOne(disk.todo)
    <3>1. Underway \in CallType /\ Underway.todo = disk.todo /\ SavesOneToOne(Underway.todo)
      BY DEF IInv, CallOK, Underway, SavesOneToOne
    <3> QED BY <3>1, CallFields
  <2>3. step \in Step /\ step = disk.todo[1] /\ 1 \in DOMAIN disk.todo
    BY <2>1, <2>2, TailElements DEF Quiet
  <2>4. step.op = "save" => step.entries \in Entries /\ OneToOne(step.entries)
    BY <2>2, <2>3, StepKinds DEF SavesOneToOne
  <2>5. remains \in
          CASE step.op = "remove" ->
                 {[files |-> Restrict(disk.files, DOMAIN disk.files \ S), ini |-> disk.ini]
                  : S \in SUBSET step.files}
            [] step.op = "store" ->
                 {[files |-> With(disk.files, step.file, Unwritten), ini |-> disk.ini]}
            [] step.op = "save" ->
                 {[files |-> disk.files, ini |-> Restrict(step.entries, S)]
                  : S \in SUBSET DOMAIN step.entries}
    BY <1>3, <2>1 DEF Remains
  <2> HIDE DEF step
  <2>6. CASE step.op = "remove"
    <3>1. PICK S \in SUBSET step.files :
            remains = [files |-> Restrict(disk.files, DOMAIN disk.files \ S), ini |-> disk.ini]
      BY <2>5, <2>6
    <3>2. FilesOK(Restrict(disk.files, DOMAIN disk.files \ S))
      BY <1>1, RestrictedFiles
    <3> QED BY <1>1, <3>1, <3>2
  <2>7. CASE step.op = "store"
    <3>1. remains = [files |-> With(disk.files, step.file, Unwritten), ini |-> disk.ini]
      BY <2>5, <2>7
    <3>2. step.file \in Int /\ Unwritten \in Content
      BY <2>3, <2>7, StepKinds DEF Content
    <3>3. Store(step.file, Unwritten) \in Step /\ Store(step.file, Unwritten).op = "store"
          /\ Store(step.file, Unwritten).file = step.file
          /\ Store(step.file, Unwritten).content = Unwritten
      BY <3>2, Steps
    <3>4. With(disk.files, step.file, Unwritten) = After(disk.files, Store(step.file, Unwritten))
      BY <3>3 DEF After
    <3>5. FilesOK(After(disk.files, Store(step.file, Unwritten)))
      BY <1>1, <3>3, AfterIsOK
    <3> QED BY <1>1, <3>1, <3>4, <3>5
  <2>8. CASE step.op = "save"
    <3>1. PICK S \in SUBSET DOMAIN step.entries :
            remains = [files |-> disk.files, ini |-> Restrict(step.entries, S)]
      BY <2>5, <2>8
    <3>2. Part(Restrict(step.entries, S), step.entries)
      BY <2>4, <2>8, RestrictedEntries
    <3>3. Restrict(step.entries, S) \in Entries /\ OneToOne(Restrict(step.entries, S))
      BY <2>4, <2>8, <3>2, PartIsOneToOne DEF Part
    <3> QED BY <1>1, <3>1, <3>3
  <2> QED BY <2>3, <2>6, <2>7, <2>8, StepKinds
<1> QED BY <1>2, <1>3

LEMMA CrashInvariant ==
  ASSUME IInv, Crash
  PROVE  IInv'
<1>1. PICK remains \in Remains : StartWith(remains)
  BY DEF Crash
<1>2. crashes' \in 0..MaxCrashes /\ crashes' # 0
  BY Constants DEF Crash, IInv, Counters
<1> QED BY <1>1, <1>2, RemainsOK, StartInvariant

\* What the invariant says of the map and the disk
DiskPart ==
  /\ disk = [files |-> disk.files, ini |-> disk.ini, todo |-> disk.todo]
  /\ FilesOK(disk.files) /\ disk.ini \in Entries /\ OneToOne(disk.ini)
  /\ CallOK(Underway, latest, disk.files, crashes)
  /\ ~enabled => /\ cache.entries = NoEntries
                 /\ crashes = 0 => IniOK(disk.ini, latest, disk.files, disk.todo, crashes)

LEMMA DiskUnchanged ==
  ASSUME IInv, UNCHANGED <<cache, disk, latest, crashes, enabled>>, Counters'
  PROVE  IInv'
<1>1. DiskPart'
  BY DEF IInv, DiskPart, Underway
<1> QED BY <1>1 DEF IInv, DiskPart

LEMMA JobsInvariant ==
  ASSUME IInv, JobSteps
  PROVE  IInv'
<1>1. jobs \in [Job -> JobType]
  BY DEF IInv, Counters
<1>2. ASSUME NEW j \in Job, NEW from, NEW to \in JobType, JobMoves(j, from, to)
      PROVE  IInv'
  <2>1. jobs' \in [Job -> JobType]
    BY <1>1, <1>2 DEF JobMoves
  <2>2. Counters'
    BY <1>2, <2>1 DEF JobMoves, IInv, Counters
  <2> QED BY <1>2, <2>2, DiskUnchanged DEF JobMoves
<1>3. NoJob \in JobType
  BY DEF NoJob, JobType
<1>4. PICK j \in Job : (\E u \in Url : Admit(j, u)) \/ InitJob(j) \/ Connect(j) \/ Transfer(j)
  BY DEF JobSteps
<1>5. CASE \E u \in Url : Admit(j, u)
  <2>1. PICK u \in Url : Admit(j, u)
    BY <1>5
  <2>2. [NoJob EXCEPT !.state = "admitted", !.url = u] \in JobType
    BY DEF NoJob, JobType
  <2> QED BY <1>2, <2>1, <2>2 DEF Admit
<1>6. CASE InitJob(j)
  <2> DEFINE u == jobs[j].url
             path == IF u \in DOMAIN cache.entries THEN cache.entries[u].file ELSE NoFile
  <2>1. path \in Int \cup {NoFile}
    <3>1. cache.entries \in Entries
      <4>1. Underway \in CallType /\ Underway.entries = cache.entries
        BY DEF IInv, CallOK, Underway
      <4> QED BY <4>1, CallFields
    <3> QED BY <3>1, InEntries, InfoFields
  <2>2. JobMoves(j, "admitted", [NoJob EXCEPT !.state = "named", !.path = path])
    BY <1>6 DEF InitJob
  <2> HIDE DEF path
  <2>3. [NoJob EXCEPT !.state = "named", !.path = path] \in JobType
    BY <2>1 DEF NoJob, JobType
  <2> QED BY <1>2, <2>2, <2>3
<1>7. CASE Connect(j)
  <2>1. [jobs[j] EXCEPT !.state = "open"] \in JobType
    BY <1>1 DEF JobType
  <2> QED BY <1>2, <1>3, <1>7, <2>1 DEF Connect
<1>8. CASE Transfer(j)
  BY <1>2, <1>3, <1>8 DEF Transfer
<1> QED BY <1>4, <1>5, <1>6, <1>7, <1>8

LEMMA TickInvariant ==
  ASSUME IInv, Tick
  PROVE  IInv'
<1>1. Counters'
  <2>1. ticks' \in 0..MaxTime /\ now' \in 0..MaxTime
    BY Constants DEF Tick, IInv, Counters
  <2> QED BY <2>1 DEF Tick, IInv, Counters
<1> QED BY <1>1, DiskUnchanged DEF Tick

LEMMA NextInvariant == IInv /\ [Next]_vars => IInv'
<1> SUFFICES ASSUME IInv, [Next]_vars PROVE IInv'
  OBVIOUS
<1>1. CASE Calls
  <2>1. PICK stuck \in SUBSET OpenFiles :
          \/ \E b \in Body, outcome \in {"written", "created", "unnamed"} :
               CacheToDisk(b, outcome, stuck)
          \/ \E u \in Url : InvalidateCachedData(u, stuck)
          \/ ClearCache(stuck)
          \/ \E size \in Limits : SetMaxCacheSize(size, stuck)
          \/ EnableFileCache(stuck)
          \/ DisableFileCache(stuck)
    BY <1>1 DEF Calls
  <2> QED BY <2>1, CacheToDiskInvariant, InvalidateInvariant, ClearCacheInvariant, SetMaxInvariant,
             EnableInvariant, DisableInvariant
<1>2. CASE SetCacheIniFileName
  BY <1>2, SetIniNameInvariant
<1>3. CASE JobSteps
  BY <1>3, JobsInvariant
<1>4. CASE DiskStep
  BY <1>4, DiskStepInvariant
<1>5. CASE Restart
  BY <1>5, RestartInvariant
<1>6. CASE Crash
  BY <1>6, CrashInvariant
<1>7. CASE Tick
  BY <1>7, TickInvariant
<1>8. CASE UNCHANGED vars
  <2>1. UNCHANGED <<cache, disk, latest, crashes, enabled>> /\ Counters'
    BY <1>8 DEF vars, IInv, Counters
  <2> QED BY <2>1, DiskUnchanged
<1> QED BY <1>1, <1>2, <1>3, <1>4, <1>5, <1>6, <1>7, <1>8 DEF Next

-----------------------------------------------------------------------------
(* How much the cache holds.  What is saved is within a limit, and so is    *)
(* what an ini file gives back; since the last maintenance the map may have *)
(* grown by one response per access.                                        *)

AllLimits == Limits \cup {DefaultFileCacheSize}

Tidy(entries) ==
  /\ IsFiniteSet(Bytes(entries))
  /\ \E limit \in AllLimits : Usage(entries) <= limit

SavesTidy(todo) ==
  \A k \in DOMAIN todo : todo[k].op = "save" => Tidy(todo[k].entries)

\* Grown by at most n responses
Grown(entries, n) ==
  /\ IsFiniteSet(Bytes(entries))
  /\ \E limit \in AllLimits, size \in Sizes : Usage(entries) <= limit + n * size

UInv ==
  /\ Grown(cache.entries, cache.count)
  /\ Tidy(disk.ini) /\ SavesTidy(disk.todo)

LEMMA NoBytes == Tidy(NoEntries)
<1>1. Bytes(NoEntries) = {}
  BY NoneAreEntries DEF Bytes
<1>2. IsFiniteSet({}) /\ Cardinality({}) = 0
  BY FS_EmptySet
<1>3. DefaultFileCacheSize \in AllLimits /\ 0 <= DefaultFileCacheSize
  BY Constants DEF AllLimits
<1> QED BY <1>1, <1>2, <1>3 DEF Tidy, Usage

LEMMA UsageOfPart ==
  ASSUME NEW e, NEW p, Part(p, e), IsFiniteSet(Bytes(e))
  PROVE  IsFiniteSet(Bytes(p)) /\ Usage(p) \in Nat /\ Usage(e) \in Nat /\ Usage(p) <= Usage(e)
<1>1. Bytes(p) \in SUBSET Bytes(e)
  BY DEF Bytes, Part
<1>2. IsFiniteSet(Bytes(p)) /\ Cardinality(Bytes(p)) <= Cardinality(Bytes(e))
  BY <1>1, FS_Subset
<1> QED BY <1>2, FS_CardinalityType DEF Usage

LEMMA GrownPart ==
  ASSUME NEW e, NEW p, Part(p, e), NEW n \in Nat, Grown(e, n)
  PROVE  Grown(p, n)
<1>1. PICK limit \in AllLimits, size \in Sizes : Usage(e) <= limit + n * size
  BY DEF Grown
<1>2. limit + n * size \in Nat
  <2>1. limit \in Nat /\ size \in Nat
    BY Constants DEF AllLimits
  <2> QED BY <2>1
<1>3. IsFiniteSet(Bytes(p)) /\ Usage(p) \in Nat /\ Usage(e) \in Nat /\ Usage(p) <= Usage(e)
  BY UsageOfPart DEF Grown
<1>4. \A k, l, m \in Nat : k <= l /\ l <= m => k <= m
  OBVIOUS
<1>5. Usage(p) <= limit + n * size
  BY <1>1, <1>2, <1>3, <1>4
<1> QED BY <1>3, <1>5 DEF Grown

LEMMA TidyPart ==
  ASSUME NEW e, NEW p, Part(p, e), Tidy(e)
  PROVE  Tidy(p)
<1>1. PICK limit \in AllLimits : Usage(e) <= limit
  BY DEF Tidy
<1>2. limit \in Nat
  BY Constants DEF AllLimits
<1>3. IsFiniteSet(Bytes(p)) /\ Usage(p) \in Nat /\ Usage(e) \in Nat /\ Usage(p) <= Usage(e)
  BY UsageOfPart DEF Tidy
<1>4. Usage(p) <= limit
  BY <1>1, <1>2, <1>3
<1> QED BY <1>3, <1>4 DEF Tidy

\* What is tidy has not grown, whatever the count.
LEMMA TidyIsGrown ==
  ASSUME NEW e, Tidy(e), NEW n \in Nat
  PROVE  Grown(e, n)
<1>1. PICK limit \in AllLimits : Usage(e) <= limit
  BY DEF Tidy
<1>2. PICK size \in Sizes : TRUE
  BY FileCacheAssumption
<1>3. limit \in Nat /\ n * size \in Nat /\ Usage(e) \in Nat
  <2>1. limit \in Nat /\ size \in Nat
    BY Constants DEF AllLimits
  <2> QED BY <2>1, FS_CardinalityType DEF Tidy, Usage
<1>4. \A k, l, m \in Nat : k <= l => k <= l + m
  OBVIOUS
<1>5. Usage(e) <= limit + n * size
  BY <1>1, <1>3, <1>4
<1> QED BY <1>5 DEF Grown, Tidy

LEMMA BytesOfOne ==
  ASSUME NEW u, NEW n \in Nat
  PROVE  IsFiniteSet({u} \X (1..n)) /\ Cardinality({u} \X (1..n)) = n
<1>1. IsFiniteSet({u}) /\ Cardinality({u}) = 1
  BY FS_Singleton
<1>2. IsFiniteSet(1..n) /\ Cardinality(1..n) = n
  <2>1. Cardinality(1..n) = IF 1 > n THEN 0 ELSE n - 1 + 1
    BY FS_Interval
  <2>2. IsFiniteSet(1..n)
    BY FS_Interval
  <2> QED BY <2>1, <2>2
<1>3. ASSUME NEW S, NEW T, S = {u}, T = 1..n
      PROVE  IsFiniteSet(S \X T) /\ Cardinality(S \X T) = n
  <2>1. IsFiniteSet(S) /\ Cardinality(S) = 1
    BY <1>1, <1>3
  <2>2. IsFiniteSet(T) /\ Cardinality(T) = n
    BY <1>2, <1>3
  <2>3. IsFiniteSet(S \X T) /\ Cardinality(S \X T) = Cardinality(S) * Cardinality(T)
    BY <2>1, <2>2, FS_Product
  <2>4. 1 * n = n
    OBVIOUS
  <2> QED BY <2>1, <2>2, <2>3, <2>4
<1> QED BY <1>3

\* A response more is one access more.
LEMMA GrownWith ==
  ASSUME NEW e, NEW n \in Nat, Grown(e, n), NEW u, u \notin DOMAIN e, NEW i, i.size \in Sizes
  PROVE  Grown(With(e, u, i), n + 1)
<1> DEFINE old == Bytes(e)
           new == {u} \X (1..i.size)
<1>1. PICK limit \in AllLimits, size \in Sizes : Usage(e) <= limit + n * size
  BY DEF Grown
<1>2. limit \in Nat /\ size \in Nat /\ i.size \in Nat
  BY Constants DEF AllLimits
<1>3. Bytes(With(e, u, i)) = old \cup new
  <2>1. /\ DOMAIN With(e, u, i) = DOMAIN e \cup {u} /\ With(e, u, i)[u] = i
        /\ \A v \in DOMAIN e : With(e, u, i)[v] = e[v]
    BY DEF With
  <2> QED BY <2>1 DEF Bytes
<1>4. IsFiniteSet(old) /\ IsFiniteSet(new) /\ Cardinality(new) = i.size
  BY <1>2, BytesOfOne DEF Grown
<1> HIDE DEF old, new
<1>5. IsFiniteSet(old \cup new)
      /\ Cardinality(old \cup new) = Cardinality(old) + Cardinality(new) - Cardinality(old \cap new)
  BY <1>4, FS_Union
<1>6. Cardinality(old) \in Nat /\ Cardinality(old \cap new) \in Nat
  <2>1. old \cap new \in SUBSET old
    OBVIOUS
  <2>2. IsFiniteSet(old \cap new)
    BY <1>4, <2>1, FS_Subset
  <2> QED BY <1>4, <2>2, FS_CardinalityType
<1>7. Cardinality(old) <= limit + n * size
  BY <1>1 DEF Usage, old
<1>8. PICK most \in Sizes : size <= most /\ i.size <= most
  <2>1. CASE size <= i.size
    BY <1>2, <2>1
  <2>2. CASE ~(size <= i.size)
    BY <1>2, <2>2
  <2> QED BY <2>1, <2>2
<1>9. most \in Nat
  BY Constants
<1>10. n * size \in Nat /\ n * most \in Nat /\ n * size <= n * most /\ (n + 1) * most = n * most + most
  <2>1. \A k, l, m \in Nat : l <= m => k * l <= k * m
    OBVIOUS
  <2>2. \A k, m \in Nat : (k + 1) * m = k * m + m /\ k * m \in Nat
    OBVIOUS
  <2> QED BY <1>2, <1>8, <1>9, <2>1, <2>2
<1>11. \A a, b, c, d, x, y, s, m \in Nat :
         a <= b + x /\ x <= y /\ s <= m /\ c = a + s - d => c <= b + (y + m)
  OBVIOUS
<1>12. Cardinality(old \cup new) \in Nat
  BY <1>5, FS_CardinalityType
<1>13. Cardinality(old \cup new) <= limit + (n * most + most)
  BY <1>2, <1>4, <1>5, <1>6, <1>7, <1>8, <1>9, <1>10, <1>11, <1>12
<1> QED BY <1>3, <1>5, <1>10, <1>13 DEF Grown, Usage

\* A call with so much done: c has the map and what is to be done.
CallGrown(c, n) == Grown(c.entries, n) /\ SavesTidy(c.todo)

LEMMA SavesTidyByAppend ==
  ASSUME NEW todo \in Seq(Step), NEW step \in Step, SavesTidy(todo),
         step.op = "save" => Tidy(step.entries)
  PROVE  SavesTidy(Append(todo, step))
<1> DEFINE n == Len(todo)
           more == Append(todo, step)
<1>1. /\ n \in Nat /\ DOMAIN todo = 1..n /\ DOMAIN more = 1..n + 1
      /\ more[n + 1] = step /\ \A k \in 1..n : more[k] = todo[k]
  BY AppendElements
<1> HIDE DEF n, more
<1>2. \A k \in DOMAIN more : more[k] = step \/ (k \in DOMAIN todo /\ more[k] = todo[k])
  BY <1>1
<1>3. SavesTidy(more)
  BY <1>2 DEF SavesTidy
<1> QED BY <1>3 DEF more

LEMMA RemovalFields ==
  ASSUME NEW c \in CallType, SavesTidy(c.todo), NEW gone \in SUBSET Int, NEW stuck
  PROVE  LET d == RemoveFiles(c, gone, stuck)
         IN  /\ d \in CallType /\ d.entries = c.entries /\ d.count = c.count
             /\ SavesTidy(d.todo)
<1> DEFINE d == RemoveFiles(c, gone, stuck)
           step == Remove(gone \ stuck)
<1>1. CASE gone = {}
  BY <1>1 DEF RemoveFiles
<1>2. CASE gone # {}
  <2>1. step \in Step /\ step.op = "remove"
    BY Steps
  <2>2. c.todo \in Seq(Step)
    BY CallFields
  <2>3. d = [c EXCEPT !.todo = Append(c.todo, step)]
    BY <1>2 DEF RemoveFiles
  <2> HIDE DEF d, step
  <2>4. Append(c.todo, step) \in Seq(Step) /\ SavesTidy(Append(c.todo, step))
    BY <2>1, <2>2, AppendElements, SavesTidyByAppend
  <2>5. d \in CallType /\ d.entries = c.entries /\ d.count = c.count /\ d.todo = Append(c.todo, step)
    BY <2>3, <2>4 DEF CallType
  <2> QED BY <2>4, <2>5 DEF d
<1> QED BY <1>1, <1>2

LEMMA SaveFields ==
  ASSUME NEW c \in CallType, SavesTidy(c.todo), Tidy(c.entries)
  PROVE  LET d == UpdateCacheIniFile(c)
         IN  /\ d \in CallType /\ d.entries = c.entries /\ d.count = c.count
             /\ SavesTidy(d.todo)
<1> DEFINE d == UpdateCacheIniFile(c)
           step == SaveIni(c.entries)
<1>1. CASE ~enabled
  BY <1>1 DEF UpdateCacheIniFile
<1>2. CASE enabled
  <2>1. c.todo \in Seq(Step) /\ c.entries \in Entries
    BY CallFields
  <2>2. step \in Step /\ step.op = "save" /\ step.entries = c.entries
    BY <2>1, Steps
  <2>3. d = [c EXCEPT !.todo = Append(c.todo, step)]
    BY <1>2 DEF UpdateCacheIniFile
  <2> HIDE DEF d, step
  <2>4. Append(c.todo, step) \in Seq(Step) /\ SavesTidy(Append(c.todo, step))
    BY <2>1, <2>2, AppendElements, SavesTidyByAppend
  <2>5. d \in CallType /\ d.entries = c.entries /\ d.count = c.count /\ d.todo = Append(c.todo, step)
    BY <2>3, <2>4 DEF CallType
  <2> QED BY <2>4, <2>5 DEF d
<1> QED BY <1>1, <1>2

\* DoPeriodicCacheMaintenance leaves what the limit allows.
LEMMA MaintainedTidies ==
  ASSUME NEW c \in CallType, SavesTidy(c.todo), IsFiniteSet(Bytes(c.entries)), enabled,
         NEW limit \in AllLimits, NEW stuck, NEW d \in Maintained(c, limit, stuck)
  PROVE  d \in CallType /\ d.count = 0 /\ Tidy(d.entries) /\ SavesTidy(d.todo)
<1> DEFINE live == Without(c.entries, Expired(c.entries))
<1>1. PICK gone \in Evictions(live, limit) :
        LET entries == Without(live, gone)
            removed == FilesOf(c.entries) \ FilesOf(entries)
            swept   == [RemoveFiles(c, removed, stuck) EXCEPT !.entries = entries, !.count = 0]
        IN  d = IF removed = {} THEN swept ELSE UpdateCacheIniFile(swept)
  BY DEF Maintained
<1> DEFINE entries == Without(live, gone)
           removed == FilesOf(c.entries) \ FilesOf(entries)
           r       == RemoveFiles(c, removed, stuck)
           swept   == [[r EXCEPT !.entries = entries] EXCEPT !.count = 0]
<1>2. c.entries \in Entries
  BY CallFields
<1>3. Part(live, c.entries)
  <2>1. DOMAIN c.entries \ Expired(c.entries) \subseteq DOMAIN c.entries
    OBVIOUS
  <2> QED BY <1>2, <2>1, RestrictedEntries DEF Without
<1>4. Part(entries, live)
  <2>1. DOMAIN live \ gone \subseteq DOMAIN live /\ live \in Entries
    BY <1>3 DEF Part
  <2> HIDE DEF live
  <2> QED BY <2>1, RestrictedEntries DEF Without
<1>5. Part(entries, c.entries) /\ entries \in Entries
  BY <1>3, <1>4, PartOfPart DEF Part
<1>6. removed \in SUBSET Int
  BY <1>2, FilesAreNumbers
<1>7. Tidy(entries)
  <2>1. Usage(Restrict(live, DOMAIN live \ gone)) <= limit
    BY DEF Evictions
  <2>2. Usage(entries) <= limit
    BY <2>1 DEF Without
  <2>3. IsFiniteSet(Bytes(entries))
    BY <1>5, UsageOfPart
  <2> QED BY <2>2, <2>3 DEF Tidy
<1>8. d = swept \/ d = UpdateCacheIniFile(swept)
  BY <1>1
<1> HIDE DEF live, entries, removed
<1>9. r \in CallType /\ SavesTidy(r.todo)
  BY <1>6, RemovalFields
<1> HIDE DEF r
<1>10. 0 \in 0..AccessLimit
  BY Constants
<1>11. /\ swept \in CallType /\ swept.count = 0 /\ swept.entries = entries /\ swept.todo = r.todo
  BY <1>5, <1>9, <1>10 DEF CallType
<1> HIDE DEF swept
<1>12. SavesTidy(swept.todo) /\ Tidy(swept.entries)
  BY <1>7, <1>9, <1>11
<1> QED BY <1>8, <1>11, <1>12, SaveFields

\* An access that is counted makes up for a response.
LEMMA CountedGrown ==
  ASSUME NEW c \in CallType, CallGrown(c, c.count + 1), enabled, maxSize \in AllLimits,
         NEW stuck, NEW d \in Counted(c, stuck)
  PROVE  d \in CallType /\ CallGrown(d, d.count)
<1>1. c.count \in 0..AccessLimit
  BY CallFields
<1>2. CASE c.count + 1 > AccessLimit
  <2>1. d \in Maintained(c, maxSize, stuck)
    BY <1>2 DEF Counted
  <2>2. d \in CallType /\ d.count = 0 /\ Tidy(d.entries) /\ SavesTidy(d.todo)
    BY <2>1, MaintainedTidies DEF CallGrown, Grown
  <2>3. 0 \in Nat
    OBVIOUS
  <2> QED BY <2>2, <2>3, TidyIsGrown DEF CallGrown
<1>3. CASE ~(c.count + 1 > AccessLimit)
  <2>1. d = [c EXCEPT !.count = c.count + 1]
    BY <1>3 DEF Counted
  <2>2. c.count + 1 \in 0..AccessLimit
    BY <1>1, <1>3, Constants
  <2>3. d \in CallType /\ d.count = c.count + 1 /\ d.entries = c.entries /\ d.todo = c.todo
    BY <2>1, <2>2 DEF CallType
  <2> QED BY <2>3 DEF CallGrown
<1> QED BY <1>2, <1>3

LEMMA GrownMore ==
  ASSUME NEW e, NEW n \in Nat, Grown(e, n)
  PROVE  Grown(e, n + 1)
<1>1. PICK limit \in AllLimits, size \in Sizes : Usage(e) <= limit + n * size
  BY DEF Grown
<1>2. limit \in Nat /\ size \in Nat /\ Usage(e) \in Nat
  BY Constants, FS_CardinalityType DEF AllLimits, Grown, Usage
<1>3. n * size \in Nat /\ (n + 1) * size = n * size + size
  BY <1>2
<1>4. \A a, b, x, y \in Nat : a <= b + x => a <= b + (x + y)
  OBVIOUS
<1>5. Usage(e) <= limit + (n + 1) * size
  BY <1>1, <1>2, <1>3, <1>4
<1> QED BY <1>5 DEF Grown

LEMMA PurgedGrown ==
  ASSUME NEW c \in CallType, CallGrown(c, c.count), NEW u, NEW stuck
  PROVE  LET d == Purged(c, u, stuck)
         IN  /\ d \in CallType /\ d.count = c.count /\ CallGrown(d, d.count)
<1> DEFINE d == Purged(c, u, stuck)
<1>1. c.entries \in Entries /\ c.count \in Nat
  BY CallFields, Constants
<1>2. CASE u \notin DOMAIN c.entries
  BY <1>2 DEF Purged
<1>3. CASE u \in DOMAIN c.entries
  <2> DEFINE gone == {c.entries[u].file}
             r == RemoveFiles(c, gone, stuck)
             p == Without(c.entries, {u})
  <2>1. gone \in SUBSET Int
    BY <1>1, <1>3, InEntries, InfoFields
  <2>2. d = [r EXCEPT !.entries = p]
    <3>1. r.entries = c.entries
      BY <2>1, RemovalFields DEF CallGrown
    <3> QED BY <1>3, <3>1 DEF Purged
  <2> HIDE DEF d, gone
  <2>3. r \in CallType /\ r.count = c.count /\ SavesTidy(r.todo)
    BY <2>1, RemovalFields DEF CallGrown
  <2>4. Part(p, c.entries) /\ p \in Entries
    <3>1. DOMAIN c.entries \ {u} \subseteq DOMAIN c.entries
      OBVIOUS
    <3> QED BY <1>1, <3>1, RestrictedEntries DEF Without, Part
  <2> HIDE DEF r, p
  <2>5. d \in CallType /\ d.entries = p /\ d.count = c.count /\ d.todo = r.todo
    BY <2>2, <2>3, <2>4 DEF CallType
  <2>6. Grown(p, c.count)
    BY <1>1, <2>4, GrownPart DEF CallGrown
  <2> QED BY <2>3, <2>5, <2>6 DEF CallGrown, d
<1> QED BY <1>2, <1>3

LEMMA WrittenGrown ==
  ASSUME NEW c \in CallType, CallGrown(c, c.count), FilesOK(disk.files), ticks \in Nat, now \in Int,
         NEW b \in Body, b.url \notin DOMAIN c.entries,
         NEW outcome \in {"written", "created", "unnamed"}
  PROVE  LET d == Written(c, b, outcome)
         IN  d.count = c.count /\ CallGrown(d, d.count + 1)
<1> DEFINE file == GetNewCacheFileName(c)
           info == [file |-> file, size |-> b.size, lastUsed |-> now, timeout |-> now + Expiration]
           d == Written(c, b, outcome)
<1>1. c.entries \in Entries /\ c.count \in Nat /\ c.todo \in Seq(Step) /\ SavesTidy(c.todo)
  BY CallFields, Constants DEF CallGrown
<1>2. file \in Int
  BY NameIsNew
<1>3. b \in Content /\ Unwritten \in Content /\ info.size \in Sizes
  BY DEF Body, Content
<1>4. \A x \in Content : SavesTidy(Append(c.todo, Store(file, x)))
  <2>1. \A x \in Content : Store(file, x) \in Step /\ Store(file, x).op = "store"
    BY <1>2, Steps
  <2> QED BY <1>1, <2>1, SavesTidyByAppend
<1>5. Grown(c.entries, c.count + 1) /\ Grown(With(c.entries, b.url, info), c.count + 1)
  BY <1>1, <1>3, GrownMore, GrownWith DEF CallGrown
<1>6. CASE outcome = "unnamed"
  BY <1>1, <1>5, <1>6 DEF Written, CallGrown
<1>7. CASE outcome = "created"
  <2>1. d = [c EXCEPT !.todo = Append(c.todo, Store(file, Unwritten))]
    BY <1>7 DEF Written
  <2> HIDE DEF d, file
  <2>2. d.count = c.count /\ d.entries = c.entries /\ d.todo = Append(c.todo, Store(file, Unwritten))
    BY <2>1 DEF CallType
  <2> QED BY <1>3, <1>4, <1>5, <2>2 DEF CallGrown, d
<1>8. CASE outcome = "written"
  <2> DEFINE e == With(c.entries, b.url, info)
  <2>1. d = [[c EXCEPT !.todo = Append(c.todo, Store(file, b))] EXCEPT !.entries = e]
    BY <1>8 DEF Written
  <2> HIDE DEF d, file, e
  <2>2. d.count = c.count /\ d.entries = e /\ d.todo = Append(c.todo, Store(file, b))
    BY <2>1 DEF CallType
  <2> QED BY <1>3, <1>4, <1>5, <2>2 DEF CallGrown, d, e
<1> QED BY <1>6, <1>7, <1>8

LEMMA GrownDone ==
  ASSUME IInv, UInv, NEW d, Finished(d), CallGrown(d, d.count)
  PROVE  UInv'
<1>1. disk'.ini = disk.ini /\ disk'.todo = d.todo
  <2>1. disk = [files |-> disk.files, ini |-> disk.ini, todo |-> disk.todo]
    BY DEF IInv
  <2>2. disk' = [disk EXCEPT !.todo = d.todo]
    BY DEF Finished
  <2>3. disk' = [files |-> disk.files, ini |-> disk.ini, todo |-> d.todo]
    BY <2>1, <2>2
  <2> QED BY <2>3
<1>2. cache'.entries = d.entries /\ cache'.count = d.count
  BY DEF Finished
<1>3. Grown(cache'.entries, cache'.count) /\ Tidy(disk'.ini) /\ SavesTidy(disk'.todo)
  BY <1>1, <1>2 DEF CallGrown, UInv
<1> QED BY <1>3 DEF UInv

LEMMA CallIsGrown ==
  ASSUME IInv, UInv, Quiet
  PROVE  /\ Call \in CallType /\ Call.entries = cache.entries /\ Call.count = cache.count
         /\ CallGrown(Call, Call.count) /\ CallGrown(Call, Call.count + 1)
<1>1. Call \in CallType /\ Call.entries = cache.entries /\ Call.count = cache.count /\ Call.todo = << >>
  BY CallIsOK DEF CallOK, Call
<1>2. Grown(cache.entries, cache.count) /\ SavesTidy(<< >>) /\ cache.count \in Nat
  BY <1>1, CallFields, Constants DEF UInv, SavesTidy
<1>3. Grown(cache.entries, cache.count + 1)
  BY <1>2, GrownMore
<1> QED BY <1>1, <1>2, <1>3 DEF CallGrown

LEMMA LimitsInUse == IInv => maxSize \in AllLimits
  BY DEF IInv, Counters, AllLimits

LEMMA CacheToDiskGrown ==
  ASSUME IInv, UInv, NEW b \in Body, NEW outcome \in {"written", "created", "unnamed"}, NEW stuck,
         CacheToDisk(b, outcome, stuck)
  PROVE  UInv'
<1>1. PICK c \in RemoveCachedData(b.url, stuck) :
        \E d \in Counted(Written(c, b, outcome), stuck) : Finish(d)
  BY DEF CacheToDisk
<1>2. PICK d \in Counted(Written(c, b, outcome), stuck) : Finish(d)
  BY <1>1
<1>3. Quiet /\ enabled /\ maxSize \in AllLimits
  BY LimitsInUse DEF CacheToDisk
<1>4. PICK a \in Counted(Call, stuck) : c = Purged(a, b.url, stuck)
  BY DEF RemoveCachedData
<1>5. a \in CallType /\ CallGrown(a, a.count)
  BY <1>3, CallIsGrown, CountedGrown
<1>6. c \in CallType /\ CallGrown(c, c.count)
  BY <1>4, <1>5, PurgedGrown
<1>7. CallOK(c, latest, disk.files, crashes) /\ NoStores(c.todo) /\ b.url \notin DOMAIN c.entries
  BY <1>3, CallIsOK, RemoveCachedDataOK
<1>8. FilesOK(disk.files) /\ ticks \in Nat /\ now \in Int
  BY Constants DEF IInv, Counters
<1> DEFINE w == Written(c, b, outcome)
<1>9. CallGrown(w, w.count + 1)
  BY <1>6, <1>7, <1>8, WrittenGrown
<1>10. w \in CallType
  <2>1. latest \in [Url -> Content] /\ latest' = [latest EXCEPT ![b.url] = b]
        /\ b.url \in Url /\ b \in Content
    BY DEF CacheToDisk, IInv, Counters, Body, Content
  <2>2. CallOK(c, latest', disk.files, crashes) /\ latest'[b.url] = b
    BY <1>7, <2>1, LatestOfOthers
  <2>3. CallOK(w, latest', disk.files, crashes)
    BY <1>7, <1>8, <2>2, WrittenOK
  <2> QED BY <2>3 DEF CallOK
<1> HIDE DEF w
<1>11. CallGrown(d, d.count)
  BY <1>2, <1>3, <1>9, <1>10, CountedGrown DEF w
<1>12. Finished(d)
  BY <1>2 DEF Finish, Finished
<1> QED BY <1>11, <1>12, GrownDone

LEMMA InvalidateGrown ==
  ASSUME IInv, UInv, NEW u \in Url, NEW stuck, InvalidateCachedData(u, stuck)
  PROVE  UInv'
<1> DEFINE d == Purged(Call, u, stuck)
<1>1. CallGrown(d, d.count) /\ Finished(d)
  BY CallIsGrown, PurgedGrown DEF InvalidateCachedData, Finish, Finished
<1> HIDE DEF d
<1> QED BY <1>1, GrownDone

LEMMA ClearCacheGrown ==
  ASSUME IInv, UInv, NEW stuck, ClearCache(stuck)
  PROVE  UInv'
<1> DEFINE gone == FilesOf(cache.entries)
           r == RemoveFiles(Call, gone, stuck)
           none == [r EXCEPT !.entries = NoEntries]
           d == UpdateCacheIniFile(none)
<1>1. Call \in CallType /\ Call.entries = cache.entries /\ SavesTidy(Call.todo)
  BY CallIsGrown DEF ClearCache, CallGrown
<1>2. gone \in SUBSET Int
  BY <1>1, CallFields, FilesAreNumbers
<1>3. Finished(d)
  BY DEF ClearCache, Finish, Finished
<1> HIDE DEF gone
<1>4. r \in CallType /\ SavesTidy(r.todo)
  BY <1>1, <1>2, RemovalFields
<1> HIDE DEF r
<1>5. none \in CallType /\ none.entries = NoEntries /\ none.todo = r.todo
  BY <1>4, NoneAreEntries DEF CallType
<1> HIDE DEF none
<1>6. d \in CallType /\ d.entries = NoEntries /\ SavesTidy(d.todo)
  BY <1>4, <1>5, NoBytes, SaveFields
<1>7. d.count \in Nat
  BY <1>6, CallFields, Constants
<1>8. CallGrown(d, d.count)
  BY <1>6, <1>7, NoBytes, TidyIsGrown DEF CallGrown
<1> HIDE DEF d
<1> QED BY <1>3, <1>8, GrownDone

LEMMA SetMaxGrown ==
  ASSUME IInv, UInv, NEW size \in Limits, NEW stuck, SetMaxCacheSize(size, stuck)
  PROVE  UInv'
<1>1. CASE size < maxSize
  <2>1. PICK d \in Maintained(Call, size, stuck) : Finish(d)
    BY <1>1 DEF SetMaxCacheSize
  <2>2. /\ Call \in CallType /\ CallGrown(Call, Call.count) /\ SavesTidy(Call.todo)
        /\ IsFiniteSet(Bytes(Call.entries))
    BY CallIsGrown DEF SetMaxCacheSize, CallGrown, Grown
  <2>3. CASE ~enabled
    <3>1. d = Call
      BY <2>1, <2>3 DEF Maintained
    <3> QED BY <2>1, <2>2, <3>1, GrownDone DEF Finish, Finished
  <2>4. CASE enabled
    <3>1. size \in AllLimits
      BY DEF AllLimits
    <3>2. d.count = 0 /\ Tidy(d.entries) /\ SavesTidy(d.todo)
      BY <2>1, <2>2, <2>4, <3>1, MaintainedTidies
    <3>3. 0 \in Nat
      OBVIOUS
    <3>4. CallGrown(d, d.count)
      BY <3>2, <3>3, TidyIsGrown DEF CallGrown
    <3> QED BY <2>1, <3>4, GrownDone DEF Finish, Finished
  <2> QED BY <2>3, <2>4
<1>2. CASE ~(size < maxSize)
  BY <1>2 DEF SetMaxCacheSize, UInv
<1> QED BY <1>1, <1>2

LEMMA EnableGrown ==
  ASSUME IInv, UInv, NEW stuck, EnableFileCache(stuck)
  PROVE  UInv'
<1> DEFINE c == [Call EXCEPT !.entries = FromIni]
           gone == DOMAIN disk.files \ FilesOf(FromIni)
           d == RemoveFiles(c, gone, stuck)
<1>1. Quiet /\ ~enabled /\ Finished(d)
  BY DEF EnableFileCache, Finish, Finished
<1>2. Tidy(FromIni)
  <2>1. DOMAIN FromIni \subseteq DOMAIN disk.ini /\ disk.ini \in Entries
    BY DEF FromIni, IInv
  <2>2. \A u \in DOMAIN FromIni : FromIni[u].size = disk.ini[u].size
    <3> SUFFICES ASSUME NEW u \in DOMAIN FromIni PROVE FromIni[u].size = disk.ini[u].size
      OBVIOUS
    <3> DEFINE i == disk.ini[u]
               used == IF i.lastUsed > now THEN now ELSE i.lastUsed
    <3>1. FromIni[u] = [i EXCEPT !.lastUsed = used]
      BY DEF FromIni
    <3>2. i \in Info
      BY <2>1, InEntries
    <3> HIDE DEF i, used
    <3>3. [i EXCEPT !.lastUsed = used].size = i.size
      BY <3>2 DEF Info
    <3> QED BY <3>1, <3>3 DEF i
  <2>3. Bytes(FromIni) \in SUBSET Bytes(disk.ini)
    BY <2>1, <2>2 DEF Bytes
  <2>4. Tidy(disk.ini)
    BY DEF UInv
  <2>5. /\ IsFiniteSet(Bytes(FromIni)) /\ Cardinality(Bytes(FromIni)) \in Nat
        /\ Cardinality(Bytes(disk.ini)) \in Nat
        /\ Cardinality(Bytes(FromIni)) <= Cardinality(Bytes(disk.ini))
    BY <2>3, <2>4, FS_Subset, FS_CardinalityType DEF Tidy
  <2>6. PICK limit \in AllLimits : Cardinality(Bytes(disk.ini)) <= limit
    BY <2>4 DEF Tidy, Usage
  <2>7. limit \in Nat
    BY Constants DEF AllLimits
  <2>8. Cardinality(Bytes(FromIni)) <= limit
    BY <2>5, <2>6, <2>7
  <2> QED BY <2>5, <2>8 DEF Tidy, Usage
<1>3. c \in CallType /\ c.entries = FromIni /\ SavesTidy(c.todo)
  <2>1. Call \in CallType /\ SavesTidy(Call.todo)
    BY <1>1, CallIsGrown DEF CallGrown
  <2>2. FromIni \in Entries
    <3>1. CallOK(c, latest, disk.files, crashes) /\ c.entries = FromIni
      BY <1>1, FromIniOK DEF Call
    <3> QED BY <3>1, CallFields DEF CallOK
  <2>3. c \in CallType /\ c.entries = FromIni /\ c.todo = Call.todo
    BY <2>1, <2>2 DEF CallType
  <2> QED BY <2>1, <2>3
<1>4. gone \in SUBSET Int
  BY DEF IInv, FilesOK
<1> HIDE DEF c, gone
<1>5. d \in CallType /\ d.entries = FromIni /\ SavesTidy(d.todo)
  BY <1>3, <1>4, RemovalFields
<1>6. d.count \in Nat
  BY <1>5, CallFields, Constants
<1>7. CallGrown(d, d.count)
  BY <1>2, <1>5, <1>6, TidyIsGrown DEF CallGrown
<1> HIDE DEF d
<1> QED BY <1>1, <1>7, GrownDone

LEMMA DisableGrown ==
  ASSUME IInv, UInv, NEW stuck, DisableFileCache(stuck)
  PROVE  UInv'
<1>1. PICK c \in Maintained(Call, maxSize, stuck) :
        Finish([UpdateCacheIniFile(c) EXCEPT !.entries = NoEntries])
  BY DEF DisableFileCache
<1> DEFINE s == UpdateCacheIniFile(c)
           d == [s EXCEPT !.entries = NoEntries]
<1>2. Quiet /\ enabled /\ maxSize \in AllLimits /\ Finished(d)
  BY <1>1, LimitsInUse DEF DisableFileCache, Finish, Finished
<1>3. Call \in CallType /\ SavesTidy(Call.todo) /\ IsFiniteSet(Bytes(Call.entries))
  BY <1>2, CallIsGrown DEF CallGrown, Grown
<1>4. c \in CallType /\ Tidy(c.entries) /\ SavesTidy(c.todo)
  BY <1>1, <1>2, <1>3, MaintainedTidies
<1>5. s \in CallType /\ SavesTidy(s.todo)
  BY <1>4, SaveFields
<1> HIDE DEF s
<1>6. d \in CallType /\ d.entries = NoEntries /\ d.todo = s.todo
  BY <1>5, NoneAreEntries DEF CallType
<1> HIDE DEF d
<1>7. d.count \in Nat
  BY <1>6, CallFields, Constants
<1>8. CallGrown(d, d.count)
  BY <1>5, <1>6, <1>7, NoBytes, TidyIsGrown DEF CallGrown
<1> QED BY <1>2, <1>8, GrownDone

LEMMA SetIniNameGrown ==
  ASSUME IInv, UInv, SetCacheIniFileName
  PROVE  UInv'
<1> DEFINE todo == <<SaveIni(NoEntries)>>
<1>1. disk'.ini = disk.ini /\ disk'.todo = todo /\ cache' = cache
  <2>1. disk = [files |-> disk.files, ini |-> disk.ini, todo |-> disk.todo]
    BY DEF IInv
  <2> HIDE DEF todo
  <2>2. disk' = [disk EXCEPT !.todo = todo] /\ cache' = cache
    BY DEF SetCacheIniFileName, todo
  <2>3. disk' = [files |-> disk.files, ini |-> disk.ini, todo |-> todo]
    BY <2>1, <2>2
  <2> QED BY <2>2, <2>3
<1>2. SavesTidy(todo)
  <2>1. DOMAIN todo = {1} /\ todo[1] = SaveIni(NoEntries)
    OBVIOUS
  <2>2. SaveIni(NoEntries).entries = NoEntries
    BY NoneAreEntries, Steps
  <2> HIDE DEF todo
  <2> QED BY <2>1, <2>2, NoBytes DEF SavesTidy
<1> HIDE DEF todo
<1> QED BY <1>1, <1>2 DEF UInv

LEMMA DiskStepGrown ==
  ASSUME IInv, UInv, DiskStep
  PROVE  UInv'
<1> DEFINE n == Len(disk.todo)
           step == Head(disk.todo)
           rest == Tail(disk.todo)
<1>1. disk.todo \in Seq(Step) /\ disk.todo # << >>
  <2>1. Underway \in CallType /\ Underway.todo = disk.todo
    BY DEF IInv, CallOK, Underway
  <2> QED BY <2>1, CallFields DEF DiskStep, Quiet
<1>2. /\ cache' = cache /\ disk'.todo = rest
      /\ disk'.ini = IF step.op = "save" THEN step.entries ELSE disk.ini
  BY DEF DiskStep
<1>3. /\ n \in Nat \ {0} /\ step = disk.todo[1]
      /\ DOMAIN disk.todo = 1..n /\ DOMAIN rest = 1..n - 1
      /\ \A k \in 1..n - 1 : rest[k] = disk.todo[k + 1]
  BY <1>1, TailElements
<1> HIDE DEF n, step, rest
<1>4. 1 \in DOMAIN disk.todo /\ \A k \in DOMAIN rest : k + 1 \in DOMAIN disk.todo
  BY <1>3
<1>5. SavesTidy(rest)
  BY <1>3, <1>4 DEF SavesTidy, UInv
<1>6. Tidy(disk'.ini)
  BY <1>2, <1>3, <1>4 DEF SavesTidy, UInv
<1> QED BY <1>2, <1>5, <1>6 DEF UInv

LEMMA StartGrown ==
  ASSUME UInv, NEW remains, StartWith(remains), Tidy(remains.ini)
  PROVE  UInv'
<1>1. cache'.entries = NoEntries /\ cache'.count = 0 /\ disk'.ini = remains.ini /\ disk'.todo = << >>
  BY DEF StartWith
<1>2. Grown(NoEntries, 0)
  <2>1. 0 \in Nat
    OBVIOUS
  <2> QED BY <2>1, NoBytes, TidyIsGrown
<1>3. SavesTidy(<< >>)
  BY DEF SavesTidy
<1> QED BY <1>1, <1>2, <1>3 DEF UInv

LEMMA RemainsTidy ==
  ASSUME IInv, UInv, NEW remains \in Remains
  PROVE  Tidy(remains.ini)
<1>1. CASE remains.ini = disk.ini
  BY <1>1 DEF UInv
<1>2. CASE remains.ini # disk.ini
  <2> DEFINE step == Head(disk.todo)
  <2>1. ~Quiet
    BY <1>2 DEF Remains
  <2>2. disk.todo \in Seq(Step)
    <3>1. Underway \in CallType /\ Underway.todo = disk.todo
      BY DEF IInv, CallOK, Underway
    <3> QED BY <3>1, CallFields
  <2>3. step \in Step /\ step = disk.todo[1] /\ 1 \in DOMAIN disk.todo
    BY <2>1, <2>2, TailElements DEF Quiet
  <2>4. step.op = "save" /\ \E S \in SUBSET DOMAIN step.entries : remains.ini = Restrict(step.entries, S)
    <3>1. remains # [files |-> disk.files, ini |-> disk.ini]
      BY <1>2
    <3>2. remains \in
            CASE step.op = "remove" ->
                   {[files |-> Restrict(disk.files, DOMAIN disk.files \ S), ini |-> disk.ini]
                    : S \in SUBSET step.files}
              [] step.op = "store" ->
                   {[files |-> With(disk.files, step.file, Unwritten), ini |-> disk.ini]}
              [] step.op = "save" ->
                   {[files |-> disk.files, ini |-> Restrict(step.entries, S)]
                    : S \in SUBSET DOMAIN step.entries}
      BY <2>1, <3>1 DEF Remains
    <3>3. step.op = "remove" \/ step.op = "store" \/ step.op = "save"
      BY <2>3, StepKinds
    <3> HIDE DEF step
    <3>4. ASSUME step.op = "remove" PROVE FALSE
      <4>1. PICK S \in SUBSET step.files :
              remains = [files |-> Restrict(disk.files, DOMAIN disk.files \ S), ini |-> disk.ini]
        BY <3>2, <3>4, Zenon
      <4> QED BY <1>2, <4>1
    <3>5. ASSUME step.op = "store" PROVE FALSE
      <4>1. remains = [files |-> With(disk.files, step.file, Unwritten), ini |-> disk.ini]
        BY <3>2, <3>5
      <4> QED BY <1>2, <4>1
    <3> QED BY <3>2, <3>3, <3>4, <3>5
  <2>5. step.entries \in Entries /\ Tidy(step.entries)
    BY <2>3, <2>4, StepKinds DEF UInv, SavesTidy
  <2>6. PICK S \in SUBSET DOMAIN step.entries : remains.ini = Restrict(step.entries, S)
    BY <2>4
  <2> HIDE DEF step
  <2>7. Part(Restrict(step.entries, S), step.entries)
    BY <2>5, RestrictedEntries
  <2> QED BY <2>5, <2>6, <2>7, TidyPart
<1> QED BY <1>1, <1>2

LEMMA NextGrown == IInv /\ UInv /\ [Next]_vars => UInv'
<1> SUFFICES ASSUME IInv, UInv, [Next]_vars PROVE UInv'
  OBVIOUS
<1>1. CASE Calls
  <2>1. PICK stuck \in SUBSET OpenFiles :
          \/ \E b \in Body, outcome \in {"written", "created", "unnamed"} :
               CacheToDisk(b, outcome, stuck)
          \/ \E u \in Url : InvalidateCachedData(u, stuck)
          \/ ClearCache(stuck)
          \/ \E size \in Limits : SetMaxCacheSize(size, stuck)
          \/ EnableFileCache(stuck)
          \/ DisableFileCache(stuck)
    BY <1>1 DEF Calls
  <2> QED BY <2>1, CacheToDiskGrown, InvalidateGrown, ClearCacheGrown, SetMaxGrown,
             EnableGrown, DisableGrown
<1>2. CASE SetCacheIniFileName
  BY <1>2, SetIniNameGrown
<1>3. CASE DiskStep
  BY <1>3, DiskStepGrown
<1>4. CASE Restart
  BY <1>4, StartGrown DEF Restart, UInv
<1>5. CASE Crash
  <2>1. PICK remains \in Remains : StartWith(remains)
    BY <1>5 DEF Crash
  <2> QED BY <2>1, RemainsTidy, StartGrown
<1>6. CASE JobSteps \/ Tick \/ UNCHANGED vars
  <2>1. UNCHANGED <<cache, disk>>
    <3>1. JobSteps => UNCHANGED <<cache, disk>>
      BY DEF JobSteps, Admit, InitJob, Connect, Transfer, JobMoves
    <3>2. Tick \/ UNCHANGED vars => UNCHANGED <<cache, disk>>
      BY DEF Tick, vars
    <3> QED BY <1>6, <3>1, <3>2
  <2> QED BY <2>1 DEF UInv
<1> QED BY <1>1, <1>2, <1>3, <1>4, <1>5, <1>6 DEF Next

-----------------------------------------------------------------------------
(* The theorems *)

\* IInv is an inductive invariant of the disk cache.
THEOREM Invariance == Spec => []IInv
<1>1. Init => IInv
  BY InitInvariant
<1>2. IInv /\ [Next]_vars => IInv'
  BY NextInvariant
<1> QED BY <1>1, <1>2, PTL DEF Spec

\* The map, the ini file, the files and what is to be done on them, the loads
\* that the cache serves and the counters have their types in every state.
THEOREM TypeCorrect == Spec => []TypeOK
<1>1. IInv => TypeOK
  <2> SUFFICES ASSUME IInv PROVE TypeOK
    OBVIOUS
  <2>1. Counters /\ FilesOK(disk.files) /\ disk.ini \in Entries
    BY DEF IInv
  <2>2. cache.entries \in Entries /\ cache.count \in 0..AccessLimit /\ disk.todo \in Seq(Step)
    <3>1. /\ Underway \in CallType /\ Underway.entries = cache.entries
          /\ Underway.count = cache.count /\ Underway.todo = disk.todo
      BY DEF IInv, CallOK, Underway
    <3> QED BY <3>1, CallFields
  <2>3. DOMAIN cache.entries \subseteq Url /\ Range(cache.entries) \subseteq Info
    BY <2>2, InEntries DEF Range
  <2>4. DOMAIN disk.ini \subseteq Url /\ Range(disk.ini) \subseteq Info
    BY <2>1, InEntries DEF Range
  <2>5. DOMAIN disk.files \subseteq Int /\ Range(disk.files) \subseteq Body \cup {Unwritten}
    BY <2>1 DEF FilesOK, Range, Content
  <2>6. \A k \in DOMAIN disk.todo : disk.todo[k].op \in {"remove", "store", "save"}
    <3>1. \A k \in DOMAIN disk.todo : disk.todo[k] \in Step
      BY <2>2
    <3> QED BY <3>1, StepKinds
  <2>7. \A j \in Job : /\ jobs[j].state \in {"none", "admitted", "named", "open"}
                       /\ jobs[j].url \in Url \cup {"none"}
                       /\ jobs[j].path \in Int \cup {NoFile}
    <3>1. \A j \in Job : jobs[j] \in JobType
      BY <2>1 DEF Counters
    <3> QED BY <3>1 DEF JobType
  <2>8. \A u \in Url : latest[u] \in Body \cup {Unwritten}
    BY <2>1 DEF Counters, Content
  <2> QED BY <2>1, <2>2, <2>3, <2>4, <2>5, <2>6, <2>7, <2>8 DEF TypeOK, Counters
<1> QED BY <1>1, Invariance, PTL

\* RemoveCachedFile on behalf of one entry never takes the response of
\* another, and no entry is without its file, however the map came about: by
\* calls, failed writes or from what a crash has left.
THEOREM EntriesDoOwnFiles == Spec => []EntriesOwnFiles
<1>1. IInv => EntriesOwnFiles
  <2> SUFFICES ASSUME IInv, Quiet
               PROVE  /\ FilesOf(cache.entries) \subseteq DOMAIN disk.files
                      /\ OneToOne(cache.entries)
    BY DEF EntriesOwnFiles, OneToOne
  <2>1. OneToOne(Call.entries) /\ Kept(Call.entries, latest, disk.files, << >>, crashes)
        /\ Call.entries = cache.entries
    BY CallIsOK DEF CallOK, Call
  <2>2. \A u \in DOMAIN cache.entries : cache.entries[u].file \in DOMAIN disk.files
    BY <2>1, SettledIsThere DEF Kept
  <2> QED BY <2>1, <2>2 DEF FilesOf
<1> QED BY <1>1, Invariance, PTL

\* As long as the program never dies, what is cached for a URL is the response
\* that CacheToDisk was given last, over any number of orderly shutdowns, and
\* nothing after InvalidateCachedData.
THEOREM EntriesStayLatest == Spec => []EntriesAreLatest
<1>1. IInv => EntriesAreLatest
  <2> SUFFICES ASSUME IInv, crashes = 0, Quiet, NEW u \in DOMAIN cache.entries
               PROVE  disk.files[cache.entries[u].file] = latest[u]
    BY DEF EntriesAreLatest
  <2>1. Kept(Call.entries, latest, disk.files, << >>, crashes) /\ Call.entries = cache.entries
    BY CallIsOK DEF CallOK, Call
  <2>2. PICK b \in Content :
          Settled(cache.entries[u].file, b, disk.files, << >>) /\ b = latest[u]
    BY <2>1 DEF Kept
  <2> QED BY <2>2, SettledIsThere
<1> QED BY <1>1, Invariance, PTL

\* Init leaves no file in the directory without an entry or a way to go: what
\* crashes and failed writes have left is removed, save files that are open.
THEOREM EnablingDoesTidy == Spec => EnablingTidies
<1>1. ASSUME IInv, [Next]_vars, ~enabled, enabled', NEW f \in DOMAIN disk.files,
             f \notin FilesOf(cache'.entries), f \notin OpenFiles
      PROVE  \E k \in DOMAIN disk'.todo : f \in disk'.todo[k].files
  <2>1. PICK stuck \in SUBSET OpenFiles : EnableFileCache(stuck)
    BY <1>1 DEF Next, Calls, CacheToDisk, InvalidateCachedData, ClearCache, SetMaxCacheSize,
                DisableFileCache, SetCacheIniFileName, JobSteps, Admit, InitJob, Connect, Transfer,
                JobMoves, DiskStep, Restart, Crash, StartWith, Tick, vars
  <2> DEFINE c == [Call EXCEPT !.entries = FromIni]
             gone == DOMAIN disk.files \ FilesOf(FromIni)
             d == RemoveFiles(c, gone, stuck)
  <2>2. Finish(d)
    BY <2>1 DEF EnableFileCache
  <2>3. c = [entries |-> FromIni, count |-> cache.count, todo |-> << >>]
    BY DEF Call
  <2>4. ASSUME gone = {} PROVE FALSE
    <3>1. d.entries = FromIni
      BY <2>3, <2>4 DEF RemoveFiles
    <3> QED BY <1>1, <2>2, <2>4, <3>1 DEF Finish
  <2>5. gone # {}
    BY <2>4
  <2>6. QED
    <3> DEFINE step == Remove(gone \ stuck)
    <3>1. d = [c EXCEPT !.todo = Append(c.todo, step)]
      BY <2>5 DEF RemoveFiles
    <3> HIDE DEF step
    <3>2. d.entries = FromIni /\ d.todo = Append(<< >>, step)
      BY <2>3, <3>1
    <3>3. disk' = [disk EXCEPT !.todo = d.todo] /\ cache'.entries = FromIni
      BY <2>2, <3>2 DEF Finish
    <3>4. disk'.todo = <<step>>
      <4>1. disk = [files |-> disk.files, ini |-> disk.ini, todo |-> disk.todo]
        BY <1>1 DEF IInv
      <4>2. \A x : Append(<< >>, x) = <<x>>
        OBVIOUS
      <4>3. disk' = [disk EXCEPT !.todo = <<step>>]
        BY <3>2, <3>3, <4>2, Zenon
      <4> HIDE DEF c, gone, d
      <4> QED BY <4>1, <4>3
    <3>5. 1 \in DOMAIN disk'.todo /\ disk'.todo[1].files = gone \ stuck
      BY <3>4 DEF step, Remove
    <3> QED BY <1>1, <3>3, <3>5
<1>2. IInv /\ [Next]_vars =>
        [~enabled /\ enabled' =>
           \A f \in DOMAIN disk.files :
             \/ f \in FilesOf(cache'.entries)
             \/ f \in OpenFiles
             \/ \E k \in DOMAIN disk'.todo : f \in disk'.todo[k].files]_vars
  BY <1>1
<1> QED BY <1>2, Invariance, PTL DEF Spec, EnablingTidies

\* Since it last tidied up, the cache has outgrown a limit by at most one
\* response for each access counted, also when its map comes from an ini file
\* whose writer died.
THEOREM UsageIsBounded == Spec => []UsageBounded
<1>1. Init => UInv
  <2> SUFFICES ASSUME Init PROVE UInv
    OBVIOUS
  <2>1. /\ cache.entries = NoEntries /\ cache.count = 0
        /\ disk.ini = NoEntries /\ disk.todo = << >>
    BY DEF Init
  <2> QED BY <2>1, NoBytes, TidyIsGrown DEF UInv, SavesTidy
<1>2. IInv /\ UInv /\ [Next]_vars => UInv'
  BY NextGrown
<1>3. UInv => UsageBounded
  BY DEF UInv, Grown, AllLimits, UsageBounded
<1> QED BY <1>1, <1>2, <1>3, Invariance, PTL DEF Spec
=============================================================================
