----------------------------- MODULE CookieManager -----------------------------
(***************************************************************************)
(* The cookie manager (BCCookieManagerEA.cpp): the jar of cookies, and the *)
(* file that it is written to when the library is shut down and read from  *)
(* when it is set up.                                                      *)
(*                                                                         *)
(* A host and the domain of a cookie are sequences of labels, and a domain *)
(* may have a leading dot; a path is a sequence of which another may be a  *)
(* prefix.  The scheme and the port of a URL are left out: they only keep  *)
(* more cookies from being sent.                                           *)
(*                                                                         *)
(* The file is written with one WriteFile after the other, whose results   *)
(* nobody looks at.  Once one of them has failed, or the program has died, *)
(* nothing more is written: the last line may be torn.                     *)
(***************************************************************************)
EXTENDS Integers, SequencesExt

CONSTANTS
  Name,          \* the names of cookies
  Host,          \* the servers that set cookies, as sequences of labels
  Visited,       \* the servers that are sent cookies
  Path,          \* the directories of their pages
  Domains,       \* the values of the Domain attribute, as sequences of labels
  Ages,          \* the values of the Max-Age attribute
  Never,         \* the default expiration time of a cookie, 0x7fffffff
  Counts,        \* the values of mMaxCookieCount the application asks for
  DefaultCount,  \* kMaxCookieCountDefault
  Cuts,          \* pairs of domains, of which the second is how the first one begins
  MaxFileSize,   \* what mMaxCookieFileSize leaves for cookies
  MaxTime,       \* bound: the last value of the clock
  MaxSets,       \* bound: Set-Cookie headers that servers send
  MaxUses,       \* bound: calls of SetCookieUsage and RemoveCookies
  MaxRuns,       \* bound: how often the program is started
  MaxFaults      \* bound: crashes, failures of the file system, runs without a file

ASSUME CookieAssumption ==
  /\ Visited \cup Domains \cup Path \subseteq Seq(STRING) /\ Host \subseteq Visited
  /\ Cuts \subseteq Seq(STRING) \X Seq(STRING)
  /\ \A cut \in Cuts : cut[2] # << >> /\ IsPrefix(Front(cut[2]), cut[1])
  /\ Ages \subseteq Nat /\ Never \in Nat /\ \A age \in Ages : MaxTime + age < Never
  /\ Counts \subseteq Nat /\ DefaultCount \in Nat \ {0} /\ MaxFileSize \in Nat
  /\ {MaxTime, MaxSets, MaxUses, MaxRuns, MaxFaults} \subseteq Nat /\ MaxRuns > 0

VARIABLES
  jar,          \* mCookies
  params,       \* mParams: mMaxCookieCount, and whether there is a mCookieFilePath
  initialized,  \* mInitialized
  file,         \* the cookies in the file
  now,          \* the time of day
  latest,       \* what servers last made of each cookie; 0 when it was removed
  sets,         \* how many Set-Cookie headers there were
  uses,         \* how often the application called
  runs,         \* how often the program was started
  faults,       \* how often something went wrong
  disabled      \* the last call of SetCookieUsage asked for no cookies

vars == <<jar, params, initialized, file, now, latest, sets, uses, runs, faults, disabled>>

-----------------------------------------------------------------------------
Domain == [dot : BOOLEAN, labels : Seq(STRING)]

\* class Cookie; what it was set to, by whom, in which run, whether as a
\* lasting one and whether its line was always read whole is history.
Cookie == [name : Name, domain : Domain, path : Path, expires : 0..Never, session : BOOLEAN,
           value : 1..MaxSets, by : Host, run : 1..MaxRuns, lasting : BOOLEAN, whole : BOOLEAN]

\* The jar never holds more than one of the limits in use allows.
WithinLimits(cookies) == \E max \in Counts \cup {DefaultCount} : Len(cookies) <= max

TypeOK ==
  /\ jar \in Seq(Cookie) /\ WithinLimits(jar)
  /\ file \in Seq(Cookie) /\ WithinLimits(file)
  /\ params \in [max : Counts \cup {DefaultCount}, saved : BOOLEAN]
  /\ initialized \in BOOLEAN /\ disabled \in BOOLEAN
  /\ now \in 0..MaxTime
  /\ \A k \in DOMAIN latest : latest[k] \in 0..sets
  /\ sets \in 0..MaxSets /\ uses \in 0..MaxUses /\ runs \in 1..MaxRuns
  /\ faults \in 0..MaxFaults

\* CookieManagerParameters()
NoParams == [max |-> DefaultCount, saved |-> FALSE]

Init ==
  /\ jar = << >> /\ file = << >>
  /\ params = NoParams /\ initialized = FALSE
  /\ now = 0 /\ latest = << >>
  /\ sets = 0 /\ uses = 0 /\ runs = 1 /\ faults = 0
  /\ disabled = FALSE

\* A call of the file system fails now, which the program does not notice.
Fault == faults < MaxFaults /\ faults' = faults + 1
NoFault == UNCHANGED faults

-----------------------------------------------------------------------------
(* Which cookies there may be and where they go *)

\* EndsWithDomain: with or without a leading dot, the domain itself and all
\* that ends with it after a dot; no domain is the end of no host.
EndsWithDomain(host, domain) == domain.labels # << >> /\ IsSuffix(domain.labels, host)

\* Mutant: the first label always goes.
DefaultDomainAnyway(host) == [dot |-> TRUE, labels |-> Tail(host)]

\* ValidateCookie: the server's name without its first label, if that leaves
\* two, else its name.
DefaultDomain(host) ==
  IF Len(host) > 2 THEN [dot |-> TRUE, labels |-> Tail(host)]
                   ELSE [dot |-> FALSE, labels |-> host]

\* ValidateCookie, ValidateDomain: a domain that a server may name
ValidDomain(host, domain) ==
  \/ Len(domain.labels) > 1 /\ EndsWithDomain(host, domain)
  \/ ~domain.dot /\ domain.labels = host

IsCookieExpired(c) == now >= c.expires

Same(c, d) == c.name = d.name /\ c.domain = d.domain /\ c.path = d.path

Removes(c) == IsCookieExpired(c) /\ ~c.session

\* Mutant: no cookie is driven out.
AddedAnyway(cookies, max, c) == Append(cookies, c)

\* Mutant: the oldest cookie goes before the new one comes.
AddedFirst(cookies, max, c) ==
  IF Len(cookies) > max THEN Append(Tail(cookies), c) ELSE Append(cookies, c)

\* A new cookie may drive the oldest one out.
Added(cookies, max, c) ==
  LET more == Append(cookies, c) IN IF Len(more) > max THEN Tail(more) ELSE more

\* Mutant: the new cookie does not take the place of the old one.
ProcessedAsNew(cookies, max, c) == IF Removes(c) THEN cookies ELSE Added(cookies, max, c)

\* ProcessCookieHeader, from ValidateCookie on
Processed(cookies, max, c) ==
  LET old == {i \in DOMAIN cookies : Same(cookies[i], c)} IN
  CASE old = {} /\ Removes(c)  -> cookies
    [] old = {} /\ ~Removes(c) -> Added(cookies, max, c)
    [] old # {} /\ Removes(c)  -> RemoveAt(cookies, Min(old))
    [] old # {} /\ ~Removes(c) -> [cookies EXCEPT ![Min(old)] = c]

\* GetCookieTextForURL
Sent(host, path) ==
  {c \in Range(jar) : /\ initialized
                      /\ EndsWithDomain(host, c.domain)
                      /\ IsPrefix(c.path, path)
                      /\ ~IsCookieExpired(c)}

-----------------------------------------------------------------------------
(* The file *)

\* The place of i among the numbers of S
Rank(i, S) == Cardinality({j \in S : j <= i})

\* The cookies at the positions S, in their order
Picked(cookies, S) ==
  [n \in 1..Cardinality(S) |-> cookies[CHOOSE i \in S : Rank(i, S) = n]]

Unexpired(cookies) == {i \in DOMAIN cookies : ~IsCookieExpired(cookies[i])}

Lasting(cookies) == {i \in Unexpired(cookies) : ~cookies[i].session}

FirstOf(n, cookies) == SubSeq(cookies, 1, Min({Len(cookies), n}))

\* CreateCookieString tells an expiration time of every cookie.
Text(c) == [c EXCEPT !.session = FALSE]

Texts(cookies) == [i \in DOMAIN cookies |-> Text(cookies[i])]

\* The length of a line, with its end
Size(c) == 1 + Len(c.path) + Len(c.domain.labels)

TotalSize(lines) == FoldSeq(LAMBDA c, total : total + Size(c), 0, lines)

\* A line is written if the file has not reached its maximum size before it.
Fitting(lines) ==
  FirstOf(Cardinality({i \in DOMAIN lines : TotalSize(SubSeq(lines, 1, i - 1)) < MaxFileSize}), lines)

\* Mutant: session cookies are written, too.
WrittenAll(cookies) == Fitting(Texts(Picked(cookies, Unexpired(cookies))))

\* WriteCookiesToFile
Written(cookies) == Fitting(Texts(Picked(cookies, Lasting(cookies))))

NoDomain == [dot |-> FALSE, labels |-> << >>]

\* What is left of a domain that is cut: nothing when it is short, else how it
\* begins, or all of it.
CutDomains(d) ==
  {NoDomain, d}
    \cup {[d EXCEPT !.labels = cut[2]] : cut \in {pair \in Cuts : pair[1] = d.labels}}

\* What ParseCookieHeader makes of the first part of the line of c.  It ends
\* before the expiration time, which is then the default, or in it, so that it
\* may be past, as it was or far off, or after it.
Torn(c) ==
  {[c EXCEPT !.whole = FALSE, !.domain = d, !.session = TRUE, !.expires = Never] :
     d \in CutDomains(c.domain)}
    \cup {[c EXCEPT !.whole = FALSE, !.expires = time] : time \in {0, c.expires, Never}}

\* What is in the file when not all of its lines are written.
CutShort(lines) ==
  {SubSeq(lines, 1, n) : n \in 0..Len(lines)}
    \cup UNION {{Append(SubSeq(lines, 1, n - 1), line) : line \in Torn(lines[n])} :
                  n \in DOMAIN lines}

\* Mutant: without cookies to write, the file is not opened.
SavedIfAny(cookies, p, writes) ==
  IF p.saved /\ writes /\ Written(cookies) # << >> THEN {Written(cookies)} ELSE {file}

\* Shutdown() and Init() under the parameters p: what may be in the file and
\* what is in the jar then, when the file may not be opened or written.
Saved(cookies, p, writes) ==
  CASE ~p.saved            -> {file}
    [] p.saved /\ writes   -> {Written(cookies)}
    [] p.saved /\ ~writes  -> {file} \cup CutShort(Written(cookies))

Loaded(lines, p, reads) == IF p.saved /\ reads THEN lines ELSE << >>

-----------------------------------------------------------------------------
(* Calls *)

\* SetParametersAndInitialize({max, path}), max > 0
SetCookieUsage(p, writes, reads) ==
  LET fewer == FirstOf(p.max, jar) IN
  /\ p.max > 0 /\ uses < MaxUses /\ uses' = uses + 1
  /\ params' = p /\ initialized' = TRUE /\ disabled' = FALSE
  /\ file' \in IF initialized THEN Saved(fewer, p, writes) ELSE {file}
  /\ jar' = Loaded(file', p, reads)
  /\ IF writes /\ reads THEN NoFault ELSE Fault
  /\ UNCHANGED <<now, latest, sets, runs>>

\* RemoveCookies(), when the file may fail to be removed
Cleared(removes) ==
  /\ jar' = << >>
  /\ file' = IF params.saved /\ removes THEN << >> ELSE file
  /\ IF removes THEN NoFault ELSE Fault

\* SetParametersAndInitialize with a maximum of 0
DisableCookies(removes) ==
  /\ 0 \in Counts /\ uses < MaxUses /\ uses' = uses + 1
  /\ Cleared(removes)
  /\ disabled' = TRUE
  /\ UNCHANGED <<params, initialized, now, latest, sets, runs>>

RemoveCookies(removes) ==
  /\ uses < MaxUses /\ uses' = uses + 1
  /\ Cleared(removes)
  /\ UNCHANGED <<params, initialized, now, latest, sets, runs, disabled>>

\* OnHeadersRead: an answer of host for a page at path sets a cookie.  Without
\* a call of SetCookieUsage before, the default parameters are used.
OnHeadersRead(host, path, c) ==
  LET p == IF initialized THEN params ELSE NoParams IN
  /\ sets < MaxSets /\ sets' = sets + 1
  /\ IF ValidDomain(host, c.domain) \/ c.domain = DefaultDomain(host)
     THEN /\ jar' = Processed(jar, p.max, c)
          /\ LET key == <<c.name, c.domain, c.path>> IN
             latest' = [k \in DOMAIN latest \cup {key} |->
                          IF k # key THEN latest[k] ELSE IF Removes(c) THEN 0 ELSE c.value]
     ELSE UNCHANGED <<jar, latest>>
  /\ params' = p /\ initialized' = TRUE
  /\ UNCHANGED <<file, now, uses, runs, faults, disabled>>

\* The cookie that a server's header stands for: a domain and a path of its
\* own choice or by default, a Max-Age or none.
Received(host, path, name, domain, prefix, age) ==
  [name |-> name, domain |-> domain, path |-> prefix, value |-> sets + 1,
   by |-> host, run |-> runs, session |-> age < 0, lasting |-> age >= 0,
   whole |-> TRUE, expires |-> IF age < 0 THEN Never ELSE now + age]

SetCookie ==
  \E host \in Host, path \in Path, name \in Name, age \in Ages \cup {-1} :
    \E domain \in {DefaultDomain(host)} \cup [dot : BOOLEAN, labels : Domains],
       prefix \in {p \in Path : IsPrefix(p, path)} :
      OnHeadersRead(host, path, Received(host, path, name, domain, prefix, age))

\* OnHeadersSend changes nothing once the manager is initialized.
OnHeadersSend ==
  /\ ~initialized /\ initialized' = TRUE
  /\ params' = NoParams
  /\ UNCHANGED <<jar, file, now, latest, sets, uses, runs, faults, disabled>>

\* A new process
Start ==
  /\ runs < MaxRuns /\ runs' = runs + 1
  /\ jar' = << >> /\ params' = NoParams /\ initialized' = FALSE /\ disabled' = FALSE
  /\ UNCHANGED <<now, latest, sets, uses>>

\* Shutdown(), when the library is finalized, and the next start; where not
\* everything is written, the program may have died, too.  Without a file,
\* what servers have set since the last run is not saved.
Shutdown(writes) ==
  /\ Start
  /\ file' \in IF initialized THEN Saved(jar, params, writes) ELSE {file}
  /\ IF writes /\ params.saved THEN NoFault ELSE Fault

\* The program dies before it comes to Shutdown.
Crash ==
  /\ Fault
  /\ Start
  /\ UNCHANGED file

Clock ==
  /\ now < MaxTime /\ now' = now + 1
  /\ UNCHANGED <<jar, params, initialized, file, latest, sets, uses, runs, faults, disabled>>

Next ==
  \/ \E max \in Counts, saved, writes, reads \in BOOLEAN :
       SetCookieUsage([max |-> max, saved |-> saved], writes, reads)
  \/ \E removes \in BOOLEAN : DisableCookies(removes) \/ RemoveCookies(removes)
  \/ SetCookie \/ OnHeadersSend
  \/ \E writes \in BOOLEAN : Shutdown(writes)
  \/ Crash \/ Clock

Spec == Init /\ [][Next]_vars

-----------------------------------------------------------------------------
(* Properties *)

\* ProcessCookieHeader, through all calls, starts and failures: a name, domain
\* and path have one cookie; only what is left of a torn line may come second.
OneCookiePerKey ==
  \A i, j \in DOMAIN jar : i < j /\ Same(jar[i], jar[j]) => ~jar[j].whole

\* The last two labels of a name, or all of it
Site(host) == SubSeq(host, Max({1, Len(host) - 1}), Len(host))

\* ValidateCookie, EndsWithDomain: a cookie is sent back to the host that has
\* set it, or to one whose name ends with the last two labels of that host's,
\* whatever domain the server named and however often the cookie was written
\* to the file and read again, as long as its line was never torn.
StaysInSite ==
  \A host \in Visited, path \in Path : \A c \in Sent(host, path) :
    c.whole => IsSuffix(Site(c.by), host)

\* As long as nothing goes wrong, what is sent is what servers last made of
\* the cookie, over any number of calls and restarts, and nothing that they
\* have removed.
SentIsLatest ==
  faults = 0 =>
    \A host \in Visited, path \in Path : \A c \in Sent(host, path) :
      latest[<<c.name, c.domain, c.path>>] = c.value

\* WriteCookiesToFile: a cookie that a server has set for the session is gone
\* after it, however it was set before and however the session ended.
SessionsEnd == \A c \in Range(jar) : c.lasting \/ c.run = runs

\* ProcessCookieHeader: even where the file has filled the jar beyond the
\* maximum, no answer of a server makes it larger than it was.
LimitHolds ==
  [][sets' # sets => Len(jar') <= Max({Len(jar), params'.max})]_vars

\* EAWebKit.h on mMaxCookieCount: set to zero to clear and disable cookies.
ZeroDisables == disabled => jar = << >>
=============================================================================
