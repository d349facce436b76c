----------------------------- MODULE HttpHandler -----------------------------
(***************************************************************************)
(* A load over http: the request that a ResourceHandle keeps through all   *)
(* its jobs, the handler (BCTransportHandlerDirtySDK.cpp) that sends it,   *)
(* follows redirects and reads the answer, the form that is uploaded       *)
(* (BCFormDataStreamEA.cpp), and the names and passwords that the user     *)
(* gives and the AuthenticationManager saves.                              *)
(*                                                                         *)
(* The scheduler is that of ResourceHandleManager; here it only takes each *)
(* load through its states.  DirtySDK and the servers are external.        *)
(***************************************************************************)
EXTENDS Integers, SequencesExt

CONSTANTS
  Load,          \* the ResourceHandles
  Server,        \* the servers
  Dir,           \* the directories of pages, as sequences of names
  Realm,         \* the realms that a server may ask a password for
  Method,        \* methods of requests: of GET, POST, and others
  Form,          \* what is posted: sequences of elements [size, file]
  Buffer,        \* the size of the buffer that Connect reads them with
  Interval,      \* m_timeoutSeconds
  Forever,       \* the interval while the user is asked
  MaxRedirects,  \* the redirection limit, rmax
  MaxAnswers,    \* bound: names and passwords given
  MaxCookies     \* bound: cookies that servers set

ASSUME HttpAssumption ==
  /\ "GET" \in Method /\ << >> \in Form
  /\ Form \subseteq Seq([size : Nat \ {0}, file : BOOLEAN])
  /\ Buffer \in Nat \ {0} /\ Interval \in Nat /\ Forever \notin Nat
  /\ {MaxRedirects, MaxAnswers, MaxCookies} \subseteq Nat

VARIABLES
  loads,    \* m_request and m_formDataStream of each handle, and what became of it
  jobs,     \* TransportInfo and DirtySDKInfo of each handle's job
  saved,    \* mSavedCredentialsList
  jar,      \* the value of the cookie that the cookie manager has for each server
  answers,  \* how many names and passwords the user has given
  cookies   \* how many cookies servers have set

vars == <<loads, jobs, saved, jar, answers, cookies>>

-----------------------------------------------------------------------------
Url == [server : Server, dir : Dir]
NoUrl == [server |-> "none", dir |-> << >>]

\* A handle that nothing was loaded with; auth is the list of answers that
\* its Authorization header holds.
NoLoad == [phase |-> "none", url |-> NoUrl, method |-> "none", form |-> << >>,
           element |-> 1, offset |-> 0, auth |-> << >>, interval |-> Interval]

\* regular: the servers sent a location only with a redirect, and without a
\* host only from the server that was asked first.
NoJob == [state |-> "none", url |-> NoUrl, effective |-> NoUrl, contact |-> "none",
          auth |-> << >>, cookie |-> [of |-> "none", value |-> 0], sends |-> 0, body |-> 0,
          rx |-> "idle", challenged |-> FALSE, realm |-> "none", setCookie |-> 0,
          interval |-> Interval, left |-> Interval, regular |-> TRUE]

LoadType ==
  [phase : {"none", "queued", "job", "asked", "ended"}, url : Url \cup {NoUrl},
   method : Method \cup {"none"}, form : Form, element : Nat, offset : Nat,
   auth : Seq(1..answers), interval : {Interval, Forever}]

JobType ==
  [state : {"none", "init", "connect", "transfer", "asked"},
   url : Url \cup {NoUrl}, effective : Url \cup {NoUrl}, contact : Server \cup {"none"},
   auth : Seq(1..answers), cookie : [of : Server \cup {"none"}, value : 0..cookies],
   sends : 0..MaxRedirects + 1, body : Nat,
   rx : {"idle", "queued", "sent", "redirected", "answered"},
   challenged : BOOLEAN, realm : Realm \cup {"none"}, setCookie : 0..cookies,
   interval : {Interval, Forever}, left : 0..Interval \cup {Forever}, regular : BOOLEAN]

\* Where reading of the form can have come to
Position(form, e, o) ==
  /\ e \in 1..Len(form) + 1
  /\ o \in 0..IF e > Len(form) THEN 0 ELSE form[e].size - 1

TypeOK ==
  /\ loads \in [Load -> LoadType] /\ jobs \in [Load -> JobType]
  /\ \A l \in Load :
       /\ Position(loads[l].form, loads[l].element, loads[l].offset)
       /\ (jobs[l].state = "none") = (loads[l].phase \notin {"job", "asked"})
  /\ saved \in Seq([server : Server, dir : Dir, realm : Realm, answer : 1..answers])
  /\ jar \in [Server -> 0..cookies]
  /\ answers \in 0..MaxAnswers /\ cookies \in 0..MaxCookies

Init ==
  /\ loads = [l \in Load |-> NoLoad] /\ jobs = [l \in Load |-> NoJob]
  /\ saved = << >> /\ jar = [s \in Server |-> 0]
  /\ answers = 0 /\ cookies = 0

-----------------------------------------------------------------------------
(* Names and passwords *)

\* The saved credentials of the server for url's directory or one above it
Matching(url) ==
  {i \in DOMAIN saved : saved[i].server = url.server /\ IsPrefix(saved[i].dir, url.dir)}

\* ProvideCredentialsHeader: the first of them replace the request's own.
ProvideCredentialsHeader(url, auth) ==
  IF Matching(url) = {} THEN auth ELSE <<saved[Min(Matching(url))].answer>>

\* AddSavedCredentials: the first that are for the same realm in url's
\* directory or below it are overwritten.
AddSavedCredentials(url, realm, answer) ==
  LET new == [server |-> url.server, dir |-> url.dir, realm |-> realm, answer |-> answer]
      old == {i \in DOMAIN saved : /\ saved[i].server = url.server
                                   /\ saved[i].realm = realm
                                   /\ IsPrefix(url.dir, saved[i].dir)}
  IN  IF old = {} THEN Append(saved, new) ELSE [saved EXCEPT ![Min(old)] = new]

-----------------------------------------------------------------------------
(* The form *)

\* Mutant: an element that fits the buffer exactly is taken to go on.
ReadOn(form, e, o) ==
  IF e > Len(form) \/ form[e].file THEN [sent |-> 0, element |-> e, offset |-> o]
  ELSE LET rest == form[e].size - o IN
       IF rest >= Buffer THEN [sent |-> Buffer, element |-> e, offset |-> o + Buffer]
       ELSE [sent |-> rest, element |-> e + 1, offset |-> 0]

\* FormDataStream::read at offset o of element e; nothing is read of a file,
\* whether or not it can be opened.
Read(form, e, o) ==
  IF e > Len(form) \/ form[e].file THEN [sent |-> 0, element |-> e, offset |-> o]
  ELSE LET rest == form[e].size - o IN
       IF rest > Buffer THEN [sent |-> Buffer, element |-> e, offset |-> o + Buffer]
       ELSE [sent |-> rest, element |-> e + 1, offset |-> 0]

\* Connect reads until nothing comes.
ReadAll(form, e, o) ==
  LET f[at \in (1..Len(form) + 1) \X Nat] ==
        LET r == Read(form, at[1], at[2]) IN
        IF r.sent = 0 THEN r
        ELSE LET more == f[<<r.element, r.offset>>] IN [more EXCEPT !.sent = @ + r.sent]
  IN  f[<<e, o>>]

-----------------------------------------------------------------------------
(* The states of a job *)

Start(l) ==
  /\ loads[l].phase = "none"
  /\ \E url \in Url, method \in Method, form \in Form :
       /\ (form # << >>) = (method = "POST")
       /\ loads' = [loads EXCEPT ![l] = [NoLoad EXCEPT !.phase = "queued", !.url = url,
                                           !.method = method, !.form = form]]
  /\ UNCHANGED <<jobs, saved, jar, answers, cookies>>

\* AddTHJob, with OnHeadersSend of the cookie manager
AddTHJob(l) ==
  LET url == loads[l].url IN
  /\ loads[l].phase = "queued" /\ loads' = [loads EXCEPT ![l].phase = "job"]
  /\ jobs' = [jobs EXCEPT ![l] =
       [NoJob EXCEPT !.state = "init", !.url = url, !.effective = url, !.contact = url.server,
          !.auth = ProvideCredentialsHeader(url, loads[l].auth),
          !.cookie = [of |-> url.server, value |-> jar[url.server]],
          !.interval = loads[l].interval, !.left = loads[l].interval]]
  /\ UNCHANGED <<saved, jar, answers, cookies>>

\* Mutant: the job stays in mTHJobList.
EndsOnly(l) ==
  /\ UNCHANGED jobs
  /\ loads' = [loads EXCEPT ![l].phase = "ended"]

End(l) ==
  /\ jobs' = [jobs EXCEPT ![l] = NoJob]
  /\ loads' = [loads EXCEPT ![l].phase = "ended"]

\* BeginAuthorization keeps a copy of the job's TransportInfo.
BeginAuthorization(l) ==
  /\ jobs' = [jobs EXCEPT ![l].state = "asked"]
  /\ loads' = [loads EXCEPT ![l].phase = "asked", ![l].interval = Forever]

\* A job is removed after its last state, or when one fails.
RemoveJob(l) == IF jobs[l].challenged THEN BeginAuthorization(l) ELSE End(l)

\* HttpManagerAlloc may fail.
InitJob(l) ==
  /\ jobs[l].state = "init"
  /\ \/ jobs' = [jobs EXCEPT ![l].state = "connect"] /\ UNCHANGED loads
     \/ RemoveJob(l)
  /\ UNCHANGED <<saved, jar, answers, cookies>>

\* A GET or a POST is handed to HttpManager, which may refuse it; any other
\* request goes nowhere.
Connect(l) ==
  LET load == loads[l]
      read == ReadAll(load.form, load.element, load.offset)
      Go(rx, body) ==
        jobs' = [jobs EXCEPT ![l].state = "transfer", ![l].rx = rx, ![l].body = body]
  IN
  /\ jobs[l].state = "connect"
  /\ \/ load.method = "GET" /\ Go("queued", 0) /\ UNCHANGED loads
     \/ /\ load.method = "POST" /\ Go("queued", read.sent)
        /\ loads' = [loads EXCEPT ![l].element = read.element, ![l].offset = read.offset]
     \/ load.method \in {"GET", "POST"} /\ RemoveJob(l)
     \/ load.method \notin {"GET", "POST"} /\ Go("idle", 0) /\ UNCHANGED loads
  /\ UNCHANGED <<saved, jar, answers, cookies>>

\* Mutant: the cookies stay those of the first request.
SendsCookiesOnce(job) == job.cookie

\* DirtySDKSendHeaderCallback: a second request comes of a redirect, and gets
\* its cookies anew (ReattachCookies).
CookieSent(job) ==
  IF job.sends = 0 THEN job.cookie
  ELSE [of |-> job.effective.server, value |-> jar[job.effective.server]]

\* HttpManagerUpdate sends a request.
SendHeader(l) ==
  /\ jobs[l].state = "transfer" /\ jobs[l].rx \in {"queued", "redirected"}
  /\ jobs' = [jobs EXCEPT ![l].rx = "sent", ![l].sends = @ + 1,
                          ![l].cookie = CookieSent(jobs[l])]
  /\ UNCHANGED <<loads, saved, jar, answers, cookies>>

\* OnHeadersRead for the effective URI; 0 is no cookie.
CookiesReceived(url, value) ==
  jar' = IF value = 0 THEN jar ELSE [jar EXCEPT ![url.server] = value]

\* A server may set a cookie.
MaySetCookie(value) ==
  \/ value = 0 /\ UNCHANGED cookies
  \/ cookies < MaxCookies /\ value = cookies + 1 /\ cookies' = value

\* A location without a host is one of the server that was asked first.
Location(job, url, relative) ==
  IF relative THEN [url EXCEPT !.server = job.url.server] ELSE url

\* DirtySDKRecvHeaderCallback of a redirect: SetEffectiveURI, SetRedirect,
\* CookiesReceived
RecvRedirect(l) ==
  LET job == jobs[l] IN
  /\ job.state = "transfer" /\ job.rx = "sent" /\ job.sends <= MaxRedirects
  /\ \E url \in Url, relative \in BOOLEAN, value \in 0..cookies + 1 :
       LET effective == Location(job, url, relative) IN
       /\ relative => url.server = job.contact
       /\ MaySetCookie(value)
       /\ CookiesReceived(effective, value)
       /\ loads' = [loads EXCEPT ![l].url = effective]
       /\ jobs' = [jobs EXCEPT ![l].rx = "redirected", ![l].effective = effective,
                               ![l].contact = url.server, ![l].setCookie = value,
                               ![l].regular = @ /\ (relative => job.contact = job.url.server)]
  /\ UNCHANGED <<saved, answers>>

\* DirtySDKRecvHeaderCallback of an answer, which may have a location, too, or
\* ask for a name and password
RecvAnswer(l) ==
  LET job == jobs[l] IN
  /\ job.state = "transfer" /\ job.rx = "sent"
  /\ \E location \in Url \cup {job.effective}, value \in 0..cookies + 1, realm \in Realm \cup {"none"} :
       /\ MaySetCookie(value)
       /\ CookiesReceived(location, value)
       /\ jobs' = [jobs EXCEPT ![l].rx = "answered", ![l].effective = location,
                               ![l].setCookie = value, ![l].realm = realm,
                               ![l].challenged = realm # "none",
                               ![l].regular = @ /\ location = job.effective]
  /\ UNCHANGED <<loads, saved, answers>>

\* Transfer: after RECVDONE the data is complete, also when it is late, and
\* DataDone shows the cookies to the cookie manager a second time.
TransferDone(l) ==
  LET job == jobs[l] IN
  /\ job.state = "transfer" /\ job.rx = "answered"
  /\ IF job.challenged THEN UNCHANGED jar ELSE CookiesReceived(job.effective, job.setCookie)
  /\ RemoveJob(l)
  /\ UNCHANGED <<saved, answers, cookies>>

TransferFail(l) ==
  /\ jobs[l].state = "transfer" /\ jobs[l].rx # "idle"
  /\ RemoveJob(l)
  /\ UNCHANGED <<saved, jar, answers, cookies>>

\* dCurrentTime > mTimeout
TransferTimeOut(l) ==
  /\ jobs[l].state = "transfer" /\ jobs[l].left = 0
  /\ RemoveJob(l)
  /\ UNCHANGED <<saved, jar, answers, cookies>>

-----------------------------------------------------------------------------
(* The user *)

\* Mutant: the interval of BeginAuthorization stays.
ProceedKeepsInterval(load, job) ==
  [load EXCEPT !.phase = "queued", !.auth = Append(@, answers + 1)]

\* Proceed: the answer is added to the Authorization header of the request,
\* which is queued again.
Resubmitted(load, job) ==
  [load EXCEPT !.phase = "queued", !.auth = Append(@, answers + 1), !.interval = job.interval]

Proceed(l) ==
  /\ loads[l].phase = "asked" /\ answers < MaxAnswers
  /\ loads' = [loads EXCEPT ![l] = Resubmitted(loads[l], jobs[l])]
  /\ saved' = AddSavedCredentials(jobs[l].url, jobs[l].realm, answers + 1)
  /\ jobs' = [jobs EXCEPT ![l] = NoJob]
  /\ answers' = answers + 1
  /\ UNCHANGED <<jar, cookies>>

\* AuthenticationManager::Cancel
CancelAuthorization(l) ==
  /\ loads[l].phase = "asked"
  /\ End(l)
  /\ UNCHANGED <<saved, jar, answers, cookies>>

Clock ==
  /\ \E l \in Load : jobs[l].state # "none" /\ jobs[l].left # Forever /\ jobs[l].left > 0
  /\ jobs' = [l \in Load |-> IF jobs[l].state = "none" \/ jobs[l].left \in {0, Forever}
                             THEN jobs[l] ELSE [jobs[l] EXCEPT !.left = @ - 1]]
  /\ UNCHANGED <<loads, saved, jar, answers, cookies>>

Process(l) == AddTHJob(l) \/ InitJob(l) \/ Connect(l)
Transfer(l) == TransferDone(l) \/ TransferTimeOut(l)

Next ==
  \/ \E l \in Load : Start(l) \/ Process(l) \/ Transfer(l) \/ TransferFail(l)
  \/ \E l \in Load : SendHeader(l) \/ RecvRedirect(l) \/ RecvAnswer(l)
  \/ \E l \in Load : Proceed(l) \/ CancelAuthorization(l)
  \/ Clock

Spec == Init /\ [][Next]_vars

\* Every frame the manager processes each job; no server must answer, and no
\* connection fail.
Fairness == WF_vars(Clock) /\ \A l \in Load : WF_vars(Process(l)) /\ WF_vars(Transfer(l))

FairSpec == Spec /\ Fairness

-----------------------------------------------------------------------------
(* Properties *)

Total(form) ==
  LET sum[n \in 0..Len(form)] == IF n = 0 THEN 0 ELSE sum[n - 1] + form[n].size
  IN  sum[Len(form)]

\* Connect, FormDataStream::read: however the sizes of a form's elements and
\* of the buffer relate, the first POST of it sends all of it.  (A second one,
\* after the user was asked, sends nothing, and no file is ever sent.)
PostWhole ==
  \A l \in Load :
    /\ jobs[l].rx # "idle" /\ loads[l].method = "POST" /\ loads[l].auth = << >>
    /\ \A i \in DOMAIN loads[l].form : ~loads[l].form[i].file
    => jobs[l].body = Total(loads[l].form)

\* EAWebKitTransport.h on mEffectiveURI: through redirects of redirects and
\* new attempts the effective URI is one of the server that is asked, and the
\* cookies are those of that server, as long as the servers keep to the rules.
RequestsMatch ==
  \A l \in Load :
    jobs[l].rx = "sent" /\ jobs[l].regular =>
      /\ jobs[l].effective.server = jobs[l].contact
      /\ jobs[l].cookie.of = jobs[l].contact

\* Transfer: whatever the servers do or fail to do, no job outlasts its
\* time-out; not one that was never sent, and not one that is tried again
\* after the user was asked without a limit.
LoadsTimeOut == \A l \in Load : (loads[l].phase = "job") ~> (loads[l].phase # "job")
=============================================================================
