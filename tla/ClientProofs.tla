---------------------------- MODULE ClientProofs ----------------------------
(***************************************************************************)
(* Proofs about the module Client, for every number of retries, turns,      *)
(* calls, tools and frames and every size of the channel.                   *)
(***************************************************************************)
EXTENDS Client, TLAPS

(***************************************************************************)
(* Clients                                                                  *)
(***************************************************************************)

AccountPlaces == {"account", "new", "with", "idle", "login", "fetch", "leaving", "logout", "raw"}

\* A client that was made has an http.Client and a core of its own.  An http.Client that
\* the SDK made belongs to one client and retries as often as that one says.
Made(c) ==
  LET r == cli[c]
  IN  /\ r.httpClient \in {c, "caller", "receiver"}
      /\ r.gen = Core(r, r.httpClient, c)
      /\ ~r.supplied => r.httpClient = c /\ wrapped[c] = r.maxRetries

\* One that is not made yet has retries nowhere, and an http.Client only if it was given
\* one.
Unmade(c) ==
  /\ wrapped[c] = 0
  /\ cli[c].httpClient \in {"nil", "caller", "receiver"}
  /\ c = "receiver" => cli[c].httpClient # "receiver"
  /\ ~cli[c].supplied => cli[c].httpClient = "nil"

AccountInv ==
  /\ AccountTypeOK
  /\ \A c \in Which : IF c \in made THEN Made(c) ELSE Unmade(c)
  /\ \A c \in Which : cli[c].baseURL = "worker" => cli[c].apiKey # "env"
  /\ LocalIsAnonymous
  /\ made # {} => pc \in AccountPlaces \cup {"returned"}
  /\ pc \in {"account", "new"} <=> pc \in AccountPlaces /\ made = {}
  /\ made # {} => "receiver" \in made
  /\ pc = "with" => "clone" \notin made
  /\ pc = "leaving" => asked.client \in made

\* What ClientsApart says of a step.
Apart ==
  \A c, d \in Which :
    c # d /\ d \in made /\ cli'[c] # cli[c] =>
      /\ cli'[d] = cli[d]
      /\ wrapped'[cli[d].httpClient] = wrapped[cli[d].httpClient]

LEMMA ActsType == MaxActs \in Nat
BY ActsAssumption DEF ActsAssumption

LEMMA ActsLeft ==
  ASSUME AccountTypeOK, NEW n \in Nat, Acts(n)
  PROVE  left' \in 0 .. MaxActs
BY ActsType DEF Acts, AccountTypeOK

LEMMA RetriesType == MaxRetries \in Nat
BY RetriesAssumption DEF RetriesAssumption

\* At most the token and the organization of client d are others, and no token comes from
\* the environment again.
Changes(d) ==
  /\ cli' \in [Which -> Records]
  /\ \A c \in Which \ {d} : cli'[c] = cli[c]
  /\ cli'[d].baseURL = cli[d].baseURL /\ cli'[d].maxRetries = cli[d].maxRetries
  /\ cli'[d].supplied = cli[d].supplied /\ cli'[d].httpClient = cli[d].httpClient
  /\ cli'[d].gen = cli[d].gen
  /\ cli'[d].apiKey = "env" => cli[d].apiKey = "env"

LEMMA KeptChanges ==
  ASSUME cli \in [Which -> Records], UNCHANGED cli, NEW d \in Which
  PROVE  Changes(d)
BY DEF Changes

LEMMA TokenChanges ==
  ASSUME cli \in [Which -> Records], NEW d \in Which, NEW k \in Keys \ {"env"}, UseToken(d, k)
  PROVE  /\ Changes(d)
         /\ cli'[d].organizationID = cli[d].organizationID
<1>1. cli' = [cli EXCEPT ![d] = [cli[d] EXCEPT !.apiKey = k]]
  BY DEF UseToken
<1>2. [cli[d] EXCEPT !.apiKey = k] \in Records
  BY DEF Records, Keys
<1> QED BY <1>1, <1>2 DEF Changes, Records

LEMMA OrganizationChanges ==
  ASSUME cli \in [Which -> Records], NEW d \in Which, NEW o \in Orgs, SetOrganizationID(d, o)
  PROVE  /\ Changes(d)
         /\ cli'[d].apiKey = cli[d].apiKey
<1>1. cli' = [cli EXCEPT ![d] = [cli[d] EXCEPT !.organizationID = o]]
  BY DEF SetOrganizationID
<1>2. [cli[d] EXCEPT !.organizationID = o] \in Records
  BY DEF Records
<1> QED BY <1>1, <1>2 DEF Changes, Records

\* A change of a token or an organization leaves each client as it was made.
LEMMA ChangesKeep ==
  ASSUME AccountInv, NEW d \in Which, Changes(d), UNCHANGED <<made, wrapped>>
  PROVE  /\ \A c \in Which : IF c \in made' THEN Made(c)' ELSE Unmade(c)'
         /\ \A c \in Which : cli'[c].baseURL = "worker" => cli'[c].apiKey # "env"
         /\ Apart
<1>0. Apart
  BY DEF Changes, Apart
<1>1. SUFFICES ASSUME NEW c \in Which
               PROVE  /\ Made(c) => Made(c)'
                      /\ Unmade(c) => Unmade(c)'
                      /\ cli'[c].baseURL = "worker" => cli'[c].apiKey # "env"
  BY <1>0 DEF AccountInv
<1>2. /\ cli'[c].baseURL = cli[c].baseURL /\ cli'[c].maxRetries = cli[c].maxRetries
      /\ cli'[c].supplied = cli[c].supplied /\ cli'[c].httpClient = cli[c].httpClient
      /\ cli'[c].gen = cli[c].gen
      /\ cli'[c].apiKey = "env" => cli[c].apiKey = "env"
  BY DEF Changes
<1> QED BY <1>2 DEF Made, Unmade, Core, AccountInv

\* What the headers of a request say, and what may change while they are read.
LEMMA HeadersSay ==
  ASSUME AccountTypeOK, NEW c \in Which, NEW d \in Which, NEW server \in Hosts,
         NEW n \in {0, 1}, Headers(c, d, server, n)
  PROVE  /\ asked' \in [client : Which, server : Hosts, key : Keys \cup {"torn"},
                        org : Orgs \cup {"torn"}]
         /\ asked'.client = c /\ asked'.server = server
         /\ asked'.key = "env" => cli[d].apiKey = "env"
         /\ cli'[d].apiKey = cli[d].apiKey => asked'.key = cli[d].apiKey
         /\ cli'[d].organizationID = cli[d].organizationID => asked'.org = cli[d].organizationID
         /\ Changes(d)
         /\ left' \in 0 .. MaxActs
<1> DEFINE Says(k, o) == asked' = Built(c, server, k, o)
           key == cli[d].apiKey
           org == cli[d].organizationID
<1>0. cli \in [Which -> Records] /\ key \in Keys /\ org \in Orgs
  BY DEF AccountTypeOK, Records
<1>1. ASSUME NEW m \in Nat, Acts(m)
      PROVE  left' \in 0 .. MaxActs
  BY <1>1, ActsLeft
<1>s. ASSUME NEW k \in Keys \cup {"torn"}, NEW o \in Orgs \cup {"torn"}, Says(k, o)
      PROVE  /\ asked' \in [client : Which, server : Hosts, key : Keys \cup {"torn"},
                            org : Orgs \cup {"torn"}]
             /\ asked'.client = c /\ asked'.server = server
             /\ asked'.key = k /\ asked'.org = o
  BY <1>s DEF Built
<1>2. CASE Says(key, org) /\ UNCHANGED cli /\ Acts(n)
  <2>1. Changes(d)
    BY <1>0, <1>2, KeptChanges
  <2> QED BY <1>0, <1>1, <1>2, <1>s, <2>1
<1>3. CASE key # "given" /\ UseToken(d, "given") /\ Acts(n + 1)
             /\ \E k \in Raced(key, "given") : Says(k, org)
  <2>1. Changes(d) /\ cli'[d].organizationID = org
    BY <1>0, <1>3, TokenChanges DEF Keys
  <2>2. cli'[d].apiKey = "given"
    BY <1>0, <1>3 DEF UseToken, Records
  <2>3. left' \in 0 .. MaxActs
    BY <1>1, <1>3
  <2>4. PICK k \in {key, "given", "torn"} : Says(k, org)
    BY <1>3 DEF Raced
  <2>5. k \in Keys \cup {"torn"} /\ (k = "env" => key = "env")
    BY <1>0 DEF Keys
  <2> QED BY <1>0, <1>3, <1>s, <2>1, <2>2, <2>3, <2>4, <2>5
<1>4. CASE org # "org" /\ SetOrganizationID(d, "org") /\ Acts(n + 1)
             /\ \E o \in Raced(org, "org") : Says(key, o)
  <2>1. Changes(d) /\ cli'[d].apiKey = key
    BY <1>0, <1>4, OrganizationChanges DEF Orgs
  <2>2. cli'[d].organizationID = "org"
    BY <1>0, <1>4 DEF SetOrganizationID, Records
  <2>3. left' \in 0 .. MaxActs
    BY <1>1, <1>4
  <2>4. PICK o \in {org, "org", "torn"} : Says(key, o)
    BY <1>4 DEF Raced
  <2>5. o \in Orgs \cup {"torn"}
    BY <1>0 DEF Orgs
  <2> QED BY <1>0, <1>4, <1>s, <2>1, <2>2, <2>3, <2>4, <2>5
<1> QED BY <1>2, <1>3, <1>4 DEF Headers

\* Every request of a made client goes to its own host, says what that client's fields
\* say, and is retried as often as its http.Client retries.
Requests(c) ==
  /\ Headers(c, c, cli[c].baseURL, 1) \/ Headers(c, c, cli[c].baseURL, 0)
  /\ IssueOver(wrapped[cli[c].httpClient])
  /\ UNCHANGED <<made, wrapped>>

LEMMA GeneratedRequests ==
  ASSUME AccountInv, NEW c \in made, NEW p, UNCHANGED <<made, wrapped>>,
         Generated(c, p) \/ Direct(c, p, 1) \/ Direct(c, p, 0)
  PROVE  Requests(c) /\ pc' = p /\ ret' = "none"
<1>1. Made(c)
  BY DEF AccountInv, AccountTypeOK
<1>2. cli[c].gen.client = c /\ cli[c].gen.server = cli[c].baseURL /\ cli[c].gen.doer = cli[c].httpClient
  BY <1>1 DEF Made, Core
<1> QED BY <1>2 DEF Generated, Direct, Requests

LEMMA FromFields ==
  ASSUME NEW key \in Keys, NEW host \in Hosts
  PROVE  /\ From(key, host) \in Records
         /\ From(key, host).httpClient = "nil"
         /\ From(key, host).baseURL = host
<1>1. NoGen \in Cores
  BY DEF NoGen, Cores, Hosts, Which, Doers
<1> QED BY <1>1, RetriesType DEF From, Records, Orgs

LEMMA AccountStarts == Init => AccountInv
<1> SUFFICES ASSUME Init
             PROVE  AccountInv
    OBVIOUS
<1>1. cli = [c \in Which |-> Fresh] /\ wrapped = [h \in Doers |-> 0] /\ asked = NoRequest
      /\ made = {} /\ left = MaxActs /\ pc \in Programs
  BY DEF Init, AccountInit
<1>2. Fresh \in Records /\ Fresh.httpClient = "nil" /\ Fresh.baseURL = "cloud"
  BY FromFields DEF Fresh, Keys, Hosts
<1>3. wrapped \in [Doers -> 0 .. MaxRetries] /\ \A c \in Which : wrapped[c] = 0
  BY <1>1, RetriesType DEF Doers
<1>4. /\ asked \in [client : Which, server : Hosts, key : Keys \cup {"torn"}, org : Orgs \cup {"torn"}]
      /\ asked.server = "cloud"
  BY <1>1 DEF NoRequest, Which, Hosts, Keys, Orgs
<1>5. AccountTypeOK
  BY <1>1, <1>2, <1>3, <1>4, ActsType DEF AccountTypeOK
<1>6. \A c \in Which : cli[c].httpClient = "nil" /\ cli[c].baseURL = "cloud"
  BY <1>1, <1>2
<1>7. \A c \in Which : Unmade(c)
  BY <1>3, <1>6 DEF Unmade
<1> QED BY <1>1, <1>4, <1>5, <1>6, <1>7 DEF AccountInv, LocalIsAnonymous, Programs, AccountPlaces

\* The other programs have no clients.
AccountElsewhere ==
  /\ UNCHANGED accountVars
  /\ \/ pc' = pc
     \/ /\ pc \notin AccountPlaces \cup {"returned"}
        /\ pc' \notin AccountPlaces

LEMMA AccountElsewhereSteps ==
  ASSUME Requesting \/ Ending \/ Tools \/ Solving \/ Streaming \/ UNCHANGED vars
  PROVE  AccountElsewhere
<1>1. CASE Requesting \/ Ending \/ UNCHANGED vars
  BY <1>1 DEF AccountElsewhere, Requesting, Ending, vars, accountVars
<1>2. CASE Tools
  BY <1>2 DEF AccountElsewhere, AccountPlaces, Tools, ToolLoopStep, Registering, Register, RunTools,
     Ask, Answer, AskFailed, Invoke, InvokeMissing, Feed, TurnOver
<1>3. CASE Solving
  BY <1>3 DEF AccountElsewhere, AccountPlaces, Solving, SolveStep, Solve, SolveFailed, Decoded, Poll,
     PollRefused, PollFailed, WaitEnded, StartJob, ReadJob, JobEnds, Returns
<1>4. CASE Streaming
  BY <1>4 DEF AccountElsewhere, AccountPlaces, Streaming, OpenStep, OpenStream, Opened, OpenRefused,
     OpenFailed, ReaderStep, TimedOut, ReadBroken, ReadStopped, StopsReading, SendEvent, SendFinal,
     FinalSkipped, ConsumerStep, Receive, Collected, Leave, StreamServer, ReadFrame, ReadDone,
     ReadEnd, Reads
<1> QED BY <1>1, <1>2, <1>3, <1>4

\* An option keeps what is known of a client that is not made yet.
LEMMA OptionKept ==
  ASSUME NEW r \in Records, NEW q \in Options(r)
  PROVE  /\ q \in Records
         /\ q.httpClient \in {r.httpClient, "caller", "nil"}
         /\ ~q.supplied => ~r.supplied /\ q.httpClient = r.httpClient
         /\ (r.baseURL = "worker" => r.apiKey # "env") => (q.baseURL = "worker" => q.apiKey # "env")
<1> USE DEF Records, Keys, Hosts, Orgs, Doers
<1>1. CASE q = WithAPIKey(r)
  BY <1>1 DEF WithAPIKey
<1>2. CASE q = WithBaseURL(r)
  BY <1>2 DEF WithBaseURL
<1>3. CASE q = WithLocalWorker(r)
  BY <1>3 DEF WithLocalWorker
<1>4. CASE q = WithOrganizationID(r)
  BY <1>4 DEF WithOrganizationID
<1>5. CASE q \in {WithHTTPClient(r, "caller"), WithHTTPClient(r, "nil")}
  BY <1>5 DEF WithHTTPClient
<1>6. CASE \E n \in 0 .. MaxRetries : q = WithMaxRetries(r, n)
  BY <1>6 DEF WithMaxRetries
<1> QED BY <1>1, <1>2, <1>3, <1>4, <1>5, <1>6 DEF Options

\* What a step at one client does to what is known of all.
LEMMA OneClient ==
  ASSUME AccountInv, NEW c \in Which, NEW r \in Records, cli' = [cli EXCEPT ![c] = r],
         r.baseURL = "worker" => r.apiKey # "env"
  PROVE  /\ cli' \in [Which -> Records]
         /\ cli'[c] = r
         /\ \A d \in Which \ {c} : cli'[d] = cli[d]
         /\ \A d \in Which : cli'[d].baseURL = "worker" => cli'[d].apiKey # "env"
BY DEF AccountInv, AccountTypeOK

LEMMA NewKeeps ==
  ASSUME AccountInv, New
  PROVE  AccountInv' /\ Apart
<1>1. PICK key \in {"", "env"}, host \in {"cloud", "other"} :
        cli' = [cli EXCEPT !["receiver"] = From(key, host)]
  BY DEF New, Fresh
<1> DEFINE r == From(key, host)
<1>2. r \in Records /\ r.httpClient = "nil" /\ r.baseURL # "worker"
  BY FromFields DEF Keys, Hosts
<1> HIDE DEF r
<1>3. made = {} /\ made' = made /\ pc' = "new" /\ UNCHANGED <<wrapped, asked, left>>
  BY DEF New, AccountInv
<1>4. /\ cli' \in [Which -> Records] /\ cli'["receiver"] = r
      /\ \A d \in Which \ {"receiver"} : cli'[d] = cli[d]
      /\ \A d \in Which : cli'[d].baseURL = "worker" => cli'[d].apiKey # "env"
  BY <1>1, <1>2, OneClient DEF Which, r
<1>5. \A d \in Which : Unmade(d)'
  BY <1>2, <1>3, <1>4 DEF AccountInv, Unmade
<1>6. Apart
  BY <1>3 DEF Apart
<1> QED BY <1>3, <1>4, <1>5, <1>6 DEF AccountInv, AccountTypeOK, AccountPlaces, LocalIsAnonymous, New

LEMMA OptionKeeps ==
  ASSUME AccountInv, NEW c \in Which, Option(c)
  PROVE  AccountInv' /\ Apart
<1>1. PICK q \in Options(cli[c]) : cli' = [cli EXCEPT ![c] = q]
  BY DEF Option
<1>2. cli[c] \in Records /\ Unmade(c) /\ c \notin made
  BY DEF AccountInv, AccountTypeOK, Option, Configures
<1>3. /\ q \in Records
      /\ q.httpClient \in {cli[c].httpClient, "caller", "nil"}
      /\ ~q.supplied => ~cli[c].supplied /\ q.httpClient = cli[c].httpClient
      /\ q.baseURL = "worker" => q.apiKey # "env"
  BY <1>2, OptionKept DEF AccountInv
<1>4. /\ cli' \in [Which -> Records] /\ cli'[c] = q
      /\ \A d \in Which \ {c} : cli'[d] = cli[d]
      /\ \A d \in Which : cli'[d].baseURL = "worker" => cli'[d].apiKey # "env"
  BY <1>1, <1>3, OneClient
<1>5. UNCHANGED <<pc, made, wrapped, asked>> /\ left' \in 0 .. MaxActs
  BY ActsLeft DEF Option, AccountInv
<1>6. Unmade(c)'
  BY <1>2, <1>3, <1>4, <1>5 DEF Unmade
<1>7. \A d \in Which \ {c} : (Made(d) => Made(d)') /\ (Unmade(d) => Unmade(d)')
  BY <1>4, <1>5 DEF Made, Unmade
<1>8. Apart
  BY <1>4, <1>5 DEF Apart
<1> QED BY <1>2, <1>4, <1>5, <1>6, <1>7, <1>8 DEF AccountInv, AccountTypeOK, LocalIsAnonymous

LEMMA FinalizeKeeps ==
  ASSUME AccountInv, NEW c \in Which, Finalize(c)
  PROVE  AccountInv' /\ Apart
<1> DEFINE r    == cli[c]
           own  == r.httpClient = "nil" \/ ~r.supplied
           doer == IF r.httpClient = "nil" THEN c ELSE r.httpClient
           q    == [r EXCEPT !.httpClient = doer, !.gen = Core(r, doer, c)]
<1>1. r \in Records /\ Unmade(c) /\ c \notin made /\ (made # {} => c = "clone") /\ wrapped \in [Doers -> 0 .. MaxRetries]
  BY DEF AccountInv, AccountTypeOK, Finalize, Configures
<1>2. /\ cli' = [cli EXCEPT ![c] = q]
      /\ wrapped' = IF own /\ r.maxRetries > 0 THEN [wrapped EXCEPT ![doer] = r.maxRetries] ELSE wrapped
      /\ made' = made \cup {c}
      /\ pc' = "idle"
      /\ UNCHANGED <<asked, left>>
  BY DEF Finalize
<1>3. own <=> r.httpClient = "nil"
  BY <1>1 DEF Unmade
<1>4. doer \in Doers /\ doer \in {c, "caller", "receiver"}
  BY <1>1 DEF Unmade, Doers, Which
<1>5. /\ Core(r, doer, c) \in Cores
      /\ Core(r, doer, c).server = r.baseURL
  BY <1>1, <1>4 DEF Core, Cores, Records
<1>6. /\ q \in Records /\ q.httpClient = doer /\ q.gen = Core(r, doer, c)
      /\ q.baseURL = r.baseURL /\ q.apiKey = r.apiKey /\ q.maxRetries = r.maxRetries
      /\ q.supplied = r.supplied
  BY <1>1, <1>4, <1>5 DEF Records
<1> HIDE DEF q
<1>7. Core(q, doer, c) = Core(r, doer, c)
  BY <1>6 DEF Core
<1>8. /\ cli' \in [Which -> Records] /\ cli'[c] = q
      /\ \A d \in Which \ {c} : cli'[d] = cli[d]
      /\ \A d \in Which : cli'[d].baseURL = "worker" => cli'[d].apiKey # "env"
  <2>1. q.baseURL = "worker" => q.apiKey # "env"
    BY <1>6 DEF AccountInv
  <2> QED BY <1>2, <1>6, <2>1, OneClient
<1>9. /\ wrapped' \in [Doers -> 0 .. MaxRetries]
      /\ \A h \in Doers \ {c} : wrapped'[h] = wrapped[h]
      /\ ~r.supplied => wrapped'[c] = r.maxRetries
  <2>1. CASE own /\ r.maxRetries > 0
    <3>1. wrapped' = [wrapped EXCEPT ![c] = r.maxRetries] /\ r.maxRetries \in 0 .. MaxRetries
      BY <1>1, <1>2, <1>3, <2>1 DEF Records
    <3> QED BY <1>1, <3>1 DEF Doers
  <2>2. CASE ~(own /\ r.maxRetries > 0)
    <3>1. wrapped' = wrapped
      BY <1>2, <2>2
    <3>2. ~r.supplied => r.maxRetries = 0
      BY <1>1, <2>2, RetriesType DEF Records
    <3> QED BY <1>1, <3>1, <3>2 DEF Unmade
  <2> QED BY <2>1, <2>2
<1>10. Made(c)'
  <2>1. ~r.supplied => doer = c
    BY <1>3
  <2> QED BY <1>4, <1>6, <1>7, <1>8, <1>9, <2>1 DEF Made
<1>11. \A d \in Which \ {c} : (Made(d) => Made(d)') /\ (Unmade(d) => Unmade(d)')
  BY <1>8, <1>9 DEF Made, Unmade, Doers
<1>12. c = "receiver" \/ "receiver" \in made
  BY DEF Finalize, Configures, AccountInv, AccountPlaces
<1>13. Apart
  <2>1. ASSUME NEW d \in made
        PROVE  d # c /\ cli[d].httpClient \in Doers \ {c}
    BY <1>1, <1>12, <2>1 DEF AccountInv, AccountTypeOK, Made, Doers, Which
  <2> QED BY <1>8, <1>9, <2>1 DEF Apart
<1> QED BY <1>1, <1>2, <1>8, <1>9, <1>10, <1>11, <1>12, <1>13
        DEF AccountInv, AccountTypeOK, AccountPlaces, LocalIsAnonymous

LEMMA WithOptionsKeeps ==
  ASSUME AccountInv, WithOptions
  PROVE  AccountInv' /\ Apart
<1> DEFINE r == cli["receiver"]
           q == [r EXCEPT !.httpClient = IF r.supplied THEN @ ELSE "nil"]
<1>1. r \in Records /\ Unmade("clone") /\ pc = "idle" /\ "clone" \notin made
  BY DEF WithOptions, AccountInv, AccountTypeOK, Which
<1>2. cli' = [cli EXCEPT !["clone"] = q] /\ pc' = "with" /\ UNCHANGED <<made, wrapped, asked>>
  BY DEF WithOptions
<1>3. "receiver" \in Which /\ (made # {} => made = {"receiver"})
  BY <1>1 DEF AccountInv, AccountTypeOK, Which
<1>4. q \in Records /\ q.httpClient \in {"nil", "caller", "receiver"} /\ q.supplied = r.supplied
      /\ (~q.supplied => q.httpClient = "nil") /\ (q.baseURL = "worker" => q.apiKey # "env")
  <2>1. r.httpClient \in {"receiver", "caller"} /\ (r.baseURL = "worker" => r.apiKey # "env")
    BY <1>1, <1>3 DEF AccountInv, Made, AccountPlaces
  <2>2. CASE r.supplied
    <3>1. q = r
      BY <1>1, <2>2 DEF Records
    <3> QED BY <1>1, <2>1, <2>2, <3>1
  <2>3. CASE ~r.supplied
    BY <1>1, <2>1, <2>3 DEF Records, Doers
  <2> QED BY <2>2, <2>3
<1> HIDE DEF q
<1>5. /\ cli' \in [Which -> Records] /\ cli'["clone"] = q
      /\ \A d \in Which \ {"clone"} : cli'[d] = cli[d]
      /\ \A d \in Which : cli'[d].baseURL = "worker" => cli'[d].apiKey # "env"
  BY <1>2, <1>4, OneClient DEF Which
<1>6. Unmade("clone")'
  BY <1>1, <1>2, <1>4, <1>5 DEF Unmade
<1>7. Made("receiver") => Made("receiver")'
  BY <1>2, <1>3, <1>5 DEF Made
<1>8. left' \in 0 .. MaxActs
  BY ActsLeft DEF WithOptions, AccountInv
<1>9. Apart
  BY <1>2, <1>5 DEF Apart
<1> QED BY <1>1, <1>2, <1>3, <1>5, <1>6, <1>7, <1>8, <1>9
        DEF AccountInv, AccountTypeOK, AccountPlaces, LocalIsAnonymous, Which

\* What a step of a made client does besides: at most a token and an organization change.
LEMMA ChangeStepKeeps ==
  ASSUME AccountInv, NEW d \in Which, Changes(d), UNCHANGED <<made, wrapped>>,
         left' \in 0 .. MaxActs,
         asked' \in [client : Which, server : Hosts, key : Keys \cup {"torn"}, org : Orgs \cup {"torn"}],
         LocalIsAnonymous',
         made # {}, pc' \in (AccountPlaces \ {"account", "new", "with"}) \cup {"returned"},
         pc' = "leaving" => asked'.client \in made
  PROVE  AccountInv' /\ Apart
<1>1. /\ \A c \in Which : IF c \in made' THEN Made(c)' ELSE Unmade(c)'
      /\ \A c \in Which : cli'[c].baseURL = "worker" => cli'[c].apiKey # "env"
      /\ Apart
  BY ChangesKeep
<1>2. cli' \in [Which -> Records]
  BY DEF Changes
<1> QED BY <1>1, <1>2 DEF AccountInv, AccountTypeOK

LEMMA RequestsKeep ==
  ASSUME AccountInv, NEW c \in made, Requests(c), pc' \in {"login", "fetch", "logout", "raw"}
  PROVE  AccountInv' /\ Apart
<1>1. c \in Which /\ cli[c] \in Records /\ cli[c].baseURL \in Hosts
  BY DEF AccountInv, AccountTypeOK, Records
<1>2. PICK n \in {0, 1} : Headers(c, c, cli[c].baseURL, n)
  BY DEF Requests
<1>3. /\ asked' \in [client : Which, server : Hosts, key : Keys \cup {"torn"}, org : Orgs \cup {"torn"}]
      /\ asked'.server = cli[c].baseURL
      /\ asked'.key = "env" => cli[c].apiKey = "env"
      /\ Changes(c)
      /\ left' \in 0 .. MaxActs
  BY <1>1, <1>2, HeadersSay DEF AccountInv
<1>4. LocalIsAnonymous'
  BY <1>1, <1>3 DEF AccountInv, LocalIsAnonymous
<1> QED BY <1>1, <1>3, <1>4, ChangeStepKeeps DEF Requests, AccountPlaces

LEMMA CallKeeps ==
  ASSUME AccountInv, NEW c \in made, CallOn(c)
  PROVE  AccountInv' /\ Apart
<1>1. c \in Which /\ UNCHANGED <<made, wrapped>> /\ pc = "idle" /\ cli \in [Which -> Records]
      /\ LocalIsAnonymous
  BY DEF CallOn, AccountInv, AccountTypeOK
<1>2. ASSUME NEW p \in {"login", "fetch", "raw"}, Generated(c, p) \/ Direct(c, p, 1)
      PROVE  AccountInv' /\ Apart
  BY <1>1, <1>2, GeneratedRequests, RequestsKeep
<1>3. ASSUME NEW how, Here(how), NEW d \in Which, Changes(d)
      PROVE  AccountInv' /\ Apart
  <2>1. left' \in 0 .. MaxActs /\ asked' = asked /\ pc' = "idle"
    BY <1>1, <1>3, ActsLeft DEF Here, AccountInv
  <2> QED BY <1>1, <1>3, <2>1, ChangeStepKeeps DEF AccountInv, AccountTypeOK, AccountPlaces, LocalIsAnonymous
<1>4. CASE Refused
  BY <1>1, <1>3, <1>4, KeptChanges DEF Refused
<1>5. CASE SetOrganizationID(c, "org") /\ Here("ok")
  BY <1>1, <1>3, <1>5, OrganizationChanges DEF Orgs
<1>6. CASE Logout(c)
  <2>1. Changes(c)
    BY <1>1, <1>6, TokenChanges DEF Logout, Keys
  <2>2. left' \in 0 .. MaxActs /\ pc' = "leaving"
    BY <1>6, ActsLeft DEF Logout, AccountInv
  <2>3. /\ asked' \in [client : Which, server : Hosts, key : Keys \cup {"torn"}, org : Orgs \cup {"torn"}]
        /\ asked'.server = asked.server /\ asked'.key = asked.key /\ asked'.client = c
    BY <1>1, <1>6 DEF Logout, AccountInv, AccountTypeOK
  <2>4. LocalIsAnonymous'
    BY <1>1, <2>3 DEF LocalIsAnonymous
  <2> QED BY <1>1, <2>1, <2>2, <2>3, <2>4, ChangeStepKeeps DEF AccountPlaces
<1> QED BY <1>2, <1>4, <1>5, <1>6
        DEF CallOn, Login, Registration, Me, Refresh, Tenant, SwitchOrganization, Rag, Billing, Fleet,
            CountTokens, Models, DoRaw

LEMMA EndKeeps ==
  ASSUME AccountInv, NEW how, Ends(how), pc \in {"login", "fetch", "logout", "raw"},
         UNCHANGED cli \/ UseToken(asked.client, "granted")
  PROVE  AccountInv' /\ Apart
<1>1. asked.client \in Which /\ cli \in [Which -> Records] /\ left \in 0 .. MaxActs /\ made # {}
  BY DEF AccountInv, AccountTypeOK, AccountPlaces
<1>2. /\ asked' \in [client : Which, server : Hosts, key : Keys \cup {"torn"}, org : Orgs \cup {"torn"}]
      /\ asked'.server = "cloud"
  BY DEF Ends, NoRequest, Which, Hosts, Keys, Orgs
<1>3. Changes(asked.client)
  BY <1>1, KeptChanges, TokenChanges DEF Keys
<1> QED BY <1>1, <1>2, <1>3, ChangeStepKeeps DEF Ends, AccountPlaces, LocalIsAnonymous

LEMMA RotatesKeeps ==
  ASSUME AccountInv, NEW c \in Which, Rotates(c)
  PROVE  AccountInv' /\ Apart
<1>1. cli \in [Which -> Records] /\ UNCHANGED <<pc, made, wrapped, asked>>
  BY DEF Rotates, AccountInv, AccountTypeOK
<1>2. Changes(c)
  BY <1>1, TokenChanges, OrganizationChanges DEF Rotates, Keys, Orgs
<1>3. left' \in 0 .. MaxActs
  BY ActsLeft DEF Rotates, AccountInv
<1>4. /\ \A d \in Which : IF d \in made' THEN Made(d)' ELSE Unmade(d)'
      /\ \A d \in Which : cli'[d].baseURL = "worker" => cli'[d].apiKey # "env"
      /\ Apart
  BY <1>1, <1>2, ChangesKeep
<1>5. cli' \in [Which -> Records]
  BY <1>2 DEF Changes
<1> QED BY <1>1, <1>2, <1>3, <1>4, <1>5 DEF AccountInv, AccountTypeOK, LocalIsAnonymous

LEMMA AccountKept == AccountInv /\ [Next]_vars => AccountInv' /\ Apart
<1> SUFFICES ASSUME AccountInv, [Next]_vars
             PROVE  AccountInv' /\ Apart
    OBVIOUS
<1>1. CASE Requesting \/ Ending \/ Tools \/ Solving \/ Streaming \/ UNCHANGED vars
  <2>1. AccountElsewhere
    BY <1>1, AccountElsewhereSteps
  <2> QED BY <2>1 DEF AccountElsewhere, AccountPlaces, AccountInv, accountVars, AccountTypeOK, Made,
                      Unmade, LocalIsAnonymous, Apart
<1>2. CASE New
  BY <1>2, NewKeeps
<1>3. CASE \E c \in Which : Option(c)
  BY <1>3, OptionKeeps
<1>4. CASE \E c \in Which : Finalize(c)
  BY <1>4, FinalizeKeeps
<1>5. CASE \E c \in Which : CallOn(c)
  BY <1>5, CallKeeps DEF CallOn
<1>6. CASE WithOptions
  BY <1>6, WithOptionsKeeps
<1>7. CASE LogoutSends
  <2>1. asked.client \in made
    BY <1>7 DEF LogoutSends, AccountInv
  <2>2. Requests(asked.client) /\ pc' = "logout"
    BY <1>7, <2>1, GeneratedRequests DEF LogoutSends
  <2> QED BY <2>1, <2>2, RequestsKeep
<1>8. CASE Failed \/ LoggedIn \/ Answered \/ LoggedOut \/ RawReturned
  <2>1. /\ \E how : Ends(how)
        /\ UNCHANGED cli \/ UseToken(asked.client, "granted")
        /\ pc \in {"login", "fetch", "logout", "raw"}
    BY <1>8 DEF Failed, LoggedIn, Answered, LoggedOut, RawReturned
  <2> QED BY <2>1, EndKeeps
<1>9. CASE Leaves
  BY <1>9 DEF Leaves, AccountPlaces, AccountInv, accountVars, AccountTypeOK, Made,
              Unmade, LocalIsAnonymous, Apart
<1>10. CASE \E c \in Which : Rotates(c)
  BY <1>10, RotatesKeeps
<1> QED BY <1>1, <1>2, <1>3, <1>4, <1>5, <1>6, <1>7, <1>8, <1>9, <1>10
        DEF Next, Accounting, AccountStep

LEMMA AccountHolds == Spec => []AccountInv
BY AccountStarts, AccountKept, PTL DEF Spec

\* No request to a local worker says the token of the environment.
THEOREM AnonymousTheorem == Spec => []LocalIsAnonymous
<1>1. AccountInv => LocalIsAnonymous
  BY DEF AccountInv
<1> QED BY AccountHolds, <1>1, PTL

\* What happens to one client changes nothing of another one that was made.
THEOREM ApartTheorem == Spec => ClientsApart
<1>1. AccountInv /\ [Next]_vars => [Apart]_<<cli, wrapped>>
  BY AccountKept
<1>2. [Apart]_<<cli, wrapped>> =>
        [\A c, d \in Which :
           c # d /\ d \in made /\ cli'[c] # cli[c] =>
             /\ cli'[d] = cli[d]
             /\ wrapped'[cli[d].httpClient] = wrapped[cli[d].httpClient]]_<<cli, wrapped>>
  BY DEF Apart
<1> QED BY AccountHolds, <1>1, <1>2, PTL DEF Spec, ClientsApart

\* What OwnRequest says of a request that is sent in the name of client c.
Own(c) ==
  /\ asked'.server = cli[c].baseURL
  /\ cli'[c].apiKey = cli[c].apiKey => asked'.key = cli[c].apiKey
  /\ cli'[c].organizationID = cli[c].organizationID => asked'.org = cli[c].organizationID
  /\ Promised(cli[c])

LEMMA RequestsOwn ==
  ASSUME AccountInv, NEW c \in made, Requests(c)
  PROVE  asked'.client = c /\ Own(c)
<1>1. c \in Which /\ cli[c].baseURL \in Hosts /\ Made(c)
  BY DEF AccountInv, AccountTypeOK, Records
<1>2. PICK n \in {0, 1} : Headers(c, c, cli[c].baseURL, n)
  BY DEF Requests
<1>3. Promised(cli[c])
  BY <1>1 DEF Requests, IssueOver, Promised, Made
<1> QED BY <1>1, <1>2, <1>3, HeadersSay DEF AccountInv, Own

\* Only the calls of clients send requests once there is one.
LEMMA OnlyClientsSend ==
  ASSUME AccountInv, [Next]_vars, Sends, made # {}
  PROVE  \E c \in made : Requests(c)
<1> USE DEF Sends
<1>0. pc \in AccountPlaces \cup {"returned"}
  BY DEF AccountInv
<1>1. CASE Requesting \/ Ending \/ UNCHANGED vars
  BY <1>1 DEF Requesting, RequestStep, StartAttempt, StartEnded, Aborted, BackoffOver, BackoffEnded,
     ServerStep, AnswerReturned, AnswerRetried, Broken, Reading, ReadBody, BodyBroken,
     BodyAborted, BodyUnread, CarriedOut, CarryOut, TimeOut, EndsWith, Ending, EndContext, vars, request
<1>2. CASE Tools
  BY <1>0, <1>2 DEF AccountPlaces, Tools, ToolLoopStep, Registering, Register, RunTools, Ask, Answer,
     AskFailed, Invoke, InvokeMissing, Feed, TurnOver, request
<1>3. CASE Solving
  BY <1>0, <1>3 DEF AccountPlaces, Solving, SolveStep, Solve, SolveFailed, Decoded, Poll,
     PollRefused, PollFailed, WaitEnded, StartJob, ReadJob, JobEnds, request
<1>4. CASE Streaming
  BY <1>0, <1>4 DEF AccountPlaces, Streaming, OpenStep, OpenStream, Opened, OpenRefused,
     OpenFailed, ReaderStep, TimedOut, ReadBroken, ReadStopped, StopsReading, SendEvent, SendFinal,
     FinalSkipped, ConsumerStep, Receive, Collected, Leave, StreamServer, ReadFrame, ReadDone,
     ReadEnd, Reads, request
<1>5. CASE New \/ (\E c \in Which : Option(c) \/ Finalize(c) \/ Rotates(c)) \/ WithOptions \/ Leaves
  BY <1>5 DEF New, Option, Finalize, Rotates, WithOptions, Leaves, request
<1>6. CASE Failed \/ LoggedIn \/ Answered \/ LoggedOut \/ RawReturned
  BY <1>6 DEF Failed, LoggedIn, Answered, LoggedOut, RawReturned, Take, Clear
<1>7. CASE LogoutSends
  BY <1>7, GeneratedRequests DEF LogoutSends, AccountInv
<1>8. CASE \E c \in Which : CallOn(c)
  <2>1. PICK c \in made : CallOn(c)
    BY <1>8 DEF CallOn
  <2>2. ~Refused /\ ~(\E how : Here(how)) /\ ~Logout(c)
    BY DEF Refused, Here, Logout, request
  <2>3. \E p : Generated(c, p) \/ Direct(c, p, 1)
    BY <2>1, <2>2 DEF CallOn, Login, Registration, Me, Refresh, Tenant, SwitchOrganization, Rag,
       Billing, Fleet, CountTokens, Models, DoRaw
  <2> QED BY <2>1, <2>3, GeneratedRequests DEF CallOn
<1> QED BY <1>1, <1>2, <1>3, <1>4, <1>5, <1>6, <1>7, <1>8 DEF Next, Accounting, AccountStep

\* A client's request goes to its own host, with its own token, organization and retries.
THEOREM OwnTheorem == Spec => OwnRequest
<1>1. AccountInv /\ [Next]_vars =>
        [\A c \in made :
           Sends /\ asked'.client = c =>
             /\ asked'.server = cli[c].baseURL
             /\ cli'[c].apiKey = cli[c].apiKey => asked'.key = cli[c].apiKey
             /\ cli'[c].organizationID = cli[c].organizationID =>
                  asked'.org = cli[c].organizationID
             /\ Promised(cli[c])]_<<phase, accountVars>>
  <2> SUFFICES ASSUME AccountInv, [Next]_vars, NEW c \in made, Sends, asked'.client = c
               PROVE  Own(c)
      BY DEF Own
  <2>1. PICK d \in made : Requests(d)
    BY OnlyClientsSend
  <2> QED BY <2>1, RequestsOwn
<1> QED BY AccountHolds, <1>1, PTL DEF Spec, OwnRequest


(***************************************************************************)
(* The request                                                              *)
(***************************************************************************)

\* An attempt takes effect once at most, the attempts are counted, a status is known
\* from the last answer on, and an outcome from the end on.
RequestInv ==
  /\ RequestTypeOK
  /\ done <= attempt + 1
  /\ done <= attempt \/ hit
  /\ hit => done > 0
  /\ phase = "none" => attempt = 0 /\ done = 0 /\ status = "none" /\ outcome = "none"
  /\ phase = "backoff" => attempt < limit
  /\ phase \in {"ready", "flight", "backoff"} => status = "none"
  /\ phase = "reading" => status # "none"
  /\ phase \notin {"none", "over"} => outcome = "none"
  /\ status = "ok" => done > 0
  /\ status = "fatal" => ~hit
  /\ outcome = "ok" => done > 0
  /\ ErrorsTold

\* What a step of a call may do to its request.
HandOver == phase = "reading" /\ phase' = "open"
              /\ UNCHANGED <<due, limit, attempt, hit, done, lastErr, status, outcome>>

Sent == \E n \in 0 .. MaxRetries : IssueOver(n)

RequestMove ==
  \/ Sent \/ Clear \/ HandOver
  \/ RequestStep \/ ServerStep \/ ReadBody \/ BodyBroken \/ BodyAborted
  \/ CarryOut \/ TimeOut
  \/ UNCHANGED request

\* The context ends; the next call of a client has a context of its own.
ContextEnds == ctx = "live" /\ ctx' \in {"cancelled", "expired"}

ContextMove == ctx' = ctx \/ ContextEnds \/ (ctx' = "live" /\ Clear)

LEMMA IssueSends == Issue => Sent
BY RetriesType DEF Issue, Sent

\* What the calls of clients leave alone, and what they do to their request.
LEMMA AccountingSteps ==
  ASSUME AccountInv, Accounting
  PROVE  /\ RequestMove /\ ContextMove
         /\ pc \in AccountPlaces /\ pc' \in AccountPlaces \cup {"returned"}
         /\ ret' \in {ret, "none", "ok", "failed"}
         /\ UNCHANGED <<registry, loopVars, solveVars, streamVars>>
<1> USE DEF AccountPlaces
<1>0. UNCHANGED <<registry, loopVars, solveVars, streamVars>>
  BY DEF Accounting
<1>1. ASSUME NEW c \in made, Requests(c)
      PROVE  RequestMove
  <2>1. wrapped[cli[c].httpClient] \in 0 .. MaxRetries
    BY <1>1 DEF AccountInv, AccountTypeOK, Made, Doers, Which
  <2> QED BY <1>1, <2>1 DEF Requests, RequestMove, Sent
<1>2. CASE New \/ (\E c \in Which : Option(c) \/ Finalize(c) \/ Rotates(c)) \/ WithOptions \/ Leaves
  BY <1>0, <1>2 DEF New, Option, Configures, Finalize, Rotates, WithOptions, Leaves, RequestMove, ContextMove
<1>3. CASE Failed \/ LoggedIn \/ Answered \/ LoggedOut \/ RawReturned
  BY <1>0, <1>3 DEF Failed, LoggedIn, Answered, LoggedOut, RawReturned, Take, Ends, RequestMove, ContextMove
<1>4. CASE LogoutSends
  <2>1. asked.client \in made
    BY <1>4 DEF LogoutSends, AccountInv
  <2>2. Requests(asked.client) /\ pc' = "logout" /\ ret' = "none"
    BY <1>4, <2>1, GeneratedRequests DEF LogoutSends
  <2> QED BY <1>0, <1>1, <1>4, <2>1, <2>2 DEF LogoutSends, ContextMove
<1>5. CASE \E c \in Which : CallOn(c)
  <2>1. PICK c \in made : CallOn(c)
    BY <1>5 DEF CallOn
  <2>2. pc = "idle" /\ ctx' = ctx /\ UNCHANGED <<made, wrapped>>
    BY <2>1 DEF CallOn
  <2>3. ASSUME NEW p \in {"login", "fetch", "raw"}, Generated(c, p) \/ Direct(c, p, 1)
        PROVE  RequestMove /\ pc' = p /\ ret' = "none"
    BY <1>1, <2>2, <2>3, GeneratedRequests
  <2>4. ASSUME NEW how \in {"ok", "failed"}, Here(how)
        PROVE  RequestMove /\ pc' = pc /\ ret' = how
    BY <2>4 DEF Here, RequestMove
  <2>5. CASE Logout(c)
    BY <1>0, <2>2, <2>5 DEF Logout, RequestMove, ContextMove
  <2>6. CASE \E how \in {"ok", "failed"} : Here(how)
    BY <1>0, <2>2, <2>4, <2>6 DEF ContextMove
  <2>7. CASE \E p \in {"login", "fetch", "raw"} : Generated(c, p) \/ Direct(c, p, 1)
    BY <1>0, <2>2, <2>3, <2>7 DEF ContextMove
  <2> QED BY <2>1, <2>5, <2>6, <2>7 DEF CallOn, Login, Registration, Me, Refresh, Refused, Tenant,
             SwitchOrganization, Rag, Billing, Fleet, CountTokens, Models, DoRaw
<1> QED BY <1>2, <1>3, <1>4, <1>5 DEF Accounting, AccountStep

\* Every step of a call moves its request in one of these ways.
LEMMA StepsOfRequest == AccountInv /\ [Next]_vars => RequestMove /\ ContextMove
<1> SUFFICES ASSUME AccountInv, [Next]_vars
             PROVE  RequestMove /\ ContextMove
    OBVIOUS
<1> USE DEF ContextMove, Take
<1>1. CASE Requesting
  BY <1>1 DEF Requesting, Reading, CarriedOut, RequestMove
<1>2. CASE Ending
  BY <1>2 DEF Ending, EndContext, RequestMove, ContextEnds
<1>3. CASE Tools
  BY <1>3, IssueSends DEF Tools, ToolLoopStep, Registering, Register, RunTools, Ask, Answer, AskFailed,
              Invoke, InvokeMissing, Feed, TurnOver, RequestMove
<1>4. CASE Solving
  BY <1>4, IssueSends DEF Solving, SolveStep, Solve, SolveFailed, Decoded, Poll, PollRefused, PollFailed,
              WaitEnded, StartJob, ReadJob, JobEnds, RequestMove
<1>5. CASE Streaming
  <2>1. CASE OpenStep
    BY <2>1, IssueSends DEF OpenStep, OpenStream, Opened, OpenRefused, OpenFailed, HandOver, RequestMove
  <2>2. CASE ReaderStep
    BY <2>2 DEF ReaderStep, TimedOut, ReadBroken, ReadStopped, StopsReading, SendEvent,
                SendFinal, FinalSkipped, RequestMove
  <2>3. CASE ConsumerStep \/ Leave
    BY <2>3 DEF ConsumerStep, Receive, Collected, Leave, RequestMove
  <2>4. CASE StreamServer
    BY <2>4 DEF StreamServer, ReadFrame, ReadDone, ReadEnd, ReadBroken, Reads, StopsReading,
                RequestMove
  <2> QED BY <1>5, <2>1, <2>2, <2>3, <2>4 DEF Streaming
<1>6. CASE UNCHANGED vars
  BY <1>6 DEF vars, RequestMove
<1>7. CASE Accounting
  BY <1>7, AccountingSteps
<1> QED BY <1>1, <1>2, <1>3, <1>4, <1>5, <1>6, <1>7 DEF Next

\* A retryable status is never one of the final ones, and the other way round.
LEMMA SentinelOfCode ==
  ASSUME NEW s \in {"retryable", "fatal"}, NEW n \in Codes(s)
  PROVE  Sentinel(n) \in (IF s = "retryable" THEN {"rateLimited", "server", "api"}
                                             ELSE {"unauthorized", "notFound", "api"})
BY DEF Codes, StatusCodes, IsRetryableStatus, Sentinel

LEMMA RequestStarts == Init => RequestInv
<1> SUFFICES ASSUME Init
             PROVE  RequestInv
    OBVIOUS
<1>1. ~hit /\ hit \in BOOLEAN /\ due \in BOOLEAN /\ lastErr \in BOOLEAN
  BY DEF Init, RequestInit
<1>2. ErrorsTold
  BY DEF Init, RequestInit, ErrorsTold
<1> QED BY RetriesType, <1>1, <1>2 DEF Init, RequestInit, RequestInv, RequestTypeOK, Phases, Statuses,
                                       Outcomes

\* The invariant of the request is kept by every step of a call.
LEMMA RequestKept == AccountInv /\ RequestInv /\ [Next]_vars => RequestInv'
<1> SUFFICES ASSUME AccountInv, RequestInv, [Next]_vars
             PROVE  RequestInv'
    OBVIOUS
<1> USE RetriesType DEF RequestInv, RequestTypeOK, ErrorsTold, Phases, Statuses, Outcomes
<1> USE DEF Sentinels
<1>0. ContextMove
  BY StepsOfRequest
<1>1. CASE Sent
  <2>1. PICK n \in 0 .. MaxRetries : IssueOver(n)
    BY <1>1 DEF Sent
  <2>2. ctx' \in {"live", "cancelled", "expired"} /\ ErrorsTold'
    BY <1>0, <2>1 DEF IssueOver, ContextMove, ContextEnds, Clear
  <2>3. UNCHANGED <<due, attempt, hit, done, lastErr, status, outcome>> /\ phase' = "ready" /\ limit' = n
    BY <2>1 DEF IssueOver
  <2> QED BY <2>1, <2>2, <2>3 DEF IssueOver
<1>2. CASE Clear
  <2>1. ctx' \in {"live", "cancelled", "expired"}
    BY <1>0 DEF ContextMove, ContextEnds
  <2>2. ~hit' /\ hit' \in BOOLEAN /\ due' \in BOOLEAN /\ lastErr' \in BOOLEAN
    BY <1>2 DEF Clear
  <2> QED BY <1>2, <2>1, <2>2 DEF Clear
<1>2a. ~Clear => ctx' \in {"live", "cancelled", "expired"} /\ (ctx # "live" => ctx' # "live")
  BY <1>0 DEF ContextMove, ContextEnds
<1>2b. CASE HandOver
  BY <1>2, <1>2a, <1>2b DEF HandOver, Ended
<1>3. CASE RequestStep
  <2>1. CASE StartAttempt \/ StartEnded
    BY <1>2, <1>2a, <2>1 DEF StartAttempt, StartEnded, EndsWith, Ended
  <2>2. CASE Aborted
    BY <1>2, <1>2a, <2>2 DEF Aborted, EndsWith, Ended
  <2>3. CASE BackoffOver
    <3>1. ~hit' /\ hit' \in BOOLEAN
      BY <2>3 DEF BackoffOver
    <3> QED BY <1>2, <1>2a, <2>3, <3>1 DEF BackoffOver, Ended
  <2>4. CASE BackoffEnded
    BY <1>2, <1>2a, <2>4 DEF BackoffEnded, EndsWith, Ended
  <2> QED BY <1>3, <2>1, <2>2, <2>3, <2>4 DEF RequestStep
<1>4. CASE ServerStep
  <2>1. CASE \E s \in Statuses : AnswerReturned(s)
    BY <1>2, <1>2a, <2>1 DEF AnswerReturned, MayAnswer, RetryStatus, Ended
  <2>2. CASE \E s \in Statuses : AnswerRetried(s)
    BY <1>2, <1>2a, <2>2 DEF AnswerRetried, RetryStatus, Ended
  <2>3. CASE Broken
    BY <1>2, <1>2a, <2>3 DEF Broken, EndsWith, Ended
  <2> QED BY <1>4, <2>1, <2>2, <2>3 DEF ServerStep
<1>5. CASE ReadBody \/ BodyBroken \/ BodyAborted
  <2>1. CASE BodyBroken \/ BodyAborted
    BY <1>2, <1>2a, <2>1 DEF BodyBroken, BodyAborted, BodyUnread, Ended
  <2>2. CASE ReadBody
    <3>1. CASE status = "ok"
      BY <1>2, <1>2a, <2>2, <3>1 DEF ReadBody, Ended
    <3>2. CASE status # "ok"
      <4>1. status \in {"retryable", "fatal"} /\ outcome' \in {Sentinel(n) : n \in Codes(status)}
        BY <2>2, <3>2 DEF ReadBody
      <4>2. outcome' \in (IF status = "retryable" THEN {"rateLimited", "server", "api"}
                                                 ELSE {"unauthorized", "notFound", "api"})
        BY <4>1, SentinelOfCode
      <4> QED BY <1>2, <1>2a, <2>2, <4>1, <4>2 DEF ReadBody, Ended
    <3> QED BY <3>1, <3>2
  <2> QED BY <1>5, <2>1, <2>2
<1>6. CASE CarryOut
  BY <1>2, <1>2a, <1>6 DEF CarryOut, Ended
<1>7. CASE TimeOut
  BY <1>2, <1>2a, <1>7 DEF TimeOut, Ended
<1>8. CASE UNCHANGED request
  BY <1>2, <1>2a, <1>8 DEF request, Ended
<1> QED BY StepsOfRequest, <1>1, <1>2, <1>2b, <1>3, <1>4, <1>5, <1>6, <1>7, <1>8 DEF RequestMove

LEMMA RequestHolds == Spec => []RequestInv
BY AccountHolds, RequestStarts, RequestKept, PTL DEF Spec

\* However many replies are lost, a request takes effect at most once per attempt and
\* at most MaxRetries + 1 times, and a success that is reported did happen.
THEOREM EffectsTheorem == Spec => []EffectsBounded
<1>1. RequestInv => EffectsBounded
  BY DEF RequestInv, RequestTypeOK, EffectsBounded
<1> QED BY RequestHolds, <1>1, PTL

\* An error that a call gets names something that happened to its request.
THEOREM ErrorsTheorem == Spec => []ErrorsTold
<1>1. RequestInv => ErrorsTold
  BY DEF RequestInv
<1> QED BY RequestHolds, <1>1, PTL

(***************************************************************************)
(* SolveAndWait                                                             *)
(***************************************************************************)

\* What the server says of a run stays true once the run has finished.
Known(r) ==
  \/ r = NoRun
  \/ /\ r.id \in DOMAIN jobs
     /\ r.status \in JobStatus
     /\ r.status # "running" => jobs[r.id] = r.status

\* While the POST is under way no more runs were started than it took effect.
SolveInv ==
  /\ jobs \in Seq(JobStatus)
  /\ Len(jobs) <= MaxRetries + 1
  /\ pc = "solve" => Len(jobs) = 0
  /\ pc = "ack" => Len(jobs) <= done
  /\ pc = "poll" => run.id # 0
  /\ Known(reply) /\ Known(run)
  /\ ret = "finished" => pc = "returned" /\ run.status \in {"done", "error"}

\* A step that leaves runs and replies alone keeps what is known of them.
LEMMA KnownKept ==
  ASSUME SolveInv, UNCHANGED <<jobs, reply, run>>
  PROVE  (jobs \in Seq(JobStatus) /\ Len(jobs) <= MaxRetries + 1)' /\ Known(reply)' /\ Known(run)'
BY DEF SolveInv, Known

\* While the POST is under way only the start of a run counts as an effect.
LEMMA EffectsWhileSolving ==
  ASSUME pc = "ack", Requesting
  PROVE  done' = done
BY DEF Requesting, RequestStep, StartAttempt, StartEnded, Aborted, BackoffOver, BackoffEnded,
       ServerStep, AnswerReturned, AnswerRetried, Broken, Reading, ReadBody, BodyBroken,
       BodyAborted, BodyUnread, CarriedOut, TimeOut

LEMMA NoRunSays == NoRun.id = 0 /\ NoRun.status = ""
BY DEF NoRun

LEMMA SolveStarts == Init => SolveInv
<1> SUFFICES ASSUME Init
             PROVE  SolveInv
    OBVIOUS
<1>1. jobs \in Seq(JobStatus) /\ Len(jobs) = 0
  BY DEF Init, SolveInit
<1>2. Known(reply) /\ Known(run)
  BY DEF Init, SolveInit, Known
<1> QED BY RetriesType, <1>1, <1>2 DEF Init, SolveInv, Programs

LEMMA SolveKept == AccountInv /\ RequestInv /\ SolveInv /\ [Next]_vars => SolveInv'
<1> SUFFICES ASSUME AccountInv, RequestInv, SolveInv, [Next]_vars
             PROVE  SolveInv'
    OBVIOUS
<1>0. /\ MaxRetries \in Nat
      /\ done \in Nat /\ done' \in Nat /\ done' <= MaxRetries + 1
  BY RetriesType, RequestKept DEF RequestInv, RequestTypeOK
<1>1. CASE Requesting
  BY <1>1, KnownKept, EffectsWhileSolving DEF SolveInv, Requesting, solveVars
<1>2. CASE Ending
  BY <1>2, KnownKept DEF SolveInv, Ending, EndContext, request, solveVars
<1>3. CASE Tools
  BY <1>3, KnownKept DEF SolveInv, Tools, ToolLoopStep, Registering, Register, RunTools, Ask,
     Answer, AskFailed, Invoke, InvokeMissing, Feed, TurnOver, solveVars
<1>4. CASE Solving
  <2>1. CASE Solve
    BY <2>1, KnownKept, <1>0 DEF SolveInv, Solve, Issue, IssueOver, solveVars
  <2>2. CASE SolveFailed \/ PollFailed \/ WaitEnded \/ PollRefused
    BY <2>2, KnownKept DEF SolveInv, SolveFailed, PollFailed, WaitEnded, PollRefused, Returns,
       Take, solveVars
  <2>3. CASE \E r \in {reply, NoRun} : Decoded(r)
    BY <2>3, <1>0 DEF SolveInv, Decoded, Known, Take, Returns, IsTerminalSolveStatus
  <2>4. CASE Poll
    BY <2>4, KnownKept DEF SolveInv, Poll, solveVars
  <2>5. CASE StartJob
    <3>1. jobs' = Append(jobs, "running") /\ Len(jobs') = Len(jobs) + 1
      BY <2>5 DEF StartJob, SolveInv
    <3>2. jobs' \in Seq(JobStatus)
      BY <3>1 DEF SolveInv, JobStatus
    <3>3. Len(jobs') <= done'
      BY <2>5, <1>0, <3>1 DEF StartJob, CarryOut, SolveInv
    <3>4. Known(reply)'
      BY <2>5, <3>1 DEF StartJob, SolveInv, Known, Run, JobStatus
    <3>5. Known(run)'
      BY <2>5, <3>1 DEF StartJob, SolveInv, Known
    <3> QED BY <2>5, <1>0, <3>1, <3>2, <3>3, <3>4, <3>5 DEF StartJob, SolveInv
  <2>6. CASE ReadJob
    <3>1. run # NoRun /\ run.id \in DOMAIN jobs
      BY <2>6, NoRunSays DEF SolveInv, ReadJob, Known
    <3>2. reply'.id = run.id /\ reply'.status = jobs[run.id] /\ jobs' = jobs
      BY <2>6 DEF ReadJob, Run
    <3>3. Known(reply)'
      BY <3>1, <3>2 DEF SolveInv, Known
    <3>4. Known(run)'
      BY <2>6 DEF SolveInv, ReadJob, Known
    <3> QED BY <2>6, <3>2, <3>3, <3>4 DEF SolveInv, ReadJob
  <2>7. CASE \E j \in DOMAIN jobs : JobEnds(j)
    <3>1. PICK j \in DOMAIN jobs, s \in {"done", "error"} :
            jobs[j] = "running" /\ jobs' = [jobs EXCEPT ![j] = s]
      BY <2>7 DEF JobEnds
    <3>2. jobs' \in Seq(JobStatus) /\ Len(jobs') = Len(jobs) /\ DOMAIN jobs' = DOMAIN jobs
      BY <3>1 DEF SolveInv, JobStatus
    <3>3. Known(reply)' /\ Known(run)'
      BY <2>7, <3>1, <3>2 DEF SolveInv, Known, JobEnds
    <3> QED BY <2>7, <3>2, <3>3 DEF SolveInv, JobEnds, request
  <2> QED BY <1>4, <2>1, <2>2, <2>3, <2>4, <2>5, <2>6, <2>7 DEF Solving, SolveStep
<1>5. CASE Streaming
  BY <1>5, KnownKept DEF SolveInv, Streaming, OpenStep, OpenStream, Opened, OpenRefused,
     OpenFailed, ReaderStep, TimedOut, ReadBroken, ReadStopped, StopsReading, SendEvent, SendFinal,
     FinalSkipped, ConsumerStep, Receive, Collected, Leave, StreamServer, ReadFrame, ReadDone,
     ReadEnd, Reads, solveVars, request
<1>6. CASE UNCHANGED vars
  BY <1>6, KnownKept DEF SolveInv, vars, solveVars, request
<1>7. CASE Accounting
  BY <1>7, KnownKept, AccountingSteps DEF SolveInv, AccountPlaces, solveVars
<1> QED BY <1>1, <1>2, <1>3, <1>4, <1>5, <1>6, <1>7 DEF Next

LEMMA SolveHolds == Spec => []SolveInv
BY AccountHolds, RequestHolds, SolveStarts, SolveKept, PTL DEF Spec

\* One SolveAndWait starts at most MaxRetries + 1 runs, however its requests fail.
THEOREM JobsTheorem == Spec => []JobsBounded
<1>1. SolveInv => JobsBounded
  BY DEF SolveInv, JobsBounded
<1> QED BY SolveHolds, <1>1, PTL

\* A run that SolveAndWait returns without an error was started by it and has
\* finished on the server as it says.
THEOREM FinishedTheorem == Spec => []FinishedIsTrue
<1>1. SolveInv => FinishedIsTrue
  BY NoRunSays DEF SolveInv, FinishedIsTrue, Known
<1> QED BY SolveHolds, <1>1, PTL

(***************************************************************************)
(* ChatStream                                                               *)
(***************************************************************************)

\* The event in the goroutine's hand is the one of the last frame it has read.
Held ==
  \/ pos <= Chunks /\ hold \in {Piece(pos), Error}
  \/ pos = Chunks + 1 /\ hold = Done

\* One event for each frame read, in their order; then at most one error more, which
\* tells why the goroutine ended.
StreamInv ==
  /\ pos \in 0 .. Chunks + 1
  /\ sent \in Seq(Event)
  /\ pc \notin {"consume", "returned"} => reader = "none"
  /\ reader = "none" => pos = 0 /\ Len(sent) = 0
  /\ reader = "scan" => Len(sent) = pos
  /\ reader = "send" => Len(sent) + 1 = pos /\ Held
  /\ \A n \in DOMAIN sent : n <= Chunks => sent[n] \in {Piece(n), Error}
  /\ reader \in {"none", "scan", "send"} => cause = "none"
  /\ reader = "final" => cause \in {"broken", "context"}
  /\ reader = "ended" => cause \in {"eof", "broken", "context"}
  /\ cause = "context" => ctx # "live"
  /\ reader = "ended" /\ cause = "broken" => Told \/ ctx # "live"
  /\ reader = "ended" /\ cause = "eof" => Len(sent) = pos
  /\ ret = "collected" => pc = "returned" /\ reader = "ended" /\ ~Told

\* The steps that leave ChatStream and its channel alone.
Elsewhere ==
  /\ UNCHANGED streamVars
  /\ pc' \notin {"consume", "returned"} => reader = "none"
  /\ ret' = "collected" => ret = "collected" /\ pc' = pc
  /\ ctx' = "live" => ctx = "live" \/ reader = "none"

LEMMA StreamType == Chunks \in Nat /\ BufferSize \in Nat
BY StreamAssumption DEF StreamAssumption

LEMMA StreamStarts == Init => StreamInv
<1> SUFFICES ASSUME Init
             PROVE  StreamInv
    OBVIOUS
<1>1. sent \in Seq(Event) /\ Len(sent) = 0 /\ DOMAIN sent = {}
  BY DEF Init, StreamInit
<1> QED BY StreamType, <1>1 DEF Init, StreamInit, StreamInv, Programs

LEMMA ElsewhereSteps ==
  ASSUME AccountInv, StreamInv,
         Requesting \/ Ending \/ Tools \/ Solving \/ Accounting \/ UNCHANGED vars
  PROVE  Elsewhere
<1>1. CASE Requesting \/ Ending \/ UNCHANGED vars
  BY <1>1 DEF Elsewhere, StreamInv, Requesting, Ending, EndContext, vars, streamVars
<1>2. CASE Tools
  BY <1>2 DEF Elsewhere, StreamInv, Tools, ToolLoopStep, Registering, Register, RunTools, Ask,
     Answer, AskFailed, Invoke, InvokeMissing, Feed, TurnOver
<1>3. CASE Solving
  BY <1>3 DEF Elsewhere, StreamInv, Solving, SolveStep, Solve, SolveFailed, Decoded, Poll,
     PollRefused, PollFailed, WaitEnded, StartJob, ReadJob, JobEnds, Returns
<1>4. CASE Accounting
  BY <1>4, AccountingSteps DEF Elsewhere, StreamInv, AccountPlaces
<1> QED BY <1>1, <1>2, <1>3, <1>4

\* What is appended to the channel is its new last event.
LEMMA Appended ==
  ASSUME StreamInv, NEW e \in Event, sent' = Append(sent, e),
         Len(sent) + 1 <= Chunks => e \in {Piece(Len(sent) + 1), Error}
  PROVE  /\ sent' \in Seq(Event)
         /\ Len(sent') = Len(sent) + 1
         /\ e = Error => Told'
         /\ \A n \in DOMAIN sent' : n <= Chunks => sent'[n] \in {Piece(n), Error}
<1>1. sent \in Seq(Event)
  BY DEF StreamInv
<1>2. sent' \in Seq(Event) /\ Len(sent') = Len(sent) + 1 /\ sent'[Len(sent) + 1] = e
  BY <1>1
<1>3. \A n \in DOMAIN sent : sent'[n] = sent[n]
  BY <1>1
<1>4. DOMAIN sent' = DOMAIN sent \cup {Len(sent) + 1}
  BY <1>1
<1>5. e = Error => Told'
  BY <1>2, <1>4 DEF Told
<1>6. \A n \in DOMAIN sent' : n <= Chunks => sent'[n] \in {Piece(n), Error}
  <2> SUFFICES ASSUME NEW n \in DOMAIN sent', n <= Chunks
               PROVE  sent'[n] \in {Piece(n), Error}
      OBVIOUS
  <2>1. CASE n \in DOMAIN sent
    BY <2>1, <1>3 DEF StreamInv
  <2>2. CASE n = Len(sent) + 1
    BY <2>2, <1>2
  <2> QED BY <2>1, <2>2, <1>4
<1> QED BY <1>2, <1>5, <1>6

LEMMA StreamKept == AccountInv /\ StreamInv /\ [Next]_vars => StreamInv'
<1> SUFFICES ASSUME AccountInv, StreamInv, [Next]_vars
             PROVE  StreamInv'
    OBVIOUS
<1>0. Chunks \in Nat
  BY StreamType
<1>1. CASE Requesting \/ Ending \/ Tools \/ Solving \/ Accounting \/ UNCHANGED vars
  BY <1>0, <1>1, ElsewhereSteps DEF Elsewhere, StreamInv, streamVars, Told, Held
<1>2. CASE OpenStep
  <2>1. CASE Opened
    BY <2>1, <1>0 DEF Opened, StreamInv, Told
  <2>2. CASE OpenStream \/ OpenRefused \/ OpenFailed
    BY <2>2, <1>0 DEF OpenStream, OpenRefused, OpenFailed, StreamInv, streamVars, Told, Held
  <2> QED BY <1>2, <2>1, <2>2 DEF OpenStep
<1>3. CASE ReadFrame \/ ReadDone
  BY <1>3, <1>0 DEF ReadFrame, ReadDone, Reads, StreamInv, Told, Held
<1>4. CASE ReadEnd \/ ReadBroken \/ ReadStopped
  BY <1>4, <1>0 DEF ReadEnd, ReadBroken, ReadStopped, StopsReading, StreamInv, Told, Held
<1>5. CASE SendEvent
  <2>1. hold \in Event /\ (Len(sent) + 1 <= Chunks => hold \in {Piece(Len(sent) + 1), Error})
    BY <1>5, <1>0 DEF SendEvent, StreamInv, Held, Event
  <2>2. sent' = Append(sent, hold)
    BY <1>5 DEF SendEvent
  <2> QED BY <1>5, <1>0, <2>1, <2>2, Appended DEF SendEvent, StreamInv
<1>6. CASE SendFinal
  <2>1. sent' = Append(sent, Error) /\ Error \in Event
    BY <1>6 DEF SendFinal, Event
  <2> QED BY <1>6, <1>0, <2>1, Appended DEF SendFinal, StreamInv
<1>7. CASE FinalSkipped
  BY <1>7, <1>0 DEF FinalSkipped, StreamInv, Told
<1>8. CASE ConsumerStep \/ Leave
  BY <1>8, <1>0 DEF ConsumerStep, Receive, Collected, Leave, StreamInv, streamVars, Told, Held
<1> QED BY <1>1, <1>2, <1>3, <1>4, <1>5, <1>6, <1>7, <1>8
        DEF Next, Streaming, ReaderStep, StreamServer, TimedOut

LEMMA StreamHolds == Spec => []StreamInv
BY AccountHolds, StreamStarts, StreamKept, PTL DEF Spec

\* A stream that was cut short while the context was live is told to the caller of
\* CollectStream, unless the server itself ended it.
THEOREM CutTheorem == Spec => []CutIsTold
<1>1. StreamInv => CutIsTold
  BY StreamType DEF StreamInv, CutIsTold, Told
<1> QED BY StreamHolds, <1>1, PTL

\* Every step of the client puts the next piece into the channel, closes it, or does
\* neither.
LEMMA StepsDeliver ==
  ASSUME AccountInv, StreamInv, [Next]_vars
  PROVE  [Pieces!Next]_<<sent, reader # "ended">>
<1> USE DEF Pieces!Next, Pieces!Put, Pieces!PutPiece, Pieces!PutDone, Pieces!Break,
            Pieces!PutLastError, Pieces!Close
<1>1. CASE Requesting \/ Ending \/ Tools \/ Solving \/ Accounting \/ UNCHANGED vars
  BY <1>1, ElsewhereSteps DEF Elsewhere, streamVars
<1>2. CASE OpenStep
  BY <1>2 DEF OpenStep, OpenStream, Opened, OpenRefused, OpenFailed, StreamInv, streamVars
<1>3. CASE ReadFrame \/ ReadDone
  BY <1>3 DEF ReadFrame, ReadDone, Reads
<1>4. CASE ReadEnd \/ ReadBroken \/ ReadStopped
  BY <1>4 DEF ReadEnd, ReadBroken, ReadStopped, StopsReading
<1>5. CASE SendEvent
  BY <1>5, StreamType DEF SendEvent, StreamInv, Held, Piece, Error, Done, Pieces!Piece,
     Pieces!Error, Pieces!Done
<1>6. CASE SendFinal
  BY <1>6 DEF SendFinal, Error, Pieces!Error
<1>7. CASE FinalSkipped
  BY <1>7 DEF FinalSkipped
<1>8. CASE ConsumerStep \/ Leave
  BY <1>8 DEF ConsumerStep, Receive, Collected, Leave, streamVars
<1> QED BY <1>1, <1>2, <1>3, <1>4, <1>5, <1>6, <1>7, <1>8
        DEF Next, Streaming, ReaderStep, StreamServer, TimedOut

\* What ChatStream puts into its channel is what Delivery promises: each piece of the
\* answer once and in its place, then the end.
THEOREM DeliveryTheorem == Spec => DeliverySpec
<1>1. Init => Pieces!Init
  BY DEF Init, StreamInit, Pieces!Init
<1>2. AccountInv /\ StreamInv /\ [Next]_vars => [Pieces!Next]_<<sent, reader # "ended">>
  BY StepsDeliver
<1> QED BY AccountHolds, StreamHolds, <1>1, <1>2, PTL DEF Spec, DeliverySpec, Pieces!Spec

(***************************************************************************)
(* RunTools                                                                 *)
(***************************************************************************)

\* Every result has its call.
NoStray ==
  \A m \in DOMAIN msgs : msgs[m].role = "tool" =>
    \E k \in 1 .. m : Answers(k) /\ m - k \in DOMAIN msgs[k].calls

\* Every call of every answer has its result.
AllAnswered ==
  \A k \in DOMAIN msgs : Answers(k) =>
    \A j \in DOMAIN msgs[k].calls : AnswerOf(k + j, k, j)

\* Message k is the last answer of the model: its calls before next have their
\* results, with which the conversation ends, and all earlier calls have theirs.
Running(k) ==
  /\ k \in DOMAIN msgs
  /\ Answers(k)
  /\ Len(msgs) = k + next - 1
  /\ \A i \in DOMAIN msgs : Answers(i) =>
       /\ i <= k
       /\ \A j \in DOMAIN msgs[i].calls : i # k \/ j < next => AnswerOf(i + j, i, j)

LoopInv ==
  /\ registry \in SUBSET Tool
  /\ advertised \subseteq registry
  /\ msgs \in Seq(Msg)
  /\ turn \in 0 .. MaxTurns
  /\ next \in Nat \ {0}
  /\ pc \in {"tools", "ask"} => turn < MaxTurns
  /\ pc \in {"answer", "run"} => turn > 0
  /\ pc \in {"ask", "answer"} \/ ret \in {"answer", "max"} => AllAnswered
  /\ pc = "run" => \E k \in Nat : Running(k) /\ next <= Len(msgs[k].calls) + 1
  /\ ret \in {"answer", "max"} => pc = "returned"
  /\ NoStray
  /\ AdvertisedIsFound

LEMMA LoopType == MaxTurns \in Nat \ {0} /\ MaxCalls \in Nat
BY ToolLoopAssumption DEF ToolLoopAssumption

LEMMA UserFields == User \in Msg /\ User.role = "user" /\ User.out = "none"
BY DEF User, Msg

LEMMA AssistantFields ==
  ASSUME NEW cs \in Calls
  PROVE  /\ Assistant(cs) \in Msg
         /\ Assistant(cs).role = "assistant" /\ Assistant(cs).out = "none"
         /\ Assistant(cs).calls = cs
BY DEF Assistant, Msg

LEMMA ToolFields ==
  ASSUME NEW cl \in CallOf, NEW out \in Outs
  PROVE  /\ ToolMsg(cl, out) \in Msg
         /\ ToolMsg(cl, out).role = "tool" /\ ToolMsg(cl, out).out = out
         /\ ToolMsg(cl, out).call = cl
BY DEF ToolMsg, Msg

\* The calls of an answer are a short sequence of tools.
LEMMA CallsShort ==
  ASSUME NEW cs \in Calls
  PROVE  /\ cs \in Seq(Tool)
         /\ Len(cs) \in 0 .. MaxCalls
         /\ DOMAIN cs = 1 .. Len(cs)
BY LoopType DEF Calls

LEMMA AnswerCalls ==
  ASSUME msgs \in Seq(Msg), NEW k \in DOMAIN msgs, Answers(k)
  PROVE  msgs[k].calls \in Calls
<1>1. msgs[k] \in Msg /\ msgs[k].role = "assistant"
  BY DEF Answers
<1>2. msgs[k] # User /\ \A cl \in CallOf, out \in Outs : msgs[k] # ToolMsg(cl, out)
  BY <1>1, UserFields, ToolFields
<1>3. PICK cs \in Calls : msgs[k] = Assistant(cs)
  BY <1>1, <1>2 DEF Msg
<1> QED BY <1>3, AssistantFields

\* The calls to be run are those of the last answer.
LEMMA RequestedIs ==
  ASSUME msgs \in Seq(Msg), NEW k \in Nat, Running(k)
  PROVE  Requested = msgs[k].calls
<1> DEFINE answers == {i \in DOMAIN msgs : msgs[i].role = "assistant"}
           Last(i) == \A j \in answers : j <= i
<1>1. k \in answers /\ Last(k)
  BY DEF Running, Answers
<1>2. \A i \in answers : Last(i) => i = k
  BY <1>1
<1>3. (CHOOSE i \in answers : Last(i)) = k
  BY <1>1, <1>2
<1> QED BY <1>3 DEF Requested

\* A message that is added leaves the others, and what answers them, as they are.
LEMMA Added ==
  ASSUME msgs \in Seq(Msg), NEW x \in Msg, msgs' = Append(msgs, x)
  PROVE  /\ msgs' \in Seq(Msg)
         /\ Len(msgs') = Len(msgs) + 1
         /\ DOMAIN msgs' = DOMAIN msgs \cup {Len(msgs) + 1}
         /\ msgs'[Len(msgs) + 1] = x
         /\ \A k \in DOMAIN msgs : msgs'[k] = msgs[k] /\ Answers(k)' = Answers(k)
         /\ \A k \in DOMAIN msgs : \A m, j : AnswerOf(m, k, j) => AnswerOf(m, k, j)'
<1>1. /\ msgs' \in Seq(Msg)
      /\ Len(msgs') = Len(msgs) + 1
      /\ DOMAIN msgs' = DOMAIN msgs \cup {Len(msgs) + 1}
      /\ msgs'[Len(msgs) + 1] = x
      /\ \A k \in DOMAIN msgs : msgs'[k] = msgs[k]
  OBVIOUS
<1> QED BY <1>1 DEF Answers, AnswerOf

LEMMA StrayKept ==
  ASSUME msgs \in Seq(Msg), NEW x \in Msg, msgs' = Append(msgs, x), NoStray,
         x.role = "tool" =>
           \E k \in DOMAIN msgs : Answers(k) /\ Len(msgs) + 1 - k \in DOMAIN msgs[k].calls
  PROVE  NoStray'
<1> SUFFICES ASSUME NEW m \in DOMAIN msgs', msgs'[m].role = "tool"
             PROVE  \E k \in 1 .. m : Answers(k)' /\ m - k \in DOMAIN msgs'[k].calls
    BY DEF NoStray
<1>1. CASE m \in DOMAIN msgs
  BY <1>1, Added DEF NoStray
<1>2. CASE m = Len(msgs) + 1
  BY <1>2, Added
<1> QED BY <1>1, <1>2, Added

LEMMA FoundKept ==
  ASSUME msgs \in Seq(Msg), NEW x \in Msg, msgs' = Append(msgs, x), AdvertisedIsFound,
         advertised' = advertised, x.out = "missing" => x.call[3] \notin advertised
  PROVE  AdvertisedIsFound'
BY Added DEF AdvertisedIsFound

LEMMA LoopStarts == Init => LoopInv
<1> SUFFICES ASSUME Init
             PROVE  LoopInv
    OBVIOUS
<1>1. msgs \in Seq(Msg) /\ DOMAIN msgs = {}
  BY DEF Init, ToolLoopInit
<1> QED BY LoopType, <1>1 DEF Init, ToolLoopInit, LoopInv, Programs, NoStray, AdvertisedIsFound

\* Every call of the client but RunTools leaves the loop alone.
LoopElsewhere ==
  /\ UNCHANGED <<registry, loopVars>>
  /\ pc' \in {"tools", "ask", "answer", "run"} => pc' = pc
  /\ ret' \in {"answer", "max"} => ret' = ret /\ pc' = pc

LEMMA LoopElsewhereSteps ==
  ASSUME AccountInv, LoopInv,
         Requesting \/ Ending \/ Solving \/ Streaming \/ Accounting \/ UNCHANGED vars
  PROVE  LoopElsewhere
<1>1. CASE Requesting \/ Ending \/ UNCHANGED vars
  BY <1>1 DEF LoopElsewhere, Requesting, Ending, EndContext, vars, request
<1>2. CASE Solving
  BY <1>2 DEF LoopElsewhere, LoopInv, Solving, SolveStep, Solve, SolveFailed, Decoded, Poll,
     PollRefused, PollFailed, WaitEnded, StartJob, ReadJob, JobEnds, Returns
<1>3. CASE Streaming
  BY <1>3 DEF LoopElsewhere, LoopInv, Streaming, OpenStep, OpenStream, Opened, OpenRefused,
     OpenFailed, ReaderStep, TimedOut, ReadBroken, ReadStopped, StopsReading, SendEvent, SendFinal,
     FinalSkipped, ConsumerStep, Receive, Collected, Leave, StreamServer, ReadFrame, ReadDone,
     ReadEnd, Reads
<1>4. CASE Accounting
  BY <1>4, AccountingSteps DEF LoopElsewhere, LoopInv, AccountPlaces
<1> QED BY <1>1, <1>2, <1>3, <1>4

\* The next call of the last answer gets its result.
LEMMA FeedKeeps ==
  ASSUME LoopInv, NEW out \in Outs, Feed(out), out = "missing" => Requested[next] \notin registry
  PROVE  LoopInv'
<1>1. PICK k \in Nat : Running(k) /\ next <= Len(msgs[k].calls) + 1
  BY DEF LoopInv, Feed
<1> DEFINE cs == msgs[k].calls
           cl == Call(turn, next, cs)
           x  == ToolMsg(cl, out)
<1>2. Requested = cs /\ k \in DOMAIN msgs /\ Answers(k) /\ Len(msgs) = k + next - 1
  BY <1>1, RequestedIs DEF LoopInv, Running
<1>3. cs \in Calls /\ cs \in Seq(Tool) /\ Len(cs) \in 0 .. MaxCalls /\ DOMAIN cs = 1 .. Len(cs)
  BY <1>2, AnswerCalls, CallsShort DEF LoopInv
<1>4. next \in DOMAIN cs /\ next \in 1 .. MaxCalls
  BY <1>2, <1>3, LoopType DEF Feed, LoopInv
<1>5. cl \in CallOf /\ cl[2] = next /\ cl[3] = cs[next]
  BY <1>3, <1>4, LoopType DEF Call, CallOf, LoopInv, Feed
<1>6. /\ x \in Msg /\ x.role = "tool" /\ x.out = out /\ x.call = cl
      /\ msgs' = Append(msgs, x)
  <2> HIDE DEF cs
  <2> QED BY <1>2, <1>5, ToolFields DEF Feed
<1> HIDE DEF x, cl
<1>7. msgs \in Seq(Msg) /\ next \in Nat \ {0} /\ next' = next + 1
  BY DEF LoopInv, Feed
<1>8. NoStray'
  <2>1. Len(msgs) + 1 - k \in DOMAIN msgs[k].calls
    BY <1>2, <1>4, <1>7
  <2> QED BY <1>2, <1>6, <1>7, <2>1, StrayKept DEF LoopInv
<1>9. AdvertisedIsFound'
  <2>1. x.out = "missing" => x.call[3] \notin advertised
    BY <1>2, <1>5, <1>6 DEF LoopInv
  <2> QED BY <1>6, <1>7, <2>1, FoundKept DEF LoopInv, Feed
<1>10. Running(k)'
  <2>1. k \in DOMAIN msgs' /\ Answers(k)' /\ Len(msgs') = k + next' - 1
    BY <1>2, <1>6, <1>7, Added
  <2>2. ASSUME NEW i \in DOMAIN msgs', Answers(i)'
        PROVE  /\ i <= k
               /\ \A j \in DOMAIN msgs'[i].calls : i # k \/ j < next' => AnswerOf(i + j, i, j)'
    <3>1. i \in DOMAIN msgs
      BY <2>2, <1>6, <1>7, Added DEF Answers
    <3>2. Answers(i) /\ msgs'[i] = msgs[i] /\ i <= k
      BY <2>2, <3>1, <1>1, <1>6, <1>7, Added DEF Running
    <3>3. ASSUME NEW j \in DOMAIN msgs[i].calls, i # k \/ j < next
          PROVE  AnswerOf(i + j, i, j)'
      BY <3>1, <3>2, <3>3, <1>1, <1>6, <1>7, Added DEF Running
    <3>4. ASSUME i = k, NEW j \in DOMAIN msgs[i].calls, j = next
          PROVE  AnswerOf(i + j, i, j)'
      <4>1. i + j = Len(msgs) + 1
        BY <3>4, <1>2, <1>7
      <4>2. msgs'[i + j] = x /\ i + j \in DOMAIN msgs'
        BY <4>1, <1>6, <1>7, Added
      <4>3. AnswerOf(i + j, i, j)' <=> /\ msgs'[i + j].role = "tool"
                                       /\ msgs'[i + j].call[2] = j
                                       /\ msgs'[i + j].call[3] = msgs'[i].calls[j]
        BY <4>2 DEF AnswerOf
      <4>4. msgs'[i].calls[j] = cs[next]
        BY <3>2, <3>4
      <4> QED BY <4>2, <4>3, <4>4, <3>4, <1>5, <1>6
    <3>5. \A j \in DOMAIN msgs[k].calls : j \in Nat
      BY <1>3
    <3> QED BY <3>2, <3>3, <3>4, <3>5, <1>7
  <2> QED BY <2>1, <2>2 DEF Running
<1>11. next' <= Len(msgs'[k].calls) + 1
  BY <1>2, <1>3, <1>4, <1>6, <1>7, Added
<1>12. msgs' \in Seq(Msg)
  BY <1>6, <1>7, Added
<1>13. (\E i \in Nat : Running(i) /\ next <= Len(msgs[i].calls) + 1)'
  BY <1>10, <1>11
<1>14. pc = "run" /\ UNCHANGED <<pc, ret, registry, advertised, turn>>
  BY DEF Feed
<1>15. next' \in Nat \ {0}
  BY <1>7
<1> QED BY <1>8, <1>9, <1>12, <1>13, <1>14, <1>15 DEF LoopInv

\* An answer of the model: the calls before it have all their results.
LEMMA AnswerKeeps ==
  ASSUME LoopInv, NEW cs \in Calls, Answer(cs)
  PROVE  LoopInv'
<1> DEFINE x == Assistant(cs)
<1>1. msgs \in Seq(Msg) /\ msgs' = Append(msgs, x) /\ next' = 1 /\ AllAnswered /\ ret \notin {"answer", "max"}
  BY DEF LoopInv, Answer
<1>2. x \in Msg /\ x.role = "assistant" /\ x.out = "none" /\ x.calls = cs
  BY AssistantFields
<1> HIDE DEF x
<1>2a. PICK k \in Nat : k = Len(msgs) + 1
  BY <1>1
<1>3. NoStray' /\ AdvertisedIsFound'
  BY <1>1, <1>2, StrayKept, FoundKept DEF LoopInv, Answer
<1>4. /\ msgs' \in Seq(Msg) /\ Len(msgs') = k /\ DOMAIN msgs' = DOMAIN msgs \cup {k}
      /\ msgs'[k] = x /\ Answers(k)'
  BY <1>1, <1>2, <1>2a, Added DEF Answers
<1>5. ASSUME NEW i \in DOMAIN msgs, Answers(i)', NEW j \in DOMAIN msgs'[i].calls
      PROVE  AnswerOf(i + j, i, j)' /\ i <= k
  BY <1>1, <1>2, <1>5, <1>2a, Added DEF AllAnswered
<1>6. CASE cs = << >>
  <2>1. AllAnswered'
    BY <1>2, <1>4, <1>5, <1>6 DEF AllAnswered
  <2> QED BY <1>1, <1>3, <1>4, <1>6, <2>1 DEF LoopInv, Answer
<1>7. CASE cs # << >>
  <2>1. Running(k)'
    <3>1. \A j \in DOMAIN cs : ~(j < 1)
      BY CallsShort
    <3>2. \A i \in DOMAIN msgs : i <= k
      BY <1>1, <1>2a
    <3> QED BY <1>1, <1>2, <1>4, <1>5, <3>1, <3>2 DEF Running
  <2>2. next' <= Len(msgs'[k].calls) + 1
    BY <1>1, <1>2, <1>4, CallsShort, LoopType
  <2>3. (\E i \in Nat : Running(i) /\ next <= Len(msgs[i].calls) + 1)'
    BY <1>4, <2>1, <2>2
  <2>4. pc' = "run" /\ ret' = ret /\ turn > 0 /\ UNCHANGED <<registry, advertised, turn>>
    BY <1>7 DEF Answer, LoopInv
  <2> QED BY <1>1, <1>3, <1>4, <2>3, <2>4 DEF LoopInv
<1> QED BY <1>6, <1>7

\* When the calls of the last answer are through, every call has its result.
LEMMA TurnOverKeeps ==
  ASSUME LoopInv, TurnOver
  PROVE  LoopInv'
<1>1. PICK k \in Nat : Running(k) /\ next <= Len(msgs[k].calls) + 1
  BY DEF LoopInv, TurnOver
<1>2. Requested = msgs[k].calls /\ next > Len(msgs[k].calls) /\ msgs[k].calls \in Calls
  BY <1>1, RequestedIs, AnswerCalls DEF LoopInv, TurnOver, Running
<1>3. AllAnswered
  BY <1>1, <1>2, CallsShort, LoopType DEF Running, AllAnswered, LoopInv
<1>4. UNCHANGED <<registry, advertised, msgs, turn, next>>
  BY DEF TurnOver, loopVars
<1>5. AllAnswered' /\ NoStray' /\ AdvertisedIsFound'
  BY <1>3, <1>4 DEF LoopInv, AllAnswered, AnswerOf, Answers, NoStray, AdvertisedIsFound
<1> QED BY <1>4, <1>5 DEF LoopInv, TurnOver

LEMMA LoopKept == AccountInv /\ LoopInv /\ [Next]_vars => LoopInv'
<1> SUFFICES ASSUME AccountInv, LoopInv, [Next]_vars
             PROVE  LoopInv'
    OBVIOUS
<1>1. CASE Requesting \/ Ending \/ Solving \/ Streaming \/ Accounting \/ UNCHANGED vars
  <2>1. LoopElsewhere
    BY <1>1, LoopElsewhereSteps
  <2>2. /\ AllAnswered' <=> AllAnswered
        /\ NoStray' <=> NoStray
        /\ AdvertisedIsFound' <=> AdvertisedIsFound
        /\ \A k : Running(k)' <=> Running(k)
    BY <2>1 DEF LoopElsewhere, loopVars, AllAnswered, NoStray, AdvertisedIsFound, Running, AnswerOf,
                Answers
  <2> QED BY <2>1, <2>2 DEF LoopElsewhere, loopVars, LoopInv
<1>2. CASE RunTools
  <2>1. msgs' = <<User>> /\ advertised' = registry
    BY <1>2 DEF RunTools
  <2>2. msgs' \in Seq(Msg) /\ DOMAIN msgs' = {1} /\ msgs'[1].role = "user" /\ msgs'[1].out = "none"
    BY <2>1, UserFields
  <2>3. AllAnswered' /\ NoStray' /\ AdvertisedIsFound'
    BY <2>2 DEF AllAnswered, Answers, NoStray, AdvertisedIsFound
  <2> QED BY <1>2, <2>1, <2>2, <2>3, LoopType DEF LoopInv, RunTools
<1>3. CASE Ask \/ AskFailed
  <2>1. UNCHANGED <<registry, advertised, msgs, next>>
    BY <1>3 DEF Ask, AskFailed, loopVars
  <2>2. /\ AllAnswered' <=> AllAnswered
        /\ NoStray' <=> NoStray
        /\ AdvertisedIsFound' <=> AdvertisedIsFound
    BY <2>1 DEF AllAnswered, NoStray, AdvertisedIsFound, AnswerOf, Answers
  <2> QED BY <1>3, <2>1, <2>2, LoopType DEF LoopInv, Ask, AskFailed, loopVars
<1>4. CASE \E cs \in Calls : Answer(cs)
  BY <1>4, AnswerKeeps
<1>5. CASE \E out \in {"result", "failed"} : Invoke(out)
  BY <1>5, FeedKeeps DEF Invoke, Outs
<1>6. CASE InvokeMissing
  BY <1>6, FeedKeeps DEF InvokeMissing, Outs
<1>7. CASE TurnOver
  BY <1>7, TurnOverKeeps
<1>8. CASE Registering
  <2>1. PICK name \in Tool : Register(name)
    BY <1>8 DEF Registering
  <2>2. UNCHANGED <<pc, ret, advertised, msgs, turn, next>> /\ registry' = registry \cup {name}
    BY <2>1 DEF Register, loopVars
  <2>3. /\ AllAnswered' <=> AllAnswered
        /\ NoStray' <=> NoStray
        /\ AdvertisedIsFound' <=> AdvertisedIsFound
        /\ \A k : Running(k)' <=> Running(k)
    BY <2>2 DEF AllAnswered, NoStray, AdvertisedIsFound, Running, AnswerOf, Answers
  <2> QED BY <2>2, <2>3 DEF LoopInv
<1> QED BY <1>1, <1>2, <1>3, <1>4, <1>5, <1>6, <1>7, <1>8 DEF Next, Tools, ToolLoopStep

LEMMA LoopHolds == Spec => []LoopInv
BY AccountHolds, LoopStarts, LoopKept, PTL DEF Spec

\* Whenever the model is asked, and in what RunTools returns, each call has its result
\* and each result its call.
THEOREM AnsweredTheorem == Spec => []AnsweredInOrder
<1>1. LoopInv => AnsweredInOrder
  BY DEF LoopInv, AnsweredInOrder, AllAnswered, NoStray
<1> QED BY LoopHolds, <1>1, PTL

\* A tool whose schema was sent is found, whatever is registered meanwhile.
THEOREM FoundTheorem == Spec => []AdvertisedIsFound
<1>1. LoopInv => AdvertisedIsFound
  BY DEF LoopInv
<1> QED BY LoopHolds, <1>1, PTL

(***************************************************************************)
(* Types                                                                    *)
(***************************************************************************)

PlaceTypeOK ==
  /\ pc \in Programs \cup {"ask", "answer", "run", "ack", "wait", "poll",
                           "opening", "consume", "returned"} \cup AccountPlaces
  /\ reader \in {"none", "scan", "send", "final", "ended"}
  /\ cause \in {"none", "eof", "broken", "context"}
  /\ hold \in Event
  /\ taken \in 0 .. Len(sent)

LEMMA PlaceStarts == Init => PlaceTypeOK
<1> SUFFICES ASSUME Init
             PROVE  PlaceTypeOK
    OBVIOUS
<1>1. Len(sent) = 0
  BY DEF Init, StreamInit
<1> QED BY <1>1 DEF Init, StreamInit, PlaceTypeOK, Programs, Event

LEMMA PlaceKept == AccountInv /\ StreamInv /\ PlaceTypeOK /\ [Next]_vars => PlaceTypeOK'
<1> SUFFICES ASSUME AccountInv, StreamInv, PlaceTypeOK, [Next]_vars
             PROVE  PlaceTypeOK'
    OBVIOUS
<1>0. sent \in Seq(Event) /\ Chunks \in Nat /\ pos \in 0 .. Chunks + 1
  BY StreamType DEF StreamInv
<1>1. CASE Requesting \/ Ending \/ UNCHANGED vars
  BY <1>1 DEF Requesting, Ending, EndContext, vars, streamVars, PlaceTypeOK
<1>2. CASE Tools
  BY <1>2 DEF Tools, ToolLoopStep, Registering, Register, RunTools, Ask, Answer, AskFailed,
     Invoke, InvokeMissing, Feed, TurnOver, streamVars, PlaceTypeOK
<1>3. CASE Solving
  BY <1>3 DEF Solving, SolveStep, Solve, SolveFailed, Decoded, Poll, PollRefused, PollFailed,
     WaitEnded, StartJob, ReadJob, JobEnds, Returns, streamVars, PlaceTypeOK
<1>4. CASE OpenStep \/ ConsumerStep \/ Leave
  BY <1>4, <1>0 DEF OpenStep, OpenStream, Opened, OpenRefused, OpenFailed, ConsumerStep, Receive,
     Collected, Leave, Buffered, streamVars, PlaceTypeOK
<1>5. CASE ReadFrame \/ ReadDone
  BY <1>5, <1>0 DEF ReadFrame, ReadDone, Reads, Event, PlaceTypeOK
<1>6. CASE ReadEnd \/ ReadBroken \/ ReadStopped \/ FinalSkipped
  BY <1>6 DEF ReadEnd, ReadBroken, ReadStopped, StopsReading, FinalSkipped, PlaceTypeOK
<1>7. CASE SendEvent \/ SendFinal
  <2>1. Len(sent') = Len(sent) + 1
    BY <1>7, <1>0 DEF SendEvent, SendFinal, PlaceTypeOK, Event
  <2> QED BY <1>7, <1>0, <2>1 DEF SendEvent, SendFinal, PlaceTypeOK
<1>8. CASE Accounting
  BY <1>8, AccountingSteps DEF PlaceTypeOK, streamVars
<1> QED BY <1>1, <1>2, <1>3, <1>4, <1>5, <1>6, <1>7, <1>8
        DEF Next, Streaming, ReaderStep, StreamServer, TimedOut

LEMMA PlaceHolds == Spec => []PlaceTypeOK
BY AccountHolds, StreamHolds, PlaceStarts, PlaceKept, PTL DEF Spec

\* Every variable of the client keeps its type.
THEOREM TypeTheorem == Spec => []TypeOK
<1>1. RequestInv => RequestTypeOK
  BY DEF RequestInv
<1>2. LoopInv => ToolLoopTypeOK
  BY DEF LoopInv, ToolLoopTypeOK
<1>3. SolveInv => SolveTypeOK
  BY DEF SolveInv, Known, SolveTypeOK
<1>4. StreamInv /\ PlaceTypeOK => StreamTypeOK
  BY DEF StreamInv, PlaceTypeOK, StreamTypeOK
<1>5. AccountInv => AccountTypeOK
  BY DEF AccountInv
<1>6. AccountInv /\ RequestInv /\ LoopInv /\ SolveInv /\ StreamInv /\ PlaceTypeOK => TypeOK
  BY <1>1, <1>2, <1>3, <1>4, <1>5 DEF TypeOK, PlaceTypeOK, AccountPlaces, Programs
<1> QED BY AccountHolds, RequestHolds, LoopHolds, SolveHolds, StreamHolds, PlaceHolds, <1>6, PTL
=============================================================================
