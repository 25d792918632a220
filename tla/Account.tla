------------------------------ MODULE Account ------------------------------
(***************************************************************************)
(* Clients and the calls that are one request each.  New builds a client    *)
(* from the environment and the options, WithOptions a second one from a    *)
(* copy of the first (client.go).  Login, Register and Logout change its    *)
(* token (auth.go); the wrappers of the orchestrator's endpoints refuse     *)
(* their input, are not implemented, or send one request and decode the     *)
(* reply (billing.go, fleet.go, tenant.go, rag.go, llm.go).                 *)
(*                                                                         *)
(* A client refers to things outside of itself: an http.Client, whose       *)
(* transport may retry, and the generated core, whose request editor reads  *)
(* the headers of the client it was made for.                               *)
(*                                                                         *)
(* One program makes one call at a time, with both clients; its other       *)
(* goroutines change tokens and organizations whenever they like, also      *)
(* while the headers of a request are read.                                 *)
(***************************************************************************)
EXTENDS Transport

CONSTANT MaxActs  \* options, calls and changes of a token, a bound of the model

ASSUME ActsAssumption == MaxActs \in Nat

VARIABLES
  cli,      \* the two clients
  made,     \* those that New and WithOptions have returned
  wrapped,  \* how often the transport of each http.Client retries, 0 if it was not wrapped
  asked,    \* the request in hand: in whose name it was made, and what it says
  left      \* options, calls and changes that may still come

accountVars == <<cli, made, wrapped, asked, left>>

Which == {"receiver", "clone"}

\* The tokens: none, that of KORAI_API_KEY, one that the program gives, and one that
\* the server grants.
Keys  == {"", "env", "given", "granted"}
Hosts == {"cloud", "other", "worker"}
Orgs  == {"", "org"}

\* An http.Client is named for the client whose finalize made it.
Doers == Which \cup {"caller"}

NoGen == [server |-> "cloud", doer |-> "nil", client |-> "receiver"]

\* What New starts from: the defaults, with the token and the host of the environment.
From(key, host) ==
  [apiKey |-> key, baseURL |-> host, organizationID |-> "",
   maxRetries |-> MaxRetries, supplied |-> FALSE, httpClient |-> "nil", gen |-> NoGen]

Fresh == From("", "cloud")

NoRequest == [client |-> "receiver", server |-> "cloud", key |-> "", org |-> ""]

Cores   == [server : Hosts, doer : Doers \cup {"nil"}, client : Which]
Records == [apiKey : Keys, baseURL : Hosts, organizationID : Orgs, maxRetries : 0 .. MaxRetries,
            supplied : BOOLEAN, httpClient : Doers \cup {"nil"}, gen : Cores]

AccountTypeOK ==
  /\ cli \in [Which -> Records]
  /\ made \subseteq Which
  /\ wrapped \in [Doers -> 0 .. MaxRetries]
  /\ asked \in [client : Which, server : Hosts, key : Keys \cup {"torn"}, org : Orgs \cup {"torn"}]
  /\ left \in 0 .. MaxActs

AccountInit ==
  /\ cli = [c \in Which |-> Fresh]
  /\ made = {}
  /\ wrapped = [h \in Doers |-> 0]
  /\ asked = NoRequest
  /\ left = MaxActs

\* n more of what is bounded.
Acts(n) == left >= n /\ left' = left - n

----------------------------------------------------------------------------
(* New and WithOptions *)

WithAPIKey(r)         == [r EXCEPT !.apiKey = "given"]
WithBaseURL(r)        == [r EXCEPT !.baseURL = "other"]
\* Mutant: the token is kept.
WithWorkerOnly(r) == [r EXCEPT !.baseURL = "worker"]

WithLocalWorker(r)    == [r EXCEPT !.baseURL = "worker", !.apiKey = ""]
WithOrganizationID(r) == [r EXCEPT !.organizationID = "org"]
WithHTTPClient(r, h)  == [r EXCEPT !.httpClient = h, !.supplied = TRUE]
WithMaxRetries(r, n)  == [r EXCEPT !.maxRetries = n]

\* What an option may make of a client.  A nil http.Client counts as supplied; the
\* timeout, the user agent and the audit store make no difference here.
Options(r) ==
  {WithAPIKey(r), WithBaseURL(r), WithLocalWorker(r), WithOrganizationID(r),
   WithHTTPClient(r, "caller"), WithHTTPClient(r, "nil")}
    \cup {WithMaxRetries(r, n) : n \in 0 .. MaxRetries}

\* The environment is read before the options are applied: KORAI_API_KEY and
\* KORAI_BASE_URL are both set, or neither is.
New ==
  /\ pc = "account"
  /\ \E r \in {Fresh, From("env", "other")} : cli' = [cli EXCEPT !["receiver"] = r]
  /\ pc' = "new"
  /\ UNCHANGED <<ctx, request, ret, made, wrapped, asked, left>>

Configures(c) ==
  \/ c = "receiver" /\ pc = "new"
  \/ c = "clone" /\ pc = "with"

Option(c) ==
  /\ Configures(c)
  /\ Acts(1)
  /\ \E r \in Options(cli[c]) : cli' = [cli EXCEPT ![c] = r]
  /\ UNCHANGED <<ctx, request, pc, ret, made, wrapped, asked>>

\* Mutant: the core that a copy brought along is kept.
KeptCore(r, doer, c) ==
  IF r.gen = NoGen THEN [server |-> r.baseURL, doer |-> doer, client |-> c] ELSE r.gen

\* The generated core of client c: it goes to the server by doer, with c's headers.
Core(r, doer, c) == [server |-> r.baseURL, doer |-> doer, client |-> c]

\* finalize: an http.Client is made if there is none, wrapped if it is the SDK's own,
\* and the generated core is built anew.
Finalize(c) ==
  LET r    == cli[c]
      own  == r.httpClient = "nil" \/ ~r.supplied
      doer == IF r.httpClient = "nil" THEN c ELSE r.httpClient
  IN  /\ Configures(c)
      /\ cli' = [cli EXCEPT ![c] = [r EXCEPT !.httpClient = doer, !.gen = Core(r, doer, c)]]
      /\ wrapped' = IF own /\ r.maxRetries > 0 THEN [wrapped EXCEPT ![doer] = r.maxRetries]
                                               ELSE wrapped
      /\ made' = made \cup {c}
      /\ pc' = "idle"
      /\ UNCHANGED <<ctx, request, ret, asked, left>>

\* Mutant: the copy keeps the receiver's http.Client.
WithSameClient ==
  /\ pc = "idle"
  /\ "clone" \notin made
  /\ Acts(1)
  /\ cli' = [cli EXCEPT !["clone"] = cli["receiver"]]
  /\ pc' = "with"
  /\ UNCHANGED <<ctx, request, ret, made, wrapped, asked>>

\* The copy keeps the receiver's http.Client if that was supplied.
WithOptions ==
  /\ pc = "idle"
  /\ "clone" \notin made
  /\ Acts(1)
  /\ LET r == cli["receiver"]
     IN  cli' = [cli EXCEPT !["clone"] =
                   [r EXCEPT !.httpClient = IF r.supplied THEN @ ELSE "nil"]]
  /\ pc' = "with"
  /\ UNCHANGED <<ctx, request, ret, made, wrapped, asked>>

----------------------------------------------------------------------------
(* Sending a request in a client's name *)

UseToken(c, k)           == cli' = [cli EXCEPT ![c].apiKey = k]
SetOrganizationID(c, id) == cli' = [cli EXCEPT ![c].organizationID = id]

\* What a field is read as while another goroutine assigns v to it, without a lock:
\* its old value, the new one, or part of each.
Raced(old, v) == {old, v, "torn"}

\* The request that is made in the name of client c: its URL is one of server, and it
\* says token k and organization o.
Built(c, server, k, o) == [client |-> c, server |-> server, key |-> k, org |-> o]

\* defaultHeaders of client d, for a request of client c; n of what is bounded.
Headers(c, d, server, n) ==
  LET Says(k, o) == asked' = Built(c, server, k, o)
      key == cli[d].apiKey
      org == cli[d].organizationID
  IN  \/ Says(key, org) /\ UNCHANGED cli /\ Acts(n)
      \/ /\ key # "given" /\ UseToken(d, "given") /\ Acts(n + 1)
         /\ \E k \in Raced(key, "given") : Says(k, org)
      \/ /\ org # "org" /\ SetOrganizationID(d, "org") /\ Acts(n + 1)
         /\ \E o \in Raced(org, "org") : Says(key, o)

\* A generated method: the core's server, request editor and http.Client.
Generated(c, p) ==
  /\ Headers(c, cli[c].gen.client, cli[c].gen.server, 1)
  /\ IssueOver(wrapped[cli[c].gen.doer])
  /\ pc' = p
  /\ ret' = "none"

\* doRequest and DoRaw: the client's own fields.
Direct(c, p, n) ==
  /\ Headers(c, c, cli[c].baseURL, n)
  /\ IssueOver(wrapped[cli[c].httpClient])
  /\ pc' = p
  /\ ret' = "none"

----------------------------------------------------------------------------
(* The calls *)

Here(how) ==
  /\ Acts(1)
  /\ ret' = how
  /\ UNCHANGED <<request, pc, asked>>

\* ErrInvalidConfig, ErrNotImplemented: there is no request.
Refused == Here("failed") /\ UNCHANGED cli

Login(c)        == Generated(c, "login")
Registration(c) == Refused \/ Generated(c, "login")
Me(c)           == Generated(c, "fetch")
Refresh         == Refused

\* The token is dropped before the request is made.
Logout(c) ==
  /\ Acts(1)
  /\ UseToken(c, "")
  /\ pc' = "leaving"
  /\ asked' = [asked EXCEPT !.client = c]
  /\ ret' = "none"
  /\ UNCHANGED request

SwitchOrganization(c) ==
  \/ Refused
  \/ SetOrganizationID(c, "org") /\ Here("ok")

Tenant(c)      == Refused \/ SwitchOrganization(c)
Rag            == Refused
Billing(c)     == Generated(c, "fetch") \/ Refused
Fleet(c)       == Generated(c, "fetch")
CountTokens(c) == Refused \/ Generated(c, "fetch")
Models(c)      == Generated(c, "fetch")
DoRaw(c)       == Direct(c, "raw", 1)

CallOn(c) ==
  /\ pc = "idle"
  /\ c \in made
  /\ \/ Login(c) \/ Registration(c) \/ Me(c) \/ Refresh \/ Logout(c)
     \/ Tenant(c) \/ Rag \/ Billing(c) \/ Fleet(c) \/ CountTokens(c) \/ Models(c) \/ DoRaw(c)
  /\ UNCHANGED <<ctx, made, wrapped>>

LogoutSends ==
  /\ pc = "leaving"
  /\ Direct(asked.client, "logout", 0)
  /\ UNCHANGED <<ctx, made, wrapped>>

----------------------------------------------------------------------------
(* How they end *)

\* The outcome is what the caller gets.  The next call has a context of its own.
Ends(how) ==
  /\ pc' = "idle"
  /\ ret' = how
  /\ ctx' = "live"
  /\ asked' = NoRequest
  /\ UNCHANGED <<made, wrapped, left>>

Failed ==
  /\ pc \in {"login", "fetch"}
  /\ outcome # "ok"
  /\ Take
  /\ Ends("failed")
  /\ UNCHANGED cli

\* A reply without a token is refused.
LoggedIn ==
  /\ pc = "login"
  /\ outcome = "ok"
  /\ Take
  /\ \/ UseToken(asked.client, "granted") /\ Ends("ok")
     \/ UNCHANGED cli /\ Ends("failed")

\* Me refuses a reply without a user.
Answered ==
  /\ pc = "fetch"
  /\ outcome = "ok"
  /\ Take
  /\ Ends("ok") \/ Ends("failed")
  /\ UNCHANGED cli

\* Logout swallows the error of its request.
LoggedOut ==
  /\ pc = "logout"
  /\ Take
  /\ Ends("ok")
  /\ UNCHANGED cli

\* DoRaw returns the response unread, whatever its status.
RawReturned ==
  /\ pc = "raw"
  /\ \/ phase = "reading" /\ Clear /\ Ends("ok")
     \/ Take /\ Ends("failed")
  /\ UNCHANGED cli

\* The program has done what it wanted.
Leaves ==
  /\ pc = "idle"
  /\ pc' = "returned"
  /\ UNCHANGED <<ctx, request, ret, accountVars>>

AccountStep ==
  \/ New
  \/ \E c \in Which : Option(c) \/ Finalize(c) \/ CallOn(c)
  \/ WithOptions
  \/ LogoutSends
  \/ Failed
  \/ LoggedIn
  \/ Answered
  \/ LoggedOut
  \/ RawReturned
  \/ Leaves

\* Another goroutine of the program changes a token or an organization.  Between the
\* start of a request and its end nothing reads them, so a change that comes then is
\* as one that comes later.
Rotates(c) ==
  /\ pc \in {"with", "idle", "leaving"} \/ (pc = "login" /\ phase = "over")
  /\ c \in made
  /\ Acts(1)
  /\ UseToken(c, "given") \/ UseToken(c, "") \/ SetOrganizationID(c, "org")
  /\ UNCHANGED <<ctx, request, pc, ret, made, wrapped, asked>>

----------------------------------------------------------------------------
(* Properties *)

Sends == phase = "none" /\ phase' = "ready"

\* The retries that a client was asked to make; of a client that was given its
\* http.Client nothing is promised.
Promised(r) == ~r.supplied => limit' = r.maxRetries

\* A request goes to the host of the client it was called on, with that client's token
\* and organization unless somebody replaces them in the same moment, and is retried
\* as often as that client says.
OwnRequest ==
  [][\A c \in made :
       Sends /\ asked'.client = c =>
         /\ asked'.server = cli[c].baseURL
         /\ cli'[c].apiKey = cli[c].apiKey => asked'.key = cli[c].apiKey
         /\ cli'[c].organizationID = cli[c].organizationID =>
              asked'.org = cli[c].organizationID
         /\ Promised(cli[c])]_<<phase, accountVars>>

\* What happens to one client, to its token, its organization or its http.Client, changes
\* nothing of the other one.
ClientsApart ==
  [][\A c, d \in Which :
       c # d /\ d \in made /\ cli'[c] # cli[c] =>
         /\ cli'[d] = cli[d]
         /\ wrapped'[cli[d].httpClient] = wrapped[cli[d].httpClient]]_<<cli, wrapped>>

\* A local worker never gets the token of the environment.
LocalIsAnonymous == asked.server = "worker" => asked.key # "env"

=============================================================================
