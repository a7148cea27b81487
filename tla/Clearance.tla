------------------------------ MODULE Clearance ------------------------------
(***************************************************************************)
(* Sessions of Wr4nglers: Signal Clearance (signal-clearance/src) logs them *)
(* in at the identity provider, keeps their refresh tokens in Redis and     *)
(* issues short-lived JWTs; the gateway passes the requests on and checks   *)
(* the JWTs (gateway/main.go, jwt.go); the browser holds a cookie and a JWT *)
(* and refreshes before every call (ui/src/hooks/useAuth.ts).               *)
(*                                                                         *)
(* Signal Clearance is one thread: what a handler does between two awaits   *)
(* is one step, and handlers interleave at every await.  Its records of     *)
(* people, its pending logins and its keys are in memory.                   *)
(***************************************************************************)
EXTENDS Integers, FiniteSets

CONSTANTS
  Browsers, Persons,
  Who,          \* the person at each browser
  Nil,
  TTL,          \* life of a JWT: 15 minutes in the code
  PendingTTL,   \* life of a pending login: 10 minutes
  MinRefresh,   \* seconds between two fetches of the provider's keys: 300
  MaxTime, MaxRequests, MaxFaults, MaxKeys,
  MaxResets     \* restarts of Signal Clearance, and key resets by an administrator

\* IDs of wranglers: a person's from one restart to the next.
IDs == Persons \X (1 .. MaxResets + 1)
JWT == [id : IDs, exp : Nat]

ASSUME ClearanceAssumption ==
  /\ Who \in [Browsers -> Persons]
  /\ Nil \notin Nat \cup Browsers \cup {"active", "revoked"} \cup JWT
  /\ TTL \in Nat /\ PendingTTL \in Nat /\ MinRefresh \in Nat \ {0}
  /\ MaxTime \in Nat /\ MaxRequests \in Nat /\ MaxFaults \in Nat
  /\ MaxKeys \in Nat \ {0} /\ MaxResets \in Nat

Numbers == 1 .. MaxRequests

VARIABLES
  clock,
  boot,       \* starts of Signal Clearance
  record,     \* wranglers: Nil, "active" or "revoked" for each person
  pending,    \* pendingStates: the login's number, its browser, when it was made
  keys,       \* the JWKSClient: keys cached, time of the last fetch, which client it is
  idp,        \* the provider (external): its latest key and since when it publishes each
  sessions,   \* seti:refresh:* in Redis: token and wrangler ID
  request,    \* handlers at work and answers on their way
  sent,       \* numbers given to requests and pending logins
  cookie,     \* the refresh token a browser holds
  jwt,        \* the JWT in its localStorage
  faults,
  \* History.
  revokedAt,  \* when a wrangler ID was revoked
  promised,   \* tokens that a logout or a revocation was to delete, and said it had
  exchanged,  \* how often each login's code was exchanged
  ended,      \* browsers whose session was ended, or that met a fault or a restart
  overlapped  \* browsers whose refreshes overlapped

client == <<cookie, jwt>>
history == <<revokedAt, promised, exchanged, ended, overlapped>>
vars == <<clock, boot, record, pending, keys, idp, sessions, request, sent, client, faults,
          history>>

\* The ID is random and made anew after a restart.
WranglerID(p) == <<p, boot>>

Free == [kind |-> "none", step |-> "none", browser |-> Nil, stale |-> FALSE]
Working(n) == request[n].step \notin {"none", "ok", "refused"}
InFlight(b) == {n \in Numbers : request[n].browser = b}

Session == [token : Numbers, id : IDs]
Key == 1 .. MaxKeys

\* What a handler knows at each of its steps.
LoginState ==
  [kind : {"login"}, browser : Browsers, stale : BOOLEAN, step : {"exchange"}] \cup
  [kind : {"login"}, browser : Browsers, stale : BOOLEAN, step : {"verify", "complete"}, key : Key] \cup
  [kind : {"login"}, browser : Browsers, stale : BOOLEAN, step : {"fetch"}, key : Key, client : Nat] \cup
  [kind : {"login"}, browser : Browsers, stale : BOOLEAN, step : {"import", "complete"}, key : Key,
   client : Nat, found : SUBSET Key] \cup
  [kind : {"login"}, browser : Browsers, stale : BOOLEAN, step : {"store", "ok"}, jwt : JWT]
RefreshState ==
  [kind : {"refresh"}, browser : Browsers, stale : BOOLEAN, step : {"get", "refused"},
   token : Numbers] \cup
  [kind : {"refresh"}, browser : Browsers, stale : BOOLEAN, step : {"del", "check", "refused"},
   token : Numbers, id : IDs] \cup
  [kind : {"refresh"}, browser : Browsers, stale : BOOLEAN, step : {"store", "ok", "refused"},
   jwt : JWT]
DeletionState ==
  [kind : {"logout", "revoke"}, browser : Browsers \cup {Nil}, stale : BOOLEAN, step : {"scan", "ok"},
   id : IDs, left : SUBSET Session, todo : SUBSET Session, all : SUBSET Numbers]
Request == {Free} \cup LoginState \cup RefreshState \cup DeletionState

TypeOK ==
  /\ clock \in Nat /\ boot \in 1 .. MaxResets + 1
  /\ record \in [Persons -> {Nil, "active", "revoked"}]
  /\ pending \subseteq [number: Numbers, browser: Browsers, born: Nat]
  /\ keys \in [cache : SUBSET Key, fetched : Int, client : Nat \ {0}]
  /\ idp \in [latest : Key, since : [Key -> Nat]]
  /\ sessions \subseteq Session
  /\ request \in [Numbers -> Request]
  /\ sent \in 0 .. MaxRequests
  /\ cookie \in [Browsers -> Numbers \cup {Nil}] /\ jwt \in [Browsers -> JWT \cup {Nil}]
  /\ faults \in Nat
  /\ revokedAt \in [IDs -> Nat \cup {Nil}] /\ exchanged \in [Numbers -> Nat]
  /\ promised \subseteq Numbers /\ ended \subseteq Browsers /\ overlapped \subseteq Browsers

NoKeys == [cache |-> {}, fetched |-> -MinRefresh, client |-> 1]

Init ==
  /\ clock = 0 /\ boot = 1
  /\ record = [p \in Persons |-> Nil]
  /\ pending = {} /\ keys = NoKeys
  /\ idp = [latest |-> 1, since |-> [k \in 1 .. MaxKeys |-> 0]]
  /\ sessions = {}
  /\ request = [n \in Numbers |-> Free] /\ sent = 0
  /\ cookie = [b \in Browsers |-> Nil] /\ jwt = [b \in Browsers |-> Nil]
  /\ faults = 0
  /\ revokedAt = [i \in IDs |-> Nil] /\ promised = {} /\ exchanged = [n \in Numbers |-> 0]
  /\ ended = {} /\ overlapped = {}

Fault == faults < MaxFaults /\ faults' = faults + 1

\* VerifyJWT: the signature, which nobody here can make, and the time.
Accepted(token) == token # Nil /\ clock <= token.exp

\* requireAuth: what the page of b asks of the gateway is passed on with its wrangler's ID.
LetIn(b) == Accepted(jwt[b])

Issued(id) == [id |-> id, exp |-> clock + TTL]

At(n, kind, step) == request[n].kind = kind /\ request[n].step = step
Goto(n, step) == request' = [request EXCEPT ![n].step = step]

\* An error of the handler: of its answers, only a page's refresh takes notice.
Refused(r) == IF r.kind = "refresh" THEN [r EXCEPT !.step = "refused"] ELSE Free
Refuse(n) == request' = [request EXCEPT ![n] = Refused(@)]
Hurt(n) == ended' = ended \cup (Browsers \cap {request[n].browser})

\* A command of Redis fails, or its answer is lost: the handler answers 500.
RedisFails(n) == Fault /\ Refuse(n) /\ Hurt(n)

\* What the steps of a handler leave alone.
Others == UNCHANGED <<clock, boot, pending, idp, sent, client>>

-----------------------------------------------------------------------------
(* Time, the provider and its keys                                          *)

Tick ==
  /\ clock < MaxTime /\ clock' = clock + 1
  /\ UNCHANGED <<boot, record, pending, keys, idp, sessions, request, sent, client, faults,
                 history>>

\* The interval that removes logins never completed.
Sweep ==
  LET old == {e \in pending : e.born + PendingTTL < clock} IN
  /\ old # {} /\ pending' = pending \ old
  /\ UNCHANGED <<clock, boot, record, keys, idp, sessions, request, sent, client, faults,
                 history>>

\* The provider publishes another key beside the old ones, and signs with it.
Rotate ==
  /\ idp.latest < MaxKeys
  /\ idp' = [latest |-> idp.latest + 1, since |-> [idp.since EXCEPT ![idp.latest + 1] = clock]]
  /\ UNCHANGED <<clock, boot, record, pending, keys, sessions, request, sent, client, faults,
                 history>>

\* refreshJWKS: the client is dropped and the next login makes a new one.
RefreshKeys ==
  /\ boot + keys.client < MaxResets + 2
  /\ keys' = [NoKeys EXCEPT !.client = keys.client + 1]
  /\ UNCHANGED <<clock, boot, record, pending, idp, sessions, request, sent, client, faults,
                 history>>

-----------------------------------------------------------------------------
(* Logging in                                                               *)

\* The page goes away: what its fetches bring no longer reaches it.
Abandon(b) == [n \in Numbers |->
  IF request[n].browser = b THEN [request[n] EXCEPT !.stale = TRUE] ELSE request[n]]
Abandoned(b) == IF InFlight(b) = {} THEN ended ELSE ended \cup {b}

\* handleLoginRedirect and /auth/oidc/authorize.
Authorize(b) ==
  /\ sent < MaxRequests /\ sent' = sent + 1
  /\ pending' = pending \cup {[number |-> sent', browser |-> b, born |-> clock]}
  /\ request' = Abandon(b) /\ ended' = Abandoned(b)
  /\ UNCHANGED <<clock, boot, record, keys, idp, sessions, client, faults,
                 revokedAt, promised, exchanged, overlapped>>

Login(b) == [kind |-> "login", step |-> "exchange", browser |-> b, stale |-> FALSE]

\* handleOIDCCallback and /auth/oidc/callback: a state that is not pending is refused and
\* changes nothing, as when the browser repeats the request.
Callback(n) ==
  \E e \in pending :
    /\ e.number = n
    /\ pending' = pending \ {e}
    /\ request' = [request EXCEPT ![n] = Login(e.browser)]
    /\ UNCHANGED <<clock, boot, record, keys, idp, sessions, sent, client, faults, history>>

\* exchangeCode: the provider answers with an ID token signed with its latest key.
Exchange(n) ==
  /\ At(n, "login", "exchange")
  /\ exchanged' = [exchanged EXCEPT ![n] = @ + 1]
  /\ \/ /\ request' = [request EXCEPT ![n] = [kind |-> "login", step |-> "verify",
              browser |-> @.browser, stale |-> @.stale, key |-> idp.latest]]
        /\ UNCHANGED <<faults, ended>>
     \/ Fault /\ Refuse(n) /\ Hurt(n)
  /\ UNCHANGED <<record, keys, sessions, revokedAt, promised, overlapped>> /\ Others

\* verify: the key is cached, or it is too early to fetch, or the keys are fetched.
Verify(n) ==
  /\ At(n, "login", "verify")
  /\ \/ request[n].key \in keys.cache /\ Goto(n, "complete")
     \/ /\ request[n].key \notin keys.cache /\ clock - keys.fetched < MinRefresh
        /\ Refuse(n)
     \/ /\ request[n].key \notin keys.cache /\ clock - keys.fetched >= MinRefresh
        /\ request' = [request EXCEPT ![n] = [kind |-> "login", step |-> "fetch",
              browser |-> @.browser, stale |-> @.stale, key |-> @.key, client |-> keys.client]]
  /\ UNCHANGED <<record, keys, sessions, faults, history>> /\ Others

\* Mutant of Fetch: a fetch that failed counts for the rate limit.
FetchCounted(n) ==
  /\ At(n, "login", "fetch")
  /\ \/ request' = [request EXCEPT ![n] = [kind |-> "login", step |-> "import",
              browser |-> @.browser, stale |-> @.stale, key |-> @.key,
              found |-> 1 .. idp.latest, client |-> @.client]]
        /\ UNCHANGED <<faults, ended>>
     \/ Fault /\ Refuse(n) /\ Hurt(n)
  /\ keys' = [keys EXCEPT !.fetched = clock]
  /\ UNCHANGED <<record, sessions, revokedAt, promised, exchanged, overlapped>> /\ Others

\* fetchAndCache: the answer sets the lastFetch of the client that verify began with,
Fetch(n) ==
  /\ At(n, "login", "fetch")
  /\ \/ /\ request' = [request EXCEPT ![n] = [kind |-> "login", step |-> "import",
              browser |-> @.browser, stale |-> @.stale, key |-> @.key,
              found |-> 1 .. idp.latest, client |-> @.client]]
        /\ keys' = IF request[n].client = keys.client
                   THEN [keys EXCEPT !.fetched = clock] ELSE keys
        /\ UNCHANGED <<faults, ended>>
     \/ Fault /\ Refuse(n) /\ Hurt(n) /\ UNCHANGED keys
  /\ UNCHANGED <<record, sessions, revokedAt, promised, exchanged, overlapped>> /\ Others

\* and after an await the keys are in its cache.
Import(n) ==
  /\ At(n, "login", "import")
  /\ keys' = IF request[n].client = keys.client
             THEN [keys EXCEPT !.cache = @ \cup request[n].found] ELSE keys
  /\ IF request[n].key \in request[n].found THEN Goto(n, "complete") ELSE Refuse(n)
  /\ UNCHANGED <<record, sessions, faults, history>> /\ Others

\* History: a login begins a session of its own, if nothing of an earlier one is on its way
\* and its page is still there.
Afresh(n) ==
  LET b == request[n].browser IN
  IF InFlight(b) = {n} /\ ~request[n].stale /\
     \A m \in Numbers : request[m].kind \in {"logout", "revoke"} => request[m].id[1] # Who[b]
  THEN ended' = ended \ {b} /\ overlapped' = overlapped \ {b}
  ELSE UNCHANGED <<ended, overlapped>>

\* The rest of completeAuth: upsertWrangler keeps the status of a record there is.
Complete(n) ==
  LET p == Who[request[n].browser] IN
  /\ At(n, "login", "complete") /\ record[p] # "revoked"
  /\ record' = [record EXCEPT ![p] = "active"]
  /\ request' = [request EXCEPT ![n] = [kind |-> "login", step |-> "store",
        browser |-> @.browser, stale |-> @.stale, jwt |-> Issued(WranglerID(p))]]
  /\ Afresh(n)
  /\ UNCHANGED <<keys, sessions, faults, revokedAt, promised, exchanged>> /\ Others

\* A person who was revoked, or whose groups map to no clearance level, is refused.
TurnAway(n) ==
  /\ At(n, "login", "complete") /\ Refuse(n)
  /\ UNCHANGED <<record, keys, sessions, faults, history>> /\ Others

\* issueRefreshToken, of a login and of a refresh.
Store(n) ==
  /\ request[n].step = "store"
  /\ LET new == sessions \cup {[token |-> n, id |-> request[n].jwt.id]} IN
       \/ Goto(n, "ok") /\ sessions' = new /\ UNCHANGED <<faults, ended>>
       \/ RedisFails(n) /\ sessions' \in {sessions, new}
  /\ UNCHANGED <<record, keys, revokedAt, promised, exchanged, overlapped>> /\ Others

-----------------------------------------------------------------------------
(* Refreshing                                                               *)

Send(b, r) ==
  /\ sent < MaxRequests /\ sent' = sent + 1
  /\ request' = [request EXCEPT ![sent'] = r]

\* silentRefresh, with the cookie of that moment.  Two calls of the page refresh at once.
Refresh(b) ==
  /\ cookie[b] # Nil
  /\ Send(b, [kind |-> "refresh", step |-> "get", browser |-> b, stale |-> FALSE,
              token |-> cookie[b]])
  /\ overlapped' = IF InFlight(b) = {} THEN overlapped ELSE overlapped \cup {b}
  /\ UNCHANGED <<clock, boot, record, pending, keys, idp, sessions, client, faults,
                 revokedAt, promised, exchanged, ended>>

\* consumeRefreshToken: GET,
Get(n) ==
  /\ At(n, "refresh", "get")
  /\ \/ /\ \E s \in sessions : s.token = request[n].token /\
             request' = [request EXCEPT ![n] = [kind |-> "refresh", step |-> "del",
               browser |-> @.browser, stale |-> @.stale, token |-> @.token, id |-> s.id]]
        /\ UNCHANGED <<faults, ended>>
     \/ /\ \A s \in sessions : s.token # request[n].token
        /\ Refuse(n) /\ UNCHANGED <<faults, ended>>
     \/ RedisFails(n)
  /\ UNCHANGED <<record, keys, sessions, revokedAt, promised, exchanged, overlapped>> /\ Others

\* Mutant of Del: a token that is used ends every session of its person.
DelAll(n) ==
  /\ At(n, "refresh", "del")
  /\ sessions' = {s \in sessions : s.id # request[n].id}
  /\ Goto(n, "check")
  /\ UNCHANGED <<record, keys, faults, history>> /\ Others

\* and DEL, whether or not another refresh deleted the token in between.
Del(n) ==
  /\ At(n, "refresh", "del")
  /\ LET rest == {s \in sessions : s.token # request[n].token} IN
       \/ Goto(n, "check") /\ sessions' = rest /\ UNCHANGED <<faults, ended>>
       \/ RedisFails(n) /\ sessions' \in {sessions, rest}
  /\ UNCHANGED <<record, keys, revokedAt, promised, exchanged, overlapped>> /\ Others

\* Mutant of Check: the status of the record is not looked at.
CheckKnown(n) ==
  LET id == request[n].id IN
  /\ At(n, "refresh", "check")
  /\ request' = [request EXCEPT ![n] = [kind |-> "refresh", step |-> "store",
        browser |-> @.browser, stale |-> @.stale, jwt |-> Issued(id)]]
  /\ UNCHANGED <<record, keys, sessions, faults, history>> /\ Others

\* The record must be known, which none of before a restart is, and active.
Check(n) ==
  LET id == request[n].id IN
  /\ At(n, "refresh", "check")
  /\ \/ /\ id = WranglerID(id[1]) /\ record[id[1]] = "active"
        /\ request' = [request EXCEPT ![n] = [kind |-> "refresh", step |-> "store",
              browser |-> @.browser, stale |-> @.stale, jwt |-> Issued(id)]]
     \/ /\ id # WranglerID(id[1]) \/ record[id[1]] # "active"
        /\ Refuse(n)
  /\ UNCHANGED <<record, keys, sessions, faults, history>> /\ Others

-----------------------------------------------------------------------------
(* Logging out and revoking                                                 *)

Of(id) == {s \in sessions : s.id = id}
Deletion(kind, b, id) ==
  [kind |-> kind, step |-> "scan", browser |-> b, stale |-> FALSE, id |-> id,
   left |-> sessions, todo |-> {}, all |-> {s.token : s \in Of(id)}]

\* logout of useAuth: the JWT is forgotten, and the page left before the request is out.
Logout(b) ==
  /\ jwt[b] # Nil
  /\ jwt' = [jwt EXCEPT ![b] = Nil]
  /\ ended' = ended \cup {c \in Browsers : Who[c] = Who[b]}
  /\ \/ /\ sent < MaxRequests /\ sent' = sent + 1 /\ LetIn(b)
        /\ request' = [Abandon(b) EXCEPT ![sent'] =
             [Deletion("logout", b, jwt[b].id) EXCEPT !.stale = TRUE]]
     \/ request' = Abandon(b) /\ UNCHANGED sent
  /\ UNCHANGED <<clock, boot, record, pending, keys, idp, sessions, cookie, faults,
                 revokedAt, promised, exchanged, overlapped>>

\* DELETE /wranglers/:id, from an administrator: the record first.
Revoke(p) ==
  /\ record[p] # Nil
  /\ Send(Nil, Deletion("revoke", Nil, WranglerID(p)))
  /\ record' = [record EXCEPT ![p] = "revoked"]
  /\ revokedAt' = [revokedAt EXCEPT ![WranglerID(p)] = IF @ = Nil THEN clock ELSE @]
  /\ ended' = ended \cup {b \in Browsers : Who[b] = p}
  /\ UNCHANGED <<clock, boot, pending, keys, idp, sessions, client, faults,
                 promised, exchanged, overlapped>>

\* Mutant of Scan: one reply is taken for all.
ScanOnce(n) ==
  /\ request[n].step = "scan" /\ request[n].todo = {} /\ request[n].left # {}
  /\ \E batch \in SUBSET sessions :
       /\ batch \cap request[n].left # {}
       /\ request' = [request EXCEPT ![n].left = {}, ![n].todo = batch]
  /\ UNCHANGED <<record, keys, sessions, faults, history>> /\ Others

\* revokeAllSessions: SCAN returns, in as many replies as it likes, all keys that stay there
\* from its start to its end, and some of the others.
Scan(n) ==
  /\ request[n].step = "scan" /\ request[n].todo = {}
  /\ \/ /\ \E batch \in SUBSET sessions :
             /\ batch \cap request[n].left # {}
             /\ request' = [request EXCEPT ![n] =
                  [@ EXCEPT !.left = (request[n].left \cap sessions) \ batch, !.todo = batch]]
        /\ UNCHANGED <<faults, ended>>
     \/ RedisFails(n)
  /\ UNCHANGED <<record, keys, sessions, revokedAt, promised, exchanged, overlapped>> /\ Others

\* Each key is read, and deleted if it is the wrangler's.
Remove(n) ==
  /\ request[n].step = "scan" /\ request[n].todo # {}
  /\ \E s \in request[n].todo :
       LET rest == IF s.id = request[n].id THEN sessions \ {s} ELSE sessions IN
       \/ /\ sessions' = rest
          /\ request' = [request EXCEPT ![n].todo = @ \ {s}] /\ UNCHANGED <<faults, ended>>
       \/ RedisFails(n) /\ sessions' \in {sessions, rest}
  /\ UNCHANGED <<record, keys, revokedAt, promised, exchanged, overlapped>> /\ Others

Removed(n) ==
  /\ request[n].step = "scan" /\ request[n].todo = {} /\ request[n].left \cap sessions = {}
  /\ Goto(n, "ok")
  /\ promised' = promised \cup request[n].all
  /\ UNCHANGED <<record, keys, sessions, faults, revokedAt, exchanged, ended, overlapped>>
  /\ Others

-----------------------------------------------------------------------------
(* Answers                                                                  *)

\* What an answer brings: the cookie for the browser, the JWT for the page, if it is there.
SetCookie(b, token) == cookie' = [cookie EXCEPT ![b] = token]
StoreJWT(r) == jwt' = IF r.stale THEN jwt ELSE [jwt EXCEPT ![r.browser] = r.jwt]

\* Mutant of Arrive: the answer to a refresh does not set the cookie.
ArriveUnrotated(n) ==
  LET r == request[n] IN
  /\ r.step = "ok" /\ r.kind \in {"login", "refresh"}
  /\ StoreJWT(r)
  /\ IF r.kind = "login" THEN SetCookie(r.browser, n) ELSE UNCHANGED cookie
  /\ request' = [request EXCEPT ![n] = Free]
  /\ UNCHANGED <<clock, boot, record, pending, keys, idp, sessions, sent, faults, history>>

\* The answer to a login or a refresh; the browser of a page that is gone may still take the
\* cookie.
Arrive(n) ==
  LET r == request[n] IN
  /\ r.step = "ok" /\ r.kind \in {"login", "refresh"}
  /\ StoreJWT(r)
  /\ \/ SetCookie(r.browser, n)
     \/ r.stale /\ UNCHANGED cookie
  /\ request' = [request EXCEPT ![n] = Free]
  /\ UNCHANGED <<clock, boot, record, pending, keys, idp, sessions, sent, faults, history>>

ArriveDeleted(n) ==
  LET r == request[n] IN
  /\ r.step = "ok" /\ r.kind \in {"logout", "revoke"}
  /\ \/ r.kind = "logout" /\ cookie' = [cookie EXCEPT ![r.browser] = Nil]
     \/ UNCHANGED cookie
  /\ request' = [request EXCEPT ![n] = Free]
  /\ UNCHANGED <<clock, boot, record, pending, keys, idp, sessions, sent, jwt, faults, history>>

\* A refresh that was refused, for whatever reason, empties the page's JWT; the cookie stays.
ArriveRefused(n) ==
  LET r == request[n] IN
  /\ r.step = "refused"
  /\ jwt' = IF r.stale THEN jwt ELSE [jwt EXCEPT ![r.browser] = Nil]
  /\ request' = [request EXCEPT ![n] = Free]
  /\ UNCHANGED <<clock, boot, record, pending, keys, idp, sessions, sent, cookie, faults, history>>

\* The answer is lost on its way: the gateway makes an error of it, or the fetch fails and
\* the page stays as it is.
AnswerLost(n) ==
  LET r == request[n] IN
  /\ r.step = "ok" /\ Fault
  /\ ended' = ended \cup (Browsers \cap {r.browser})
  /\ Refuse(n) \/ request' = [request EXCEPT ![n] = Free]
  /\ UNCHANGED <<clock, boot, record, pending, keys, idp, sessions, sent, client,
                 revokedAt, promised, exchanged, overlapped>>

\* Signal Clearance is killed, or drained for 15 s and ended, and started again.
Restart ==
  /\ boot + keys.client < MaxResets + 2 /\ boot' = boot + 1
  /\ record' = [p \in Persons |-> Nil] /\ pending' = {} /\ keys' = [NoKeys EXCEPT !.client = keys.client]
  /\ request' = [n \in Numbers |->
       IF Working(n) THEN Refused(request[n]) ELSE request[n]]
  /\ ended' = Browsers
  /\ UNCHANGED <<clock, idp, sessions, sent, client, faults, revokedAt, promised, exchanged,
                 overlapped>>

-----------------------------------------------------------------------------
Handler(n) ==
  \/ Callback(n) \/ Exchange(n) \/ Verify(n) \/ Fetch(n) \/ Import(n)
  \/ Complete(n) \/ TurnAway(n) \/ Store(n) \/ Get(n) \/ Del(n) \/ Check(n)
  \/ Scan(n) \/ Remove(n) \/ Removed(n)
  \/ Arrive(n) \/ ArriveDeleted(n) \/ ArriveRefused(n) \/ AnswerLost(n)

Next ==
  \/ Tick \/ Sweep \/ Rotate \/ RefreshKeys \/ Restart
  \/ \E b \in Browsers : Authorize(b) \/ Refresh(b) \/ Logout(b)
  \/ \E p \in Persons : Revoke(p)
  \/ \E n \in Numbers : Handler(n)

Spec == Init /\ [][Next]_vars

-----------------------------------------------------------------------------
(* Properties                                                               *)

\* A wrangler who was revoked is let in by the gateway no longer than a JWT lives: not by a
\* login or a refresh that was past any of its awaits when the revocation came.
RevokedIsOut ==
  \A b \in Browsers : LetIn(b) /\ revokedAt[jwt[b].id] # Nil
    => clock <= revokedAt[jwt[b].id] + TTL

\* A logout or revocation that answered has deleted every refresh token its wrangler had when
\* it began, though logins and refreshes went on and SCAN returned them in parts.
DeletedIsGone == \A s \in sessions : s.token \notin promised

\* However many refreshes of a page overlapped, its browser is left with a cookie that Redis
\* knows, unless the session was ended or met a fault or a restart.
SessionIsKept ==
  \A b \in Browsers : (b \notin ended /\ cookie[b] # Nil /\ InFlight(b) = {}) =>
    \E s \in sessions : s.token = cookie[b]

\* A page with a session loses its JWT only when the session was ended, met a fault or a
\* restart, or when its own refreshes overlapped.
LoggedOutForAReason ==
  \A b \in Browsers :
    (cookie[b] # Nil /\ InFlight(b) = {} /\ b \notin ended \cup overlapped) => jwt[b] # Nil

\* The code of a login is exchanged at most once, however often the browser repeats the
\* callback and whatever awaits are under way.
CodeIsExchangedOnce == \A n \in Numbers : exchanged[n] <= 1

\* A key that the provider has published for as long as the rate limit lasts is not called
\* unknown, after rotations, failed fetches, resets and restarts; except while another login
\* has fetched the keys and not imported them yet.
PublishedKeyIsKnown ==
  [][\A n \in Numbers :
       (At(n, "login", "verify") /\ request'[n] = Free /\ boot' = boot) =>
         \/ clock < idp.since[request[n].key] + MinRefresh
         \/ \E m \in Numbers \ {n} : At(m, "login", "import")]_vars
=============================================================================
