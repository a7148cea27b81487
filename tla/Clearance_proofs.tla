-------------------------- MODULE Clearance_proofs --------------------------
(***************************************************************************)
(* Proofs about the sessions of Wr4nglers, for any number of browsers,     *)
(* people, requests, keys, faults and restarts.                            *)
(***************************************************************************)
EXTENDS Clearance, TLAPS

-----------------------------------------------------------------------------
(* What a handler knows at each of its steps                                *)

\* Handlers that are to answer with a JWT, or have it on its way.
Issuing(r) == r.kind \in {"login", "refresh"} /\ r.step \in {"store", "ok"}
Deletes(r) == r.kind \in {"logout", "revoke"}

\* q is r but for its step and for whether its page is gone.
Same(r, q) ==
  /\ q.kind = r.kind /\ q.browser = r.browser
  /\ r.step \in {"verify", "fetch", "import", "complete"} => q.key = r.key
  /\ r.step \in {"fetch", "import"} => q.client = r.client
  /\ r.step = "import" => q.found = r.found
  /\ Issuing(r) => q.jwt = r.jwt
  /\ r.kind = "refresh" /\ r.step \in {"get", "del", "check"} => q.token = r.token
  /\ r.kind = "refresh" /\ r.step \in {"del", "check"} => q.id = r.id
  /\ Deletes(r) => q.id = r.id /\ q.left = r.left /\ q.todo = r.todo /\ q.all = r.all

LEMMA Fields ==
  ASSUME NEW r \in Request
  PROVE  /\ r.kind \in {"none", "login", "refresh", "logout", "revoke"}
         /\ r.kind = "none" => r = Free
         /\ r.kind = "login" => r.step \in {"exchange", "verify", "fetch", "import", "complete",
                                            "store", "ok"}
         /\ r.kind = "refresh" => r.step \in {"get", "del", "check", "store", "ok", "refused"}
         /\ Deletes(r) => r.step \in {"scan", "ok"}
         /\ r.kind \in {"login", "refresh"} => r.browser \in Browsers
         /\ r.browser \in Browsers \cup {Nil} /\ r.stale \in BOOLEAN
         /\ r.step \in {"verify", "fetch", "import", "complete"} => r.key \in Key
         /\ r.step \in {"fetch", "import"} => r.client \in Nat
         /\ r.step = "import" => r.found \in SUBSET Key
         /\ Issuing(r) => r.jwt \in JWT
         /\ r.kind = "refresh" /\ r.step \in {"get", "del", "check"} => r.token \in Numbers
         /\ r.kind = "refresh" /\ r.step \in {"del", "check"} => r.id \in IDs
         /\ Deletes(r) => /\ r.id \in IDs /\ r.left \in SUBSET Session
                          /\ r.todo \in SUBSET Session /\ r.all \in SUBSET Numbers
<1>1. CASE r = Free
  BY <1>1 DEF Free, Issuing, Deletes
<1>2. CASE r \in LoginState
  BY <1>2 DEF LoginState, Issuing, Deletes
<1>3. CASE r \in RefreshState
  BY <1>3 DEF RefreshState, Issuing, Deletes
<1>4. CASE r \in DeletionState
  BY <1>4 DEF DeletionState, Issuing, Deletes
<1> QED BY <1>1, <1>2, <1>3, <1>4 DEF Request

\* The page goes away.
LEMMA StaleSame ==
  ASSUME NEW r \in Request, r.browser \in Browsers
  PROVE  LET x == [r EXCEPT !.stale = TRUE] IN
         /\ x \in Request /\ Same(r, x) /\ x.step = r.step /\ x.stale
<1>1. CASE r = Free
  BY <1>1, ClearanceAssumption DEF Free
<1>2. CASE r \in LoginState
  BY <1>2 DEF LoginState, Request, Same, Issuing, Deletes
<1>3. CASE r \in RefreshState
  BY <1>3 DEF RefreshState, Request, Same, Issuing, Deletes
<1>4. CASE r \in DeletionState
  BY <1>4 DEF DeletionState, Request, Same, Issuing, Deletes
<1> QED BY <1>1, <1>2, <1>3, <1>4 DEF Request

\* A handler goes on with what it knows.
LEMMA StepTo ==
  ASSUME NEW r \in Request, NEW s,
         \/ r.kind = "login" /\ r.step \in {"verify", "import"} /\ s = "complete"
         \/ r.kind \in {"login", "refresh"} /\ r.step = "store" /\ s = "ok"
         \/ r.kind = "refresh" /\ r.step = "del" /\ s = "check"
         \/ r.kind = "refresh" /\ r.step # "refused" /\ s = "refused"
         \/ Deletes(r) /\ r.step = "scan" /\ s = "ok"
  PROVE  LET x == [r EXCEPT !.step = s] IN
         /\ x \in Request /\ Same(r, x) /\ x.step = s /\ x.stale = r.stale
<1>1. CASE r = Free
  BY <1>1 DEF Free, Deletes
<1>2. CASE r \in LoginState
  BY <1>2 DEF LoginState, Request, Same, Issuing, Deletes
<1>3. CASE r \in RefreshState
  BY <1>3 DEF RefreshState, Request, Same, Issuing, Deletes
<1>4. CASE r \in DeletionState
  BY <1>4 DEF DeletionState, Request, Same, Issuing, Deletes
<1> QED BY <1>1, <1>2, <1>3, <1>4 DEF Request

-----------------------------------------------------------------------------
(* What each step makes of the requests                                     *)

\* Only request n changes.
Only(n) == request' \in [Numbers -> Request] /\ \A m \in Numbers \ {n} : request'[m] = request[m]

\* Request n is over, or its page is to hear that its refresh was refused.
Over(n) ==
  /\ Only(n)
  /\ \/ request'[n] = Free
     \/ /\ request[n].kind = "refresh" /\ request'[n].kind = "refresh"
        /\ request'[n].step = "refused"
        /\ request'[n].browser = request[n].browser /\ request'[n].stale = request[n].stale

\* Request n goes on to step s.
Goes(n, s) ==
  /\ Only(n) /\ request'[n].step = s
  /\ request'[n].kind = request[n].kind
  /\ request'[n].browser = request[n].browser /\ request'[n].stale = request[n].stale

\* and knows what it knew.
Keeps(n, s) == Goes(n, s) /\ Same(request[n], request'[n])

LEMMA FreeIsRequest == Free \in Request
BY DEF Request

LEMMA Put ==
  ASSUME TypeOK, NEW n \in Numbers, NEW x \in Request, request' = [request EXCEPT ![n] = x]
  PROVE  Only(n) /\ request'[n] = x
BY DEF TypeOK, Only

LEMMA RefusedType ==
  ASSUME NEW r \in Request
  PROVE  LET x == Refused(r) IN
         /\ x \in Request
         /\ \/ r.kind # "refresh" /\ x = Free
            \/ /\ r.kind = "refresh" /\ x.kind = "refresh" /\ x.step = "refused"
               /\ x.browser = r.browser /\ x.stale = r.stale
<1>1. CASE r.kind # "refresh"
  BY <1>1, FreeIsRequest DEF Refused
<1>2. CASE r.kind = "refresh" /\ r.step # "refused"
  <2>1. Refused(r) = [r EXCEPT !.step = "refused"]
    BY <1>2 DEF Refused
  <2> QED  BY <1>2, <2>1, StepTo DEF Same
<1>3. CASE r.kind = "refresh" /\ r.step = "refused"
  <2>1. r \in RefreshState
    BY <1>3 DEF Request, Free, LoginState, DeletionState
  <2>2. Refused(r) = r
    BY <1>3, <2>1 DEF Refused, RefreshState
  <2> QED  BY <1>3, <2>2
<1> QED BY <1>1, <1>2, <1>3

LEMMA RefuseDoes ==
  ASSUME TypeOK, NEW n \in Numbers, Refuse(n)
  PROVE  Over(n) /\ (request[n].kind # "refresh" => request'[n] = Free)
<1>1. request[n] \in Request
  BY DEF TypeOK
<1>2. request' = [request EXCEPT ![n] = Refused(request[n])]
  BY DEF Refuse, TypeOK
<1>3. Refused(request[n]) \in Request
  BY <1>1, RefusedType
<1>4. Only(n) /\ request'[n] = Refused(request[n])
  BY <1>2, <1>3, Put
<1> QED BY <1>1, <1>4, RefusedType DEF Over

LEMMA DropDoes ==
  ASSUME TypeOK, NEW n \in Numbers, request' = [request EXCEPT ![n] = Free]
  PROVE  Over(n) /\ request'[n] = Free
BY FreeIsRequest, Put DEF Over

LEMMA GotoDoes ==
  ASSUME TypeOK, NEW n \in Numbers, NEW s, Goto(n, s),
         \/ request[n].kind = "login" /\ request[n].step \in {"verify", "import"} /\ s = "complete"
         \/ request[n].step = "store" /\ s = "ok"
         \/ request[n].kind = "refresh" /\ request[n].step = "del" /\ s = "check"
         \/ request[n].step = "scan" /\ s = "ok"
  PROVE  Keeps(n, s)
<1>1. request[n] \in Request
  BY DEF TypeOK
<1> DEFINE x == [request[n] EXCEPT !.step = s]
<1>2. request' = [request EXCEPT ![n] = x]
  BY DEF Goto, TypeOK
<1>3. /\ request[n].step = "store" => request[n].kind \in {"login", "refresh"}
      /\ request[n].step = "scan" => Deletes(request[n])
  BY <1>1, Fields DEF Free, Deletes
<1>4. x \in Request /\ Same(request[n], x) /\ x.step = s /\ x.stale = request[n].stale
  BY <1>1, <1>3, StepTo
<1> HIDE DEF x
<1>5. Only(n) /\ request'[n] = x
  BY <1>2, <1>4, Put
<1> QED BY <1>4, <1>5 DEF Keeps, Goes, Same

\* The request that a step makes of n is a state of a login, or of a refresh.
LEMMA LoginStates ==
  ASSUME NEW b \in Browsers, NEW t \in BOOLEAN, NEW k \in Key, NEW c \in Nat,
         NEW f \in SUBSET Key, NEW j \in JWT
  PROVE  /\ [kind |-> "login", step |-> "exchange", browser |-> b, stale |-> t] \in Request
         /\ [kind |-> "login", step |-> "verify", browser |-> b, stale |-> t, key |-> k] \in Request
         /\ [kind |-> "login", step |-> "fetch", browser |-> b, stale |-> t, key |-> k,
             client |-> c] \in Request
         /\ [kind |-> "login", step |-> "import", browser |-> b, stale |-> t, key |-> k,
             found |-> f, client |-> c] \in Request
         /\ [kind |-> "login", step |-> "store", browser |-> b, stale |-> t, jwt |-> j] \in Request
<1>1. /\ [kind |-> "login", step |-> "exchange", browser |-> b, stale |-> t] \in LoginState
      /\ [kind |-> "login", step |-> "verify", browser |-> b, stale |-> t, key |-> k] \in LoginState
      /\ [kind |-> "login", step |-> "fetch", browser |-> b, stale |-> t, key |-> k,
          client |-> c] \in LoginState
      /\ [kind |-> "login", step |-> "import", browser |-> b, stale |-> t, key |-> k,
          found |-> f, client |-> c] \in LoginState
      /\ [kind |-> "login", step |-> "store", browser |-> b, stale |-> t, jwt |-> j] \in LoginState
  BY DEF LoginState
<1> QED BY <1>1 DEF Request

LEMMA RefreshStates ==
  ASSUME NEW b \in Browsers, NEW t \in BOOLEAN, NEW k \in Numbers, NEW i \in IDs, NEW j \in JWT
  PROVE  /\ [kind |-> "refresh", step |-> "get", browser |-> b, stale |-> t, token |-> k] \in Request
         /\ [kind |-> "refresh", step |-> "del", browser |-> b, stale |-> t, token |-> k,
             id |-> i] \in Request
         /\ [kind |-> "refresh", step |-> "store", browser |-> b, stale |-> t,
             jwt |-> j] \in Request
<1>1. /\ [kind |-> "refresh", step |-> "get", browser |-> b, stale |-> t,
          token |-> k] \in RefreshState
      /\ [kind |-> "refresh", step |-> "del", browser |-> b, stale |-> t, token |-> k,
          id |-> i] \in RefreshState
      /\ [kind |-> "refresh", step |-> "store", browser |-> b, stale |-> t,
          jwt |-> j] \in RefreshState
  BY DEF RefreshState
<1> QED BY <1>1 DEF Request

LEMMA DeletionStates ==
  ASSUME TypeOK, NEW kind \in {"logout", "revoke"}, NEW b \in Browsers \cup {Nil}, NEW i \in IDs
  PROVE  /\ Deletion(kind, b, i) \in Request
         /\ [Deletion(kind, b, i) EXCEPT !.stale = TRUE] \in Request
<1>1. sessions \in SUBSET Session /\ {s.token : s \in Of(i)} \in SUBSET Numbers
  BY DEF TypeOK, Of, Session
<1>2. /\ Deletion(kind, b, i) \in DeletionState
      /\ [Deletion(kind, b, i) EXCEPT !.stale = TRUE] \in DeletionState
  BY <1>1 DEF Deletion, DeletionState
<1> QED BY <1>2 DEF Request

\* What each handler's step does: r is the request before it.
LEMMA CallbackDoes ==
  ASSUME TypeOK, NEW n \in Numbers, Callback(n)
  PROVE  \E e \in pending :
           /\ e.number = n /\ pending' = pending \ {e} /\ Only(n)
           /\ request'[n].kind = "login" /\ request'[n].step = "exchange"
           /\ request'[n].browser = e.browser /\ ~request'[n].stale
<1>1. PICK e \in pending :
        /\ e.number = n /\ pending' = pending \ {e}
        /\ request' = [request EXCEPT ![n] = Login(e.browser)]
  BY DEF Callback
<1>2. e.browser \in Browsers
  BY DEF TypeOK
<1>3. Login(e.browser) \in Request
  <2>1. Login(e.browser) \in LoginState
    BY <1>2 DEF Login, LoginState
  <2> QED  BY <2>1 DEF Request
<1>4. Only(n) /\ request'[n] = Login(e.browser)
  BY <1>1, <1>3, Put
<1> QED BY <1>1, <1>4 DEF Login

LEMMA ExchangeDoes ==
  ASSUME TypeOK, NEW n \in Numbers, Exchange(n)
  PROVE  Over(n) \/ (Goes(n, "verify") /\ request'[n].key = idp.latest)
<1>1. CASE Refuse(n)
  BY <1>1, RefuseDoes
<1>2. CASE request' = [request EXCEPT ![n] = [kind |-> "login", step |-> "verify",
             browser |-> @.browser, stale |-> @.stale, key |-> idp.latest]]
  <2> DEFINE x == [kind |-> "login", step |-> "verify", browser |-> request[n].browser,
                   stale |-> request[n].stale, key |-> idp.latest]
  <2>1. request' = [request EXCEPT ![n] = x]
    BY <1>2 DEF TypeOK
  <2>2. request[n] \in Request /\ request[n].kind = "login" /\ idp.latest \in Key
    BY DEF Exchange, At, TypeOK
  <2>3. x \in LoginState
    BY <2>2, Fields DEF LoginState
  <2>4. x \in Request
    BY <2>3 DEF Request
  <2>5. Only(n) /\ request'[n] = x
    BY <2>1, <2>4, Put
  <2> QED  BY <2>2, <2>5 DEF Goes
<1> QED BY <1>1, <1>2 DEF Exchange

LEMMA VerifyDoes ==
  ASSUME TypeOK, NEW n \in Numbers, Verify(n)
  PROVE  \/ Over(n) /\ request[n].key \notin keys.cache /\ clock - keys.fetched < MinRefresh
         \/ Keeps(n, "complete")
         \/ /\ Goes(n, "fetch") /\ request'[n].key = request[n].key
            /\ request'[n].client = keys.client
<1>1. CASE request[n].key \in keys.cache /\ Goto(n, "complete")
  BY <1>1, GotoDoes DEF Verify, At
<1>2. CASE /\ request[n].key \notin keys.cache /\ clock - keys.fetched < MinRefresh
           /\ Refuse(n)
  BY <1>2, RefuseDoes
<1>3. CASE request' = [request EXCEPT ![n] = [kind |-> "login", step |-> "fetch",
             browser |-> @.browser, stale |-> @.stale, key |-> @.key, client |-> keys.client]]
  <2> DEFINE x == [kind |-> "login", step |-> "fetch", browser |-> request[n].browser,
                   stale |-> request[n].stale, key |-> request[n].key, client |-> keys.client]
  <2>1. request' = [request EXCEPT ![n] = x]
    BY <1>3 DEF TypeOK
  <2>2. /\ request[n] \in Request /\ request[n].kind = "login" /\ request[n].step = "verify"
        /\ keys.client \in Nat
    BY DEF Verify, At, TypeOK
  <2>3. x \in LoginState
    BY <2>2, Fields DEF LoginState
  <2>4. x \in Request
    BY <2>3 DEF Request
  <2>5. Only(n) /\ request'[n] = x
    BY <2>1, <2>4, Put
  <2> QED  BY <2>2, <2>5 DEF Goes
<1> QED BY <1>1, <1>2, <1>3 DEF Verify

LEMMA FetchDoes ==
  ASSUME TypeOK, NEW n \in Numbers, Fetch(n)
  PROVE  \/ Over(n) /\ keys' = keys
         \/ /\ Goes(n, "import") /\ request'[n].key = request[n].key
            /\ request'[n].client = request[n].client /\ request'[n].found = 1 .. idp.latest
            /\ keys' = IF request[n].client = keys.client
                       THEN [keys EXCEPT !.fetched = clock] ELSE keys
<1>1. CASE Refuse(n) /\ UNCHANGED keys
  BY <1>1, RefuseDoes
<1>2. CASE /\ request' = [request EXCEPT ![n] = [kind |-> "login", step |-> "import",
                browser |-> @.browser, stale |-> @.stale, key |-> @.key,
                found |-> 1 .. idp.latest, client |-> @.client]]
           /\ keys' = IF request[n].client = keys.client
                      THEN [keys EXCEPT !.fetched = clock] ELSE keys
  <2> DEFINE x == [kind |-> "login", step |-> "import", browser |-> request[n].browser,
                   stale |-> request[n].stale, key |-> request[n].key,
                   found |-> 1 .. idp.latest, client |-> request[n].client]
  <2>1. request' = [request EXCEPT ![n] = x]
    BY <1>2 DEF TypeOK
  <2>2. /\ request[n] \in Request /\ request[n].kind = "login" /\ request[n].step = "fetch"
        /\ idp.latest \in 1 .. MaxKeys
    BY DEF Fetch, At, TypeOK, Key
  <2>3. 1 .. idp.latest \in SUBSET Key
    BY <2>2, ClearanceAssumption DEF Key
  <2>4. x \in LoginState
    BY <2>2, <2>3, Fields DEF LoginState
  <2>5. x \in Request
    BY <2>4 DEF Request
  <2>6. Only(n) /\ request'[n] = x
    BY <2>1, <2>5, Put
  <2> QED  BY <1>2, <2>2, <2>6 DEF Goes
<1> QED BY <1>1, <1>2 DEF Fetch

LEMMA ImportDoes ==
  ASSUME TypeOK, NEW n \in Numbers, Import(n)
  PROVE  Over(n) \/ Keeps(n, "complete")
<1>1. CASE Refuse(n)
  BY <1>1, RefuseDoes
<1>2. CASE Goto(n, "complete")
  BY <1>2, GotoDoes DEF Import, At
<1> QED BY <1>1, <1>2 DEF Import

LEMMA IssuedTyped == ASSUME TypeOK, NEW i \in IDs PROVE Issued(i) \in JWT
BY ClearanceAssumption DEF TypeOK, Issued, JWT

LEMMA IDFields ==
  /\ \A p : WranglerID(p)[1] = p /\ WranglerID(p)[2] = boot
  /\ \A i : Issued(i).id = i
BY DEF WranglerID, Issued

LEMMA IDsTyped == ASSUME TypeOK, NEW p \in Persons PROVE WranglerID(p) \in IDs
BY ClearanceAssumption DEF TypeOK, WranglerID, IDs

LEMMA CompleteDoes ==
  ASSUME TypeOK, NEW n \in Numbers, Complete(n)
  PROVE  /\ Goes(n, "store") /\ request[n].browser \in Browsers
         /\ request'[n].jwt = Issued(WranglerID(Who[request[n].browser]))
<1> DEFINE j == Issued(WranglerID(Who[request[n].browser]))
           x == [kind |-> "login", step |-> "store", browser |-> request[n].browser,
                 stale |-> request[n].stale, jwt |-> j]
<1>1. request' = [request EXCEPT ![n] = x]
  BY DEF Complete, TypeOK
<1>2. request[n] \in Request /\ request[n].kind = "login"
  BY DEF Complete, At, TypeOK
<1>3. request[n].browser \in Browsers
  BY <1>2, Fields
<1>4. j \in JWT
  BY <1>3, IDsTyped, IssuedTyped, ClearanceAssumption
<1> HIDE DEF j
<1>5. x \in LoginState
  BY <1>2, <1>3, <1>4, Fields DEF LoginState
<1>6. x \in Request
  BY <1>5 DEF Request
<1>7. Only(n) /\ request'[n] = x
  BY <1>1, <1>6, Put
<1> QED BY <1>2, <1>3, <1>7 DEF Goes, j

LEMMA TurnAwayDoes ==
  ASSUME TypeOK, NEW n \in Numbers, TurnAway(n)
  PROVE  request'[n] = Free /\ Over(n)
BY RefuseDoes DEF TurnAway, At

LEMMA StoreDoes ==
  ASSUME TypeOK, NEW n \in Numbers, Store(n)
  PROVE  /\ Issuing(request[n])
         /\ \/ Over(n) /\ ended' = ended \cup (Browsers \cap {request[n].browser})
            \/ /\ Keeps(n, "ok") /\ ended' = ended
               /\ sessions' = sessions \cup {[token |-> n, id |-> request[n].jwt.id]}
<1>1. request[n] \in Request /\ request[n].step = "store"
  BY DEF TypeOK, Store
<1>2. Issuing(request[n])
  BY <1>1, Fields DEF Issuing, Free, Deletes
<1>3. CASE /\ Goto(n, "ok") /\ UNCHANGED ended
           /\ sessions' = sessions \cup {[token |-> n, id |-> request[n].jwt.id]}
  <2>1. Keeps(n, "ok")
    BY <1>1, <1>3, GotoDoes
  <2> QED  BY <1>2, <1>3, <2>1
<1>4. CASE RedisFails(n)
  <2>1. Over(n)
    BY <1>4, RefuseDoes DEF RedisFails
  <2> QED  BY <1>2, <1>4, <2>1 DEF RedisFails, Hurt
<1> QED BY <1>3, <1>4 DEF Store

LEMMA GetDoes ==
  ASSUME TypeOK, NEW n \in Numbers, Get(n)
  PROVE  \/ Over(n) /\ \A s \in sessions : s.token # request[n].token
         \/ Over(n) /\ ended' = ended \cup (Browsers \cap {request[n].browser})
         \/ /\ Goes(n, "del") /\ request'[n].token = request[n].token /\ ended' = ended
            /\ \E s \in sessions : s.token = request[n].token /\ request'[n].id = s.id
<1>1. CASE RedisFails(n)
  <2>1. Over(n)
    BY <1>1, RefuseDoes DEF RedisFails
  <2> QED  BY <1>1, <2>1 DEF RedisFails, Hurt
<1>2. CASE (\A s \in sessions : s.token # request[n].token) /\ Refuse(n)
  <2>1. Over(n)
    BY <1>2, RefuseDoes
  <2> QED  BY <1>2, <2>1
<1>3. ASSUME NEW s \in sessions, s.token = request[n].token, UNCHANGED ended,
             request' = [request EXCEPT ![n] = [kind |-> "refresh", step |-> "del",
               browser |-> @.browser, stale |-> @.stale, token |-> @.token, id |-> s.id]]
      PROVE  /\ Goes(n, "del") /\ request'[n].token = request[n].token /\ ended' = ended
             /\ request'[n].id = s.id
  <2> DEFINE x == [kind |-> "refresh", step |-> "del", browser |-> request[n].browser,
                   stale |-> request[n].stale, token |-> request[n].token, id |-> s.id]
  <2>1. request' = [request EXCEPT ![n] = x]
    BY <1>3 DEF TypeOK
  <2>2. request[n] \in Request /\ request[n].kind = "refresh" /\ request[n].step = "get"
    BY DEF Get, At, TypeOK
  <2>3. s.id \in IDs
    BY DEF TypeOK, Session
  <2>4. x \in RefreshState
    BY <2>2, <2>3, Fields DEF RefreshState
  <2>5. x \in Request
    BY <2>4 DEF Request
  <2>6. Only(n) /\ request'[n] = x
    BY <2>1, <2>5, Put
  <2> QED  BY <1>3, <2>2, <2>6 DEF Goes
<1> QED BY <1>1, <1>2, <1>3 DEF Get

LEMMA DelDoes ==
  ASSUME TypeOK, NEW n \in Numbers, Del(n)
  PROVE  \/ Over(n) /\ ended' = ended \cup (Browsers \cap {request[n].browser})
         \/ Keeps(n, "check") /\ ended' = ended
<1>1. CASE RedisFails(n)
  <2>1. Over(n)
    BY <1>1, RefuseDoes DEF RedisFails
  <2> QED  BY <1>1, <2>1 DEF RedisFails, Hurt
<1>2. CASE Goto(n, "check") /\ UNCHANGED ended
  <2>1. Keeps(n, "check")
    BY <1>2, GotoDoes DEF Del, At
  <2> QED  BY <1>2, <2>1
<1> QED BY <1>1, <1>2 DEF Del

LEMMA CheckDoes ==
  ASSUME TypeOK, NEW n \in Numbers, Check(n)
  PROVE  LET i == request[n].id IN
         \/ Over(n) /\ (i # WranglerID(i[1]) \/ record[i[1]] # "active")
         \/ /\ Goes(n, "store") /\ request'[n].jwt = Issued(i)
            /\ i = WranglerID(i[1]) /\ record[i[1]] = "active"
<1> DEFINE i == request[n].id
<1>1. CASE (i # WranglerID(i[1]) \/ record[i[1]] # "active") /\ Refuse(n)
  <2>1. Over(n)
    BY <1>1, RefuseDoes
  <2> QED  BY <1>1, <2>1
<1>2. CASE /\ i = WranglerID(i[1]) /\ record[i[1]] = "active"
           /\ request' = [request EXCEPT ![n] = [kind |-> "refresh", step |-> "store",
                browser |-> @.browser, stale |-> @.stale, jwt |-> Issued(i)]]
  <2> DEFINE x == [kind |-> "refresh", step |-> "store", browser |-> request[n].browser,
                   stale |-> request[n].stale, jwt |-> Issued(i)]
  <2>1. request' = [request EXCEPT ![n] = x]
    BY <1>2 DEF TypeOK
  <2>2. request[n] \in Request /\ request[n].kind = "refresh" /\ request[n].step = "check"
    BY DEF Check, At, TypeOK
  <2>3. i \in IDs
    BY <2>2, Fields
  <2>4. Issued(i) \in JWT
    BY <2>3, IssuedTyped
  <2> HIDE DEF i
  <2>5. x \in RefreshState
    BY <2>2, <2>4, Fields DEF RefreshState
  <2>6. x \in Request
    BY <2>5 DEF Request
  <2> HIDE DEF x
  <2>7. Only(n) /\ request'[n] = x
    BY <2>1, <2>6, Put
  <2> QED  BY <1>2, <2>2, <2>7 DEF Goes, x, i
<1> QED BY <1>1, <1>2 DEF Check

\* The keys of Redis that a deletion has read, and those it has still to see, are the rest of
\* what it knows.
Sweeps(n) ==
  /\ Deletes(request[n]) /\ Goes(n, "scan")
  /\ request'[n].id = request[n].id /\ request'[n].all = request[n].all

LEMMA Scanning ==
  ASSUME TypeOK, NEW n \in Numbers, request[n].step = "scan"
  PROVE  request[n] \in Request /\ Deletes(request[n])
BY Fields DEF TypeOK, Free, Deletes

LEMMA SweepsTo ==
  ASSUME TypeOK, NEW n \in Numbers, request[n].step = "scan",
         NEW l \in SUBSET Session, NEW t \in SUBSET Session,
         request' = [request EXCEPT ![n] = [@ EXCEPT !.left = l, !.todo = t]]
  PROVE  Sweeps(n) /\ request'[n].left = l /\ request'[n].todo = t
<1> DEFINE x == [request[n] EXCEPT !.left = l, !.todo = t]
<1>1. request' = [request EXCEPT ![n] = x]
  BY DEF TypeOK
<1>2. request[n] \in DeletionState
  BY Fields DEF TypeOK, Request, Free, LoginState, RefreshState
<1>3. x \in DeletionState /\ x.kind = request[n].kind /\ x.step = "scan" /\ x.id = request[n].id
      /\ x.browser = request[n].browser /\ x.stale = request[n].stale
      /\ x.left = l /\ x.todo = t /\ x.all = request[n].all /\ Deletes(request[n])
  BY <1>2 DEF DeletionState, Deletes
<1> HIDE DEF x
<1>4. x \in Request
  BY <1>3 DEF Request
<1>5. Only(n) /\ request'[n] = x
  BY <1>1, <1>4, Put
<1> QED BY <1>3, <1>5 DEF Sweeps, Goes

LEMMA ScanDoes ==
  ASSUME TypeOK, NEW n \in Numbers, Scan(n)
  PROVE  \/ Over(n) /\ Deletes(request[n]) /\ request'[n] = Free
         \/ /\ Sweeps(n) /\ request'[n].todo \in SUBSET sessions
            /\ request'[n].left = (request[n].left \cap sessions) \ request'[n].todo
            /\ ended' = ended
<1>1. request[n] \in Request /\ request[n].step = "scan" /\ Deletes(request[n])
  BY Scanning DEF Scan
<1>2. CASE RedisFails(n)
  BY <1>1, <1>2, RefuseDoes DEF RedisFails, Deletes
<1>3. ASSUME NEW batch \in SUBSET sessions, UNCHANGED ended,
             request' = [request EXCEPT ![n] =
               [@ EXCEPT !.left = (request[n].left \cap sessions) \ batch, !.todo = batch]]
      PROVE  /\ Sweeps(n) /\ request'[n].todo \in SUBSET sessions
             /\ request'[n].left = (request[n].left \cap sessions) \ request'[n].todo
             /\ ended' = ended
  <2> DEFINE l == (request[n].left \cap sessions) \ batch
  <2>1. l \in SUBSET Session /\ batch \in SUBSET Session
    BY <1>1, Fields DEF TypeOK
  <2>2. request' = [request EXCEPT ![n] = [@ EXCEPT !.left = l, !.todo = batch]]
    BY <1>3
  <2> HIDE DEF l
  <2>3. Sweeps(n) /\ request'[n].left = l /\ request'[n].todo = batch
    BY <1>1, <2>1, <2>2, SweepsTo
  <2> QED  BY <1>3, <2>3 DEF l
<1> QED BY <1>2, <1>3 DEF Scan

LEMMA RemoveDoes ==
  ASSUME TypeOK, NEW n \in Numbers, Remove(n)
  PROVE  /\ Deletes(request[n])
         /\ \E s \in request[n].todo :
              /\ sessions' = sessions \/ (s.id = request[n].id /\ sessions' = sessions \ {s})
              /\ \/ Over(n) /\ request'[n] = Free
                 \/ /\ s.id = request[n].id => sessions' = sessions \ {s}
                    /\ Sweeps(n) /\ request'[n].todo = request[n].todo \ {s}
                    /\ request'[n].left = request[n].left /\ ended' = ended
<1>1. request[n] \in Request /\ request[n].step = "scan" /\ Deletes(request[n])
  BY Fields DEF Remove, TypeOK, Free, Deletes
<1>2. PICK s \in request[n].todo :
        LET rest == IF s.id = request[n].id THEN sessions \ {s} ELSE sessions IN
        \/ /\ sessions' = rest
           /\ request' = [request EXCEPT ![n].todo = @ \ {s}] /\ UNCHANGED <<faults, ended>>
        \/ RedisFails(n) /\ sessions' \in {sessions, rest}
  BY DEF Remove
<1>3. CASE RedisFails(n)
  <2>1. Over(n) /\ request'[n] = Free
    BY <1>1, <1>3, RefuseDoes DEF RedisFails, Deletes
  <2> QED  BY <1>1, <1>2, <2>1
<1>4. CASE /\ sessions' = IF s.id = request[n].id THEN sessions \ {s} ELSE sessions
           /\ request' = [request EXCEPT ![n].todo = @ \ {s}] /\ ended' = ended
  <2> DEFINE t == request[n].todo \ {s}
  <2>1. t \in SUBSET Session /\ request[n].left \in SUBSET Session
    BY <1>1, Fields
  <2>2. request[n] \in DeletionState
    BY <1>1 DEF Request, Free, LoginState, RefreshState
  <2>3. [request[n] EXCEPT !.todo = t] = [request[n] EXCEPT !.left = request[n].left, !.todo = t]
    BY <2>2 DEF DeletionState
  <2>4. request' = [request EXCEPT ![n] = [@ EXCEPT !.left = request[n].left, !.todo = t]]
    BY <1>4, <2>3 DEF TypeOK
  <2> HIDE DEF t
  <2>5. Sweeps(n) /\ request'[n].left = request[n].left /\ request'[n].todo = t
    BY <1>1, <2>1, <2>4, SweepsTo
  <2> QED  BY <1>1, <1>4, <2>5 DEF t
<1> QED BY <1>2, <1>3, <1>4

LEMMA RemovedDoes ==
  ASSUME TypeOK, NEW n \in Numbers, Removed(n)
  PROVE  Keeps(n, "ok") /\ Deletes(request[n])
BY Scanning, GotoDoes DEF Removed

LEMMA AnswerDoes ==
  ASSUME TypeOK, NEW n \in Numbers,
         Arrive(n) \/ ArriveDeleted(n) \/ ArriveRefused(n)
  PROVE  Over(n) /\ request'[n] = Free
BY DropDoes DEF Arrive, ArriveDeleted, ArriveRefused

LEMMA LostDoes ==
  ASSUME TypeOK, NEW n \in Numbers, AnswerLost(n)
  PROVE  Over(n)
BY DropDoes, RefuseDoes DEF AnswerLost

\* A page that goes away, from it on what its requests bring is stale.
Left(b) ==
  /\ request' \in [Numbers -> Request]
  /\ \A m \in Numbers : request[m].browser # b => request'[m] = request[m]
  /\ \A m \in Numbers : request[m].browser = b =>
       /\ Same(request[m], request'[m]) /\ request'[m].step = request[m].step /\ request'[m].stale

LEMMA AbandonDoes ==
  ASSUME TypeOK, NEW b \in Browsers
  PROVE  /\ Abandon(b) \in [Numbers -> Request]
         /\ request' = Abandon(b) => Left(b)
<1>1. ASSUME NEW m \in Numbers, request[m].browser = b
      PROVE  /\ Abandon(b)[m] \in Request /\ Same(request[m], Abandon(b)[m])
             /\ Abandon(b)[m].step = request[m].step /\ Abandon(b)[m].stale
  <2>1. request[m] \in Request
    BY DEF TypeOK
  <2>2. Abandon(b)[m] = [request[m] EXCEPT !.stale = TRUE]
    BY <1>1 DEF Abandon
  <2> QED  BY <1>1, <2>1, <2>2, StaleSame
<1>2. ASSUME NEW m \in Numbers, request[m].browser # b
      PROVE  Abandon(b)[m] = request[m] /\ request[m] \in Request
  BY <1>2 DEF Abandon, TypeOK
<1>3. Abandon(b) \in [Numbers -> Request]
  <2>1. \A m \in Numbers : Abandon(b)[m] \in Request
    BY <1>1, <1>2
  <2>2. Abandon(b) = [m \in Numbers |-> Abandon(b)[m]]
    BY DEF Abandon
  <2> QED  BY <2>1, <2>2
<1> QED BY <1>1, <1>2, <1>3 DEF Left

LEMMA AuthorizeDoes ==
  ASSUME TypeOK, NEW b \in Browsers, Authorize(b)
  PROVE  Left(b) /\ sent + 1 \in Numbers /\ sent' = sent + 1
BY AbandonDoes, ClearanceAssumption, SMTT(30) DEF Authorize, TypeOK, Numbers

\* Another request, with a number of its own.
Sends(r) ==
  /\ sent + 1 \in Numbers /\ sent' = sent + 1
  /\ Only(sent + 1) /\ request'[sent + 1] = r

LEMMA SendDoes ==
  ASSUME TypeOK, NEW b, NEW r \in Request, Send(b, r)
  PROVE  Sends(r)
<1>1. sent + 1 \in Numbers /\ sent' = sent + 1
  BY ClearanceAssumption DEF Send, TypeOK, Numbers
<1>2. request' = [request EXCEPT ![sent + 1] = r]
  BY <1>1 DEF Send
<1> QED BY <1>1, <1>2, Put DEF Sends

LEMMA RefreshDoes ==
  ASSUME TypeOK, NEW b \in Browsers, Refresh(b)
  PROVE  Sends([kind |-> "refresh", step |-> "get", browser |-> b, stale |-> FALSE,
                token |-> cookie[b]])
<1> DEFINE r == [kind |-> "refresh", step |-> "get", browser |-> b, stale |-> FALSE,
                 token |-> cookie[b]]
<1>1. cookie[b] \in Numbers
  BY DEF Refresh, TypeOK
<1>2. r \in RefreshState
  BY <1>1 DEF RefreshState
<1>3. r \in Request
  BY <1>2 DEF Request
<1>4. Send(b, r)
  BY DEF Refresh
<1> HIDE DEF r
<1>5. Sends(r)
  BY <1>3, <1>4, SendDoes
<1> QED BY <1>5 DEF r

LEMMA RevokeDoes ==
  ASSUME TypeOK, NEW p \in Persons, Revoke(p)
  PROVE  Sends(Deletion("revoke", Nil, WranglerID(p)))
<1>1. Deletion("revoke", Nil, WranglerID(p)) \in Request
  BY IDsTyped, DeletionStates
<1> QED BY <1>1, SendDoes DEF Revoke

\* Logging out: the deletion is sent, or it is not.
LEMMA LogoutDoes ==
  ASSUME TypeOK, NEW b \in Browsers, Logout(b)
  PROVE  \/ Left(b) /\ sent' = sent
         \/ /\ sent + 1 \in Numbers /\ sent' = sent + 1 /\ jwt[b].id \in IDs
            /\ request' \in [Numbers -> Request]
            /\ request'[sent + 1] = [Deletion("logout", b, jwt[b].id) EXCEPT !.stale = TRUE]
            /\ \A m \in Numbers \ {sent + 1} :
                 /\ request[m].browser # b => request'[m] = request[m]
                 /\ request[m].browser = b =>
                      /\ Same(request[m], request'[m]) /\ request'[m].step = request[m].step
                      /\ request'[m].stale
<1>1. CASE request' = Abandon(b) /\ UNCHANGED sent
  BY <1>1, AbandonDoes
<1>2. CASE /\ sent < MaxRequests /\ sent' = sent + 1
           /\ request' = [Abandon(b) EXCEPT ![sent'] =
                [Deletion("logout", b, jwt[b].id) EXCEPT !.stale = TRUE]]
  <2> DEFINE d == [Deletion("logout", b, jwt[b].id) EXCEPT !.stale = TRUE]
  <2>1. sent + 1 \in Numbers
    BY <1>2, ClearanceAssumption, SMTT(30) DEF TypeOK, Numbers
  <2>2. jwt[b].id \in IDs
    BY DEF Logout, TypeOK, JWT
  <2>3. d \in Request
    BY <2>2, DeletionStates
  <2>4. request' = [Abandon(b) EXCEPT ![sent + 1] = d]
    BY <1>2
  <2> HIDE DEF d
  <2>5. Abandon(b) \in [Numbers -> Request]
    BY AbandonDoes
  <2>6. /\ request' \in [Numbers -> Request] /\ request'[sent + 1] = d
        /\ \A m \in Numbers \ {sent + 1} : request'[m] = Abandon(b)[m]
    BY <2>1, <2>3, <2>4, <2>5
  <2>7. \A m \in Numbers :
          /\ request[m].browser # b => Abandon(b)[m] = request[m]
          /\ request[m].browser = b =>
               /\ Same(request[m], Abandon(b)[m]) /\ Abandon(b)[m].step = request[m].step
               /\ Abandon(b)[m].stale
    <3>1. ASSUME NEW m \in Numbers, request[m].browser = b
          PROVE  /\ Same(request[m], Abandon(b)[m]) /\ Abandon(b)[m].step = request[m].step
                 /\ Abandon(b)[m].stale
      <4>1. Abandon(b)[m] = [request[m] EXCEPT !.stale = TRUE] /\ request[m] \in Request
        BY <3>1 DEF Abandon, TypeOK
      <4> QED  BY <3>1, <4>1, StaleSame
    <3> QED  BY <3>1 DEF Abandon
  <2> QED  BY <1>2, <2>1, <2>2, <2>6, <2>7 DEF d
<1> QED BY <1>1, <1>2 DEF Logout

LEMMA RestartDoes ==
  ASSUME TypeOK, Restart
  PROVE  /\ request' \in [Numbers -> Request]
         /\ \A m \in Numbers :
              \/ request'[m] = request[m] /\ ~Working(m)
              \/ request'[m] = Free
              \/ /\ request[m].kind = "refresh" /\ request'[m].kind = "refresh"
                 /\ request'[m].step = "refused"
                 /\ request'[m].browser = request[m].browser /\ request'[m].stale = request[m].stale
<1> DEFINE q(m) == IF Working(m) THEN Refused(request[m]) ELSE request[m]
<1>1. request' = [m \in Numbers |-> q(m)]
  BY DEF Restart
<1>2. ASSUME NEW m \in Numbers
      PROVE  /\ q(m) \in Request
             /\ \/ q(m) = request[m] /\ ~Working(m)
                \/ q(m) = Free
                \/ /\ request[m].kind = "refresh" /\ q(m).kind = "refresh"
                   /\ q(m).step = "refused"
                   /\ q(m).browser = request[m].browser /\ q(m).stale = request[m].stale
  BY RefusedType DEF TypeOK
<1> HIDE DEF q
<1> QED BY <1>1, <1>2

-----------------------------------------------------------------------------
(* Types                                                                    *)

\* Every step gives every request a state that its handler can be in.
LEMMA RequestsTyped ==
  ASSUME TypeOK, [Next]_vars
  PROVE  request' \in [Numbers -> Request]
<1>1. CASE Tick \/ Sweep \/ Rotate \/ RefreshKeys \/ UNCHANGED vars
  BY <1>1 DEF Tick, Sweep, Rotate, RefreshKeys, vars, TypeOK
<1>2. CASE Restart
  BY <1>2, RestartDoes
<1>3. ASSUME NEW b \in Browsers, Authorize(b) \/ Refresh(b)
      PROVE  request' \in [Numbers -> Request]
  BY <1>3, AuthorizeDoes, RefreshDoes DEF Left, Sends, Only
<1>4. ASSUME NEW b \in Browsers, Logout(b)
      PROVE  request' \in [Numbers -> Request]
  BY <1>4, LogoutDoes DEF Left
<1>5. ASSUME NEW p \in Persons, Revoke(p)
      PROVE  request' \in [Numbers -> Request]
  BY <1>5, RevokeDoes DEF Sends, Only
<1>6. ASSUME NEW n \in Numbers, Handler(n)
      PROVE  request' \in [Numbers -> Request]
  <2>1. CASE Callback(n)
    BY <2>1, CallbackDoes DEF Only
  <2>2. CASE Exchange(n) \/ Verify(n) \/ Fetch(n)
    BY <2>2, ExchangeDoes, VerifyDoes, FetchDoes DEF Over, Keeps, Goes, Only
  <2>3. CASE Import(n) \/ Complete(n) \/ TurnAway(n)
    BY <2>3, ImportDoes, CompleteDoes, TurnAwayDoes DEF Over, Keeps, Goes, Only
  <2>4. CASE Store(n) \/ Get(n) \/ Del(n)
    BY <2>4, StoreDoes, GetDoes, DelDoes DEF Over, Keeps, Goes, Only
  <2>5. CASE Check(n)
    BY <2>5, CheckDoes DEF Over, Keeps, Goes, Only
  <2>6. CASE Scan(n) \/ Removed(n)
    BY <2>6, ScanDoes, RemovedDoes DEF Over, Keeps, Sweeps, Goes, Only
  <2>7. CASE Remove(n)
    BY <2>7, RemoveDoes DEF Over, Sweeps, Goes, Only
  <2>8. CASE Arrive(n) \/ ArriveDeleted(n) \/ ArriveRefused(n) \/ AnswerLost(n)
    BY <2>8, AnswerDoes, LostDoes DEF Over, Only
  <2> QED  BY <1>6, <2>1, <2>2, <2>3, <2>4, <2>5, <2>6, <2>7, <2>8 DEF Handler
<1> QED BY <1>1, <1>2, <1>3, <1>4, <1>5, <1>6 DEF Next

\* Sessions are made by Store alone.
LEMMA SessionsTyped ==
  ASSUME TypeOK, [Next]_vars
  PROVE  sessions' \subseteq Session
<1>1. CASE Tick \/ Sweep \/ Rotate \/ RefreshKeys \/ Restart \/ UNCHANGED vars
  BY <1>1 DEF Tick, Sweep, Rotate, RefreshKeys, Restart, vars, TypeOK
<1>2. ASSUME NEW b \in Browsers, Authorize(b) \/ Refresh(b) \/ Logout(b)
      PROVE  sessions' \subseteq Session
  BY <1>2 DEF Authorize, Refresh, Logout, TypeOK
<1>3. ASSUME NEW p \in Persons, Revoke(p)
      PROVE  sessions' \subseteq Session
  BY <1>3 DEF Revoke, TypeOK
<1>4. ASSUME NEW n \in Numbers, Handler(n)
      PROVE  sessions' \subseteq Session
  <2>1. CASE \/ Callback(n) \/ Exchange(n) \/ Verify(n) \/ Fetch(n) \/ Import(n)
             \/ Complete(n) \/ TurnAway(n) \/ Get(n) \/ Check(n)
    BY <2>1 DEF Callback, Exchange, Verify, Fetch, Import, Complete, TurnAway, Get, Check, TypeOK
  <2>2. CASE Store(n)
    <3>1. request[n] \in Request /\ Issuing(request[n])
      BY <2>2, StoreDoes DEF TypeOK
    <3>2. [token |-> n, id |-> request[n].jwt.id] \in Session
      BY <3>1, Fields DEF Session, JWT
    <3> QED  BY <2>2, <3>2 DEF Store, TypeOK
  <2>3. CASE Del(n)
    BY <2>3 DEF Del, TypeOK
  <2>4. CASE Remove(n)
    BY <2>4, RemoveDoes DEF TypeOK
  <2>5. CASE \/ Scan(n) \/ Removed(n) \/ Arrive(n) \/ ArriveDeleted(n) \/ ArriveRefused(n)
             \/ AnswerLost(n)
    BY <2>5 DEF Scan, Removed, Arrive, ArriveDeleted, ArriveRefused, AnswerLost, TypeOK
  <2> QED  BY <1>4, <2>1, <2>2, <2>3, <2>4, <2>5 DEF Handler
<1> QED BY <1>1, <1>2, <1>3, <1>4 DEF Next

LEMMA InitTyped == Init => TypeOK
<1> SUFFICES ASSUME Init PROVE TypeOK
  OBVIOUS
<1>1. boot \in 1 .. MaxResets + 1 /\ idp \in [latest : Key, since : [Key -> Nat]]
  BY ClearanceAssumption DEF Init, Key
<1>2. keys \in [cache : SUBSET Key, fetched : Int, client : Nat \ {0}]
  BY ClearanceAssumption DEF Init, NoKeys
<1>3. request \in [Numbers -> Request] /\ sent \in 0 .. MaxRequests
  BY FreeIsRequest, ClearanceAssumption DEF Init
<1> QED BY <1>1, <1>2, <1>3 DEF Init, TypeOK

\* The keys and the provider, on whichever step changes them.
LEMMA KeysTyped ==
  ASSUME TypeOK
  PROVE  /\ Rotate => idp' \in [latest : Key, since : [Key -> Nat]]
         /\ RefreshKeys \/ Restart => keys' \in [cache : SUBSET Key, fetched : Int, client : Nat \ {0}]
         /\ \A n \in Numbers : Fetch(n) \/ Import(n) =>
              keys' \in [cache : SUBSET Key, fetched : Int, client : Nat \ {0}]
<1>1. ASSUME Rotate PROVE idp' \in [latest : Key, since : [Key -> Nat]]
  <2>1. idp.latest + 1 \in Key
    BY <1>1, ClearanceAssumption DEF Rotate, TypeOK, Key
  <2> QED  BY <1>1, <2>1 DEF Rotate, TypeOK
<1>2. ASSUME RefreshKeys \/ Restart
      PROVE  keys' \in [cache : SUBSET Key, fetched : Int, client : Nat \ {0}]
  BY <1>2, ClearanceAssumption DEF RefreshKeys, Restart, NoKeys, TypeOK
<1>3. ASSUME NEW n \in Numbers, Fetch(n)
      PROVE  keys' \in [cache : SUBSET Key, fetched : Int, client : Nat \ {0}]
  <2>1. keys' = keys \/ keys' = [keys EXCEPT !.fetched = clock]
    BY <1>3, FetchDoes
  <2> QED  BY <2>1 DEF TypeOK
<1>4. ASSUME NEW n \in Numbers, Import(n)
      PROVE  keys' \in [cache : SUBSET Key, fetched : Int, client : Nat \ {0}]
  <2>1. request[n].found \in SUBSET Key
    BY <1>4, Fields DEF Import, At, TypeOK
  <2> QED  BY <1>4, <2>1 DEF Import, TypeOK
<1> QED BY <1>1, <1>2, <1>3, <1>4

LEMMA TypeStep ==
  ASSUME TypeOK, [Next]_vars
  PROVE  TypeOK'
<1>1. request' \in [Numbers -> Request] /\ sessions' \subseteq Session
  BY RequestsTyped, SessionsTyped
<1>2. CASE UNCHANGED vars
  BY <1>2 DEF vars, client, history, TypeOK, Working, InFlight
<1>3. CASE Tick \/ Sweep \/ Rotate \/ RefreshKeys
  BY <1>1, <1>3, KeysTyped DEF Tick, Sweep, Rotate, RefreshKeys, client, history, TypeOK
<1>4. CASE Restart
  <2>1. boot' \in 1 .. MaxResets + 1
    BY <1>4, ClearanceAssumption DEF Restart, TypeOK
  <2> QED  BY <1>1, <1>4, <2>1, KeysTyped DEF Restart, client, TypeOK
<1>5. ASSUME NEW b \in Browsers, Authorize(b) \/ Refresh(b) \/ Logout(b)
      PROVE  TypeOK'
  <2>1. sent' \in 0 .. MaxRequests
    BY <1>5, ClearanceAssumption DEF Authorize, Refresh, Send, Logout, TypeOK
  <2>2. CASE Authorize(b)
    <3>1. sent' \in Numbers
      BY <2>2, AuthorizeDoes
    <3>2. pending' \subseteq [number: Numbers, browser: Browsers, born: Nat]
      BY <2>2, <3>1 DEF Authorize, TypeOK
    <3>3. ended' \subseteq Browsers
      BY <2>2 DEF Authorize, Abandoned, TypeOK
    <3> QED  BY <1>1, <2>1, <2>2, <3>2, <3>3 DEF Authorize, client, TypeOK
  <2>3. CASE Refresh(b)
    <3>1. overlapped' \subseteq Browsers
      BY <2>3 DEF Refresh, TypeOK
    <3> QED  BY <1>1, <2>1, <2>3, <3>1 DEF Refresh, client, TypeOK
  <2>4. CASE Logout(b)
    <3>1. jwt' \in [Browsers -> JWT \cup {Nil}] /\ ended' \subseteq Browsers
      BY <2>4 DEF Logout, TypeOK
    <3> QED  BY <1>1, <2>1, <2>4, <3>1 DEF Logout, TypeOK
  <2> QED  BY <1>5, <2>2, <2>3, <2>4
<1>6. ASSUME NEW p \in Persons, Revoke(p)
      PROVE  TypeOK'
  <2>1. sent' \in 0 .. MaxRequests
    BY <1>6, ClearanceAssumption DEF Revoke, Send, TypeOK
  <2>2. record' \in [Persons -> {Nil, "active", "revoked"}] /\ ended' \subseteq Browsers
    BY <1>6 DEF Revoke, TypeOK
  <2>3. revokedAt' \in [IDs -> Nat \cup {Nil}]
    BY <1>6 DEF Revoke, TypeOK
  <2> QED  BY <1>1, <1>6, <2>1, <2>2, <2>3 DEF Revoke, client, TypeOK
<1>7. ASSUME NEW n \in Numbers, Handler(n)
      PROVE  TypeOK'
  <2>1. CASE Callback(n)
    BY <1>1, <2>1 DEF Callback, client, history, TypeOK
  <2>2. CASE Exchange(n)
    BY <1>1, <2>2 DEF Exchange, Others, client, Fault, Hurt, TypeOK
  <2>3. CASE Verify(n) \/ TurnAway(n) \/ Check(n)
    BY <1>1, <2>3 DEF Verify, TurnAway, Check, Others, client, history, TypeOK
  <2>4. CASE Fetch(n)
    <3>1. faults' \in Nat /\ ended' \subseteq Browsers
      <4>1. \/ UNCHANGED <<faults, ended>>
            \/ faults' = faults + 1 /\ ended' = ended \cup (Browsers \cap {request[n].browser})
        BY <2>4 DEF Fetch, Fault, Hurt
      <4> QED  BY <4>1 DEF TypeOK
    <3>2. /\ UNCHANGED <<record, revokedAt, promised, exchanged, overlapped>>
          /\ UNCHANGED <<clock, boot, pending, idp, sent, cookie, jwt>>
      BY <2>4 DEF Fetch, Others, client
    <3>3. keys' \in [cache : SUBSET Key, fetched : Int, client : Nat \ {0}]
      BY <2>4, KeysTyped
    <3> QED  BY <1>1, <3>1, <3>2, <3>3 DEF TypeOK
  <2>5. CASE Import(n)
    BY <1>1, <2>5, KeysTyped DEF Import, Others, client, history, TypeOK
  <2>6. CASE Complete(n)
    <3>1. record' \in [Persons -> {Nil, "active", "revoked"}]
      BY <2>6 DEF Complete, TypeOK
    <3>2. ended' \subseteq Browsers /\ overlapped' \subseteq Browsers
      BY <2>6 DEF Complete, Afresh, TypeOK
    <3> QED  BY <1>1, <2>6, <3>1, <3>2 DEF Complete, Others, client, TypeOK
  <2>7. CASE Store(n)
    BY <1>1, <2>7 DEF Store, RedisFails, Others, client, Fault, Hurt, TypeOK
  <2>8. CASE Get(n)
    BY <1>1, <2>8 DEF Get, RedisFails, Others, client, Fault, Hurt, TypeOK
  <2>9. CASE Del(n)
    BY <1>1, <2>9 DEF Del, RedisFails, Others, client, Fault, Hurt, TypeOK
  <2>10. CASE Scan(n)
    <3>1. faults' \in Nat /\ ended' \subseteq Browsers
      <4>1. \/ UNCHANGED <<faults, ended>>
            \/ faults' = faults + 1 /\ ended' = ended \cup (Browsers \cap {request[n].browser})
        BY <2>10 DEF Scan, RedisFails, Fault, Hurt
      <4> QED  BY <4>1 DEF TypeOK
    <3>2. /\ UNCHANGED <<record, keys, revokedAt, promised, exchanged, overlapped>>
          /\ UNCHANGED <<clock, boot, pending, idp, sent, cookie, jwt>>
      BY <2>10 DEF Scan, Others, client
    <3> QED  BY <1>1, <3>1, <3>2 DEF TypeOK
  <2>11. CASE Remove(n)
    BY <1>1, <2>11 DEF Remove, RedisFails, Others, client, Fault, Hurt, TypeOK
  <2>12. CASE Removed(n)
    <3>1. promised' \subseteq Numbers
      <4>1. request[n] \in Request /\ Deletes(request[n])
        BY <2>12, RemovedDoes DEF TypeOK
      <4> QED  BY <2>12, <4>1, Fields DEF Removed, TypeOK
    <3> QED  BY <1>1, <2>12, <3>1 DEF Removed, Others, client, TypeOK
  <2>13. CASE Arrive(n)
    <3>1. request[n] \in Request /\ Issuing(request[n])
      BY <2>13 DEF Arrive, Issuing, TypeOK
    <3>2. jwt' \in [Browsers -> JWT \cup {Nil}] /\ cookie' \in [Browsers -> Numbers \cup {Nil}]
      BY <2>13, <3>1, Fields DEF Arrive, StoreJWT, SetCookie, TypeOK
    <3> QED  BY <1>1, <2>13, <3>2 DEF Arrive, history, TypeOK
  <2>14. CASE ArriveDeleted(n)
    <3>1. cookie' \in [Browsers -> Numbers \cup {Nil}]
      BY <2>14 DEF ArriveDeleted, TypeOK
    <3> QED  BY <1>1, <2>14, <3>1 DEF ArriveDeleted, history, TypeOK
  <2>15. CASE ArriveRefused(n)
    <3>1. jwt' \in [Browsers -> JWT \cup {Nil}]
      BY <2>15 DEF ArriveRefused, TypeOK
    <3> QED  BY <1>1, <2>15, <3>1 DEF ArriveRefused, history, TypeOK
  <2>16. CASE AnswerLost(n)
    BY <1>1, <2>16 DEF AnswerLost, Fault, client, TypeOK
  <2> QED  BY <1>7, <2>1, <2>2, <2>3, <2>4, <2>5, <2>6, <2>7, <2>8, <2>9, <2>10, <2>11, <2>12,
              <2>13, <2>14, <2>15, <2>16 DEF Handler
<1> QED BY <1>2, <1>3, <1>4, <1>5, <1>6, <1>7 DEF Next

\* Whatever its requests are doing, Signal Clearance, Redis and the browsers hold what they may.
THEOREM SessionsTypeCorrect == Spec => []TypeOK
<1> QED BY InitTyped, TypeStep, PTL DEF Spec

-----------------------------------------------------------------------------
(* Numbers: a pending login and a request have numbers of their own          *)

Numbered ==
  /\ \A n \in Numbers : n > sent => request[n] = Free
  /\ \A e \in pending : e.number <= sent /\ request[e.number] = Free
  /\ \A e, f \in pending : e.number = f.number => e = f

\* Every step of a handler but its first.
LEMMA HandlerMoves ==
  ASSUME TypeOK, NEW n \in Numbers, Handler(n), ~Callback(n)
  PROVE  Only(n) /\ request[n].kind # "none" /\ UNCHANGED <<clock, boot, pending, idp, sent>>
<1>1. CASE Exchange(n) \/ Verify(n) \/ Fetch(n)
  BY <1>1, ExchangeDoes, VerifyDoes, FetchDoes
     DEF Over, Keeps, Goes, Exchange, Verify, Fetch, At, Others
<1>2. CASE Import(n) \/ Complete(n) \/ TurnAway(n)
  BY <1>2, ImportDoes, CompleteDoes, TurnAwayDoes
     DEF Over, Keeps, Goes, Import, Complete, TurnAway, At, Others
<1>3. CASE Store(n)
  BY <1>3, StoreDoes DEF Over, Keeps, Goes, Store, Issuing, Others
<1>4. CASE Get(n) \/ Del(n) \/ Check(n)
  BY <1>4, GetDoes, DelDoes, CheckDoes DEF Over, Keeps, Goes, Get, Del, Check, At, Others
<1>5. CASE Scan(n)
  BY <1>5, ScanDoes DEF Over, Sweeps, Goes, Scan, Deletes, Others
<1>6. CASE Remove(n)
  BY <1>6, RemoveDoes DEF Over, Sweeps, Goes, Remove, Deletes, Others
<1>7. CASE Removed(n)
  BY <1>7, RemovedDoes DEF Keeps, Goes, Removed, Deletes, Others
<1>8. CASE Arrive(n) \/ ArriveDeleted(n)
  BY <1>8, AnswerDoes DEF Over, Arrive, ArriveDeleted
<1>9. CASE ArriveRefused(n) \/ AnswerLost(n)
  <2>1. request[n] # Free /\ request[n] \in Request
    BY <1>9 DEF ArriveRefused, AnswerLost, Free, TypeOK
  <2>2. request[n].kind # "none"
    BY <2>1, Fields
  <2> QED  BY <1>9, <2>2, AnswerDoes, LostDoes DEF Over, ArriveRefused, AnswerLost
<1> QED BY <1>1, <1>2, <1>3, <1>4, <1>5, <1>6, <1>7, <1>8, <1>9 DEF Handler

LEMMA NumberedStep ==
  ASSUME TypeOK, Numbered, [Next]_vars
  PROVE  Numbered'
<1>0. sent \in Nat /\ Numbers \subseteq Nat /\ \A e \in pending : e.number \in Numbers
  BY DEF TypeOK, Numbers
<1>1. CASE Tick \/ Sweep \/ Rotate \/ RefreshKeys \/ UNCHANGED vars
  BY <1>1 DEF Tick, Sweep, Rotate, RefreshKeys, vars, Numbered
<1>2. CASE Restart
  <2>1. pending' = {} /\ sent' = sent
    BY <1>2 DEF Restart
  <2> QED  BY <1>2, <2>1, RestartDoes DEF Numbered, Free
<1>3. ASSUME NEW b \in Browsers, Authorize(b)
      PROVE  Numbered'
  <2>1. pending' = pending \cup {[number |-> sent + 1, browser |-> b, born |-> clock]}
    BY <1>3 DEF Authorize
  <2>2. Left(b) /\ sent + 1 \in Numbers /\ sent' = sent + 1
    BY <1>3, AuthorizeDoes
  <2>3. \A m \in Numbers : request[m] = Free => request'[m] = Free
    BY <2>2, ClearanceAssumption DEF Left, Free
  <2>4. request[sent + 1] = Free
    BY <1>0, <2>2 DEF Numbered
  <2> QED  BY <1>0, <2>1, <2>2, <2>3, <2>4 DEF Numbered
<1>4. ASSUME sent + 1 \in Numbers, sent' = sent + 1, pending' = pending,
             \A m \in Numbers \ {sent + 1} : request[m] = Free => request'[m] = Free
      PROVE  Numbered'
  <2>1. ASSUME NEW m \in Numbers, m > sent' PROVE request'[m] = Free
    BY <1>0, <1>4, <2>1 DEF Numbered
  <2>2. ASSUME NEW e \in pending' PROVE e.number <= sent' /\ request'[e.number] = Free
    <3>1. e.number \in Numbers /\ e.number <= sent /\ request[e.number] = Free
      BY <1>0, <1>4, <2>2 DEF Numbered
    <3>2. e.number # sent + 1
      BY <1>0, <3>1 DEF Numbers
    <3>3. request'[e.number] = Free
      BY <1>4, <3>1, <3>2
    <3> QED  BY <1>0, <1>4, <3>1, <3>3 DEF Numbers
  <2> QED  BY <1>4, <2>1, <2>2 DEF Numbered
<1>5. ASSUME NEW b \in Browsers, Logout(b)
      PROVE  Numbered'
  <2>1. Free.browser # b /\ pending' = pending
    BY <1>5, ClearanceAssumption DEF Free, Logout
  <2>2. CASE Left(b) /\ sent' = sent
    <3>1. \A m \in Numbers : request[m] = Free => request'[m] = Free
      BY <2>1, <2>2 DEF Left
    <3> QED  BY <1>0, <2>1, <2>2, <3>1 DEF Numbered
  <2>3. CASE ~(Left(b) /\ sent' = sent)
    <3>1. /\ sent + 1 \in Numbers /\ sent' = sent + 1
          /\ \A m \in Numbers \ {sent + 1} : request[m] = Free => request'[m] = Free
      BY <1>5, <2>1, <2>3, LogoutDoes
    <3> QED  BY <1>4, <2>1, <3>1
  <2> QED  BY <2>2, <2>3
<1>6. ASSUME NEW n \in Numbers, Callback(n)
      PROVE  Numbered'
  <2>1. PICK e \in pending : e.number = n /\ pending' = pending \ {e} /\ Only(n)
    BY <1>6, CallbackDoes
  <2>2. sent' = sent /\ n <= sent
    BY <1>6, <2>1 DEF Callback, Numbered
  <2>3. ASSUME NEW m \in Numbers, m > sent' PROVE request'[m] = Free
    BY <1>0, <2>1, <2>2, <2>3 DEF Numbered, Only
  <2>4. ASSUME NEW f \in pending' PROVE f.number <= sent' /\ request'[f.number] = Free
    <3>1. f \in pending /\ f.number # n
      BY <2>1, <2>4 DEF Numbered
    <3> QED  BY <1>0, <2>1, <2>2, <3>1 DEF Numbered, Only
  <2> QED  BY <2>1, <2>3, <2>4 DEF Numbered
<1>7. ASSUME NEW n \in Numbers, Handler(n), ~Callback(n)
      PROVE  Numbered'
  <2>1. Only(n) /\ request[n] # Free /\ pending' = pending /\ sent' = sent
    BY <1>7, HandlerMoves DEF Free
  <2> QED  BY <1>0, <2>1 DEF Numbered, Only
<1>8. ASSUME NEW b \in Browsers, Refresh(b)
      PROVE  Numbered'
  <2>1. /\ sent + 1 \in Numbers /\ sent' = sent + 1 /\ pending' = pending
        /\ \A m \in Numbers \ {sent + 1} : request'[m] = request[m]
    BY <1>8, RefreshDoes DEF Refresh, Sends, Only
  <2> QED  BY <1>4, <2>1
<1>9. ASSUME NEW p \in Persons, Revoke(p)
      PROVE  Numbered'
  <2>1. /\ sent + 1 \in Numbers /\ sent' = sent + 1 /\ pending' = pending
        /\ \A m \in Numbers \ {sent + 1} : request'[m] = request[m]
    BY <1>9, RevokeDoes DEF Revoke, Sends, Only
  <2> QED  BY <1>4, <2>1
<1> QED BY <1>1, <1>2, <1>3, <1>5, <1>6, <1>7, <1>8, <1>9 DEF Next

\* A new request: a refresh, a logout or a revocation.
Begins(m) ==
  /\ m = sent + 1 /\ sent' = sent + 1 /\ request[m] = Free
  /\ \/ \E b \in Browsers : Refresh(b) /\ request'[m] =
            [kind |-> "refresh", step |-> "get", browser |-> b, stale |-> FALSE,
             token |-> cookie[b]]
     \/ \E b \in Browsers : Logout(b) /\ jwt[b].id \in IDs /\ request'[m] =
            [Deletion("logout", b, jwt[b].id) EXCEPT !.stale = TRUE]
     \/ \E p \in Persons : Revoke(p) /\ request'[m] = Deletion("revoke", Nil, WranglerID(p))

\* The page of request m went away.
Leaves(m) ==
  /\ request[m].browser \in Browsers /\ Same(request[m], request'[m])
  /\ request'[m].step = request[m].step /\ request'[m].stale
  /\ \/ Authorize(request[m].browser)
     \/ Logout(request[m].browser)

\* Request m was stopped by a restart, or its page will hear that its refresh was refused.
Stopped(m) ==
  /\ Restart
  /\ \/ request'[m] = request[m] /\ ~Working(m)
     \/ request'[m] = Free
     \/ /\ request[m].kind = "refresh" /\ request'[m].kind = "refresh"
        /\ request'[m].step = "refused"
        /\ request'[m].browser = request[m].browser /\ request'[m].stale = request[m].stale

\* What any step can do to a request.
LEMMA Moves ==
  ASSUME TypeOK, Numbered, [Next]_vars, NEW m \in Numbers
  PROVE  \/ request'[m] = request[m] /\ ~Restart
         \/ Handler(m)
         \/ Begins(m)
         \/ Leaves(m)
         \/ Stopped(m)
<1>1. CASE Restart
  BY <1>1, RestartDoes DEF Stopped
<1>2. CASE UNCHANGED vars \/ Tick \/ Sweep \/ Rotate \/ RefreshKeys
  BY <1>2 DEF vars, Tick, Sweep, Rotate, RefreshKeys, Restart, TypeOK
<1>3. ASSUME NEW b \in Browsers, Authorize(b) PROVE request'[m] = request[m] \/ Leaves(m)
  BY <1>3, AuthorizeDoes DEF Left, Leaves
<1>4. sent \in Nat /\ (m = sent + 1 => request[m] = Free)
  BY DEF TypeOK, Numbered, Numbers
<1>5. ASSUME NEW b \in Browsers, Refresh(b) PROVE request'[m] = request[m] \/ Begins(m)
  BY <1>4, <1>5, RefreshDoes DEF Sends, Only, Begins
<1>6. ASSUME NEW p \in Persons, Revoke(p) PROVE request'[m] = request[m] \/ Begins(m)
  BY <1>4, <1>6, RevokeDoes DEF Sends, Only, Begins
<1>7. ASSUME NEW b \in Browsers, Logout(b)
      PROVE  request'[m] = request[m] \/ Leaves(m) \/ Begins(m)
  <2>1. CASE Left(b)
    BY <1>7, <2>1 DEF Left, Leaves
  <2>2. CASE ~Left(b) /\ m = sent + 1
    BY <1>4, <1>7, <2>2, LogoutDoes DEF Begins
  <2>3. CASE ~Left(b) /\ m # sent + 1
    BY <1>7, <2>3, LogoutDoes DEF Leaves
  <2> QED  BY <2>1, <2>2, <2>3
<1>8. ASSUME NEW n \in Numbers, Handler(n), n # m PROVE request'[m] = request[m]
  BY <1>8, CallbackDoes, HandlerMoves DEF Only
<1> QED BY <1>1, <1>2, <1>3, <1>5, <1>6, <1>7, <1>8 DEF Next

-----------------------------------------------------------------------------
(* Refresh tokens and their deletion                                        *)

\* A request, or pending login, whose number may become a token is not one yet.
Early == {"exchange", "verify", "fetch", "import", "complete", "get", "del", "check", "store"}
Unstored(n) ==
  \/ n > sent
  \/ \E e \in pending : e.number = n
  \/ request[n].step \in Early

LEMMA EarlyMoves ==
  ASSUME TypeOK, NEW n \in Numbers, Handler(n), ~Callback(n), request'[n].step \in Early
  PROVE  request[n].step \in Early \ {"store"}
<1>0. ~Over(n)
  BY DEF Over, Free, Early
<1>1. CASE Exchange(n) \/ Verify(n) \/ Fetch(n)
  BY <1>1, ExchangeDoes DEF Exchange, Verify, Fetch, At, Early
<1>2. CASE Import(n) \/ Complete(n) \/ TurnAway(n)
  BY <1>2 DEF Import, Complete, TurnAway, At, Early
<1>3. CASE Store(n)
  BY <1>0, <1>3, StoreDoes DEF Keeps, Goes, Early
<1>4. CASE Get(n) \/ Check(n)
  BY <1>4 DEF Get, Check, At, Early
<1>5. CASE Scan(n)
  BY <1>0, <1>5, ScanDoes DEF Sweeps, Goes, Early
<1>6. CASE Remove(n)
  BY <1>0, <1>6, RemoveDoes DEF Sweeps, Goes, Early
<1>7. CASE Removed(n)
  BY <1>7, RemovedDoes DEF Keeps, Goes, Early
<1>8. CASE Arrive(n) \/ ArriveDeleted(n) \/ ArriveRefused(n) \/ AnswerLost(n)
  BY <1>0, <1>8, AnswerDoes, LostDoes
<1>9. CASE Del(n)
  BY <1>9 DEF Del, At, Early
<1> QED BY <1>1, <1>2, <1>3, <1>4, <1>5, <1>6, <1>7, <1>8, <1>9 DEF Handler

LEMMA SentGrows ==
  ASSUME TypeOK, [Next]_vars
  PROVE  /\ sent' \in {sent, sent + 1}
         /\ \A e \in pending' : e \in pending \/ e.number = sent + 1
<1>1. CASE UNCHANGED vars \/ Tick \/ Sweep \/ Rotate \/ RefreshKeys \/ Restart
  BY <1>1 DEF vars, Tick, Sweep, Rotate, RefreshKeys, Restart
<1>2. ASSUME NEW b \in Browsers, Authorize(b) \/ Refresh(b) \/ Logout(b)
      PROVE  /\ sent' \in {sent, sent + 1}
             /\ \A e \in pending' : e \in pending \/ e.number = sent + 1
  BY <1>2 DEF Authorize, Refresh, Send, Logout
<1>3. ASSUME NEW p \in Persons, Revoke(p)
      PROVE  sent' \in {sent, sent + 1} /\ pending' = pending
  BY <1>3 DEF Revoke, Send
<1>4. ASSUME NEW n \in Numbers, Handler(n)
      PROVE  sent' = sent /\ pending' \subseteq pending
  BY <1>4, HandlerMoves DEF Callback
<1> QED BY <1>1, <1>2, <1>3, <1>4 DEF Next

\* No step gives a number a second time.
LEMMA UnstoredStep ==
  ASSUME TypeOK, Numbered, [Next]_vars, NEW n \in Numbers, Unstored(n)'
  PROVE  Unstored(n) /\ ~Store(n)
<1>0. sent \in Nat /\ n \in Nat
  BY DEF TypeOK, Numbers
<1>1. ASSUME n > sent'
      PROVE  n > sent
  BY <1>0, <1>1, SentGrows
<1>2. ASSUME NEW e \in pending', e.number = n
      PROVE  n > sent \/ \E f \in pending : f.number = n
  BY <1>0, <1>2, SentGrows
<1>3. ASSUME request'[n].step \in Early
      PROVE  Unstored(n)
  <2>1. CASE request'[n] = request[n] \/ Leaves(n)
    BY <1>3, <2>1 DEF Leaves, Unstored
  <2>2. CASE Callback(n)
    BY <2>2 DEF Callback, Unstored
  <2>3. CASE Handler(n) /\ ~Callback(n)
    BY <1>3, <2>3, EarlyMoves DEF Unstored
  <2>4. CASE Begins(n)
    BY <1>0, <2>4 DEF Begins, Unstored
  <2>5. CASE Stopped(n)
    BY <1>3, <2>5 DEF Stopped, Free, Early, Unstored
  <2> QED  BY <2>1, <2>2, <2>3, <2>4, <2>5, Moves
<1>4. Unstored(n)
  BY <1>1, <1>2, <1>3 DEF Unstored
<1>5. ASSUME Store(n)
      PROVE  FALSE
  <2>1. request[n].step = "store" /\ request[n] # Free
    BY <1>5 DEF Store, Free
  <2>2. request'[n].step \notin Early
    BY <1>5, StoreDoes DEF Over, Keeps, Goes, Free, Early
  <2>3. sent' = sent /\ pending' = pending
    BY <1>5 DEF Store, Others
  <2> QED  BY <1>0, <2>1, <2>2, <2>3 DEF Unstored, Numbered
<1> QED BY <1>4, <1>5

\* Redis gets another refresh token only from Store.
LEMMA SessionSteps ==
  ASSUME TypeOK, [Next]_vars, NEW s \in sessions', s \notin sessions
  PROVE  \E n \in Numbers : Store(n) /\ s = [token |-> n, id |-> request[n].jwt.id]
<1>1. ~(UNCHANGED vars \/ Tick \/ Sweep \/ Rotate \/ RefreshKeys \/ Restart)
  BY DEF vars, Tick, Sweep, Rotate, RefreshKeys, Restart
<1>2. ASSUME NEW b \in Browsers, Authorize(b) \/ Refresh(b) \/ Logout(b)
      PROVE  FALSE
  BY <1>2 DEF Authorize, Refresh, Logout
<1>3. ASSUME NEW p \in Persons, Revoke(p)
      PROVE  FALSE
  BY <1>3 DEF Revoke
<1>4. ASSUME NEW n \in Numbers, Handler(n)
      PROVE  Store(n) /\ s = [token |-> n, id |-> request[n].jwt.id]
  <2>1. ~(\/ Callback(n) \/ Exchange(n) \/ Verify(n) \/ Fetch(n) \/ Import(n)
          \/ Complete(n) \/ TurnAway(n) \/ Get(n) \/ Check(n))
    BY DEF Callback, Exchange, Verify, Fetch, Import, Complete, TurnAway, Get, Check
  <2>2. ~Del(n)
    BY DEF Del
  <2>3. ~Remove(n)
    BY RemoveDoes
  <2>4. ~(\/ Scan(n) \/ Removed(n) \/ Arrive(n) \/ ArriveDeleted(n) \/ ArriveRefused(n)
          \/ AnswerLost(n))
    BY DEF Scan, Removed, Arrive, ArriveDeleted, ArriveRefused, AnswerLost
  <2>5. Store(n)
    BY <1>4, <2>1, <2>2, <2>3, <2>4 DEF Handler
  <2> QED  BY <2>5 DEF Store
<1> QED BY <1>1, <1>2, <1>3, <1>4 DEF Next

\* A token has one owner, and numbers that are no tokens yet are in nobody's hands.
OneID == \A s, t \in sessions : s.token = t.token => s = t

TokensNew ==
  \A n \in Numbers : Unstored(n) =>
    /\ n \notin promised
    /\ \A s \in sessions : s.token # n
    /\ \A m \in Numbers : request[m].step = "scan" => n \notin request[m].all

\* Of the tokens it is to delete, a deletion knows those that are still there.
Deleting ==
  \A m \in Numbers : request[m].step = "scan" =>
    \A s \in sessions : s.token \in request[m].all =>
      s \in request[m].left \cup request[m].todo /\ s.id = request[m].id

\* Which deletions are at work after a step.
LEMMA DeletionSteps ==
  ASSUME TypeOK, Numbered, [Next]_vars, NEW m \in Numbers, request'[m].step = "scan"
  PROVE  \/ /\ request[m].step = "scan"
            /\ request'[m].all = request[m].all /\ request'[m].id = request[m].id
            /\ \/ request'[m].left = request[m].left /\ request'[m].todo = request[m].todo
               \/ Scan(m)
               \/ Remove(m)
         \/ /\ request'[m].all = {s.token : s \in Of(request'[m].id)}
            /\ request'[m].left = sessions /\ sessions' = sessions
<1>1. CASE request'[m] = request[m]
  BY <1>1
<1>2. CASE Leaves(m)
  BY <1>2, Scanning DEF Leaves, Same
<1>3. CASE Stopped(m)
  BY <1>3 DEF Stopped, Free, Working
<1>4. CASE Begins(m)
  <2>1. CASE \E b \in Browsers : Refresh(b) /\ request'[m] =
             [kind |-> "refresh", step |-> "get", browser |-> b, stale |-> FALSE,
              token |-> cookie[b]]
    BY <2>1
  <2>2. ASSUME NEW b \in Browsers, Logout(b),
               request'[m] = [Deletion("logout", b, jwt[b].id) EXCEPT !.stale = TRUE]
        PROVE  /\ request'[m].all = {s.token : s \in Of(request'[m].id)}
               /\ request'[m].left = sessions /\ sessions' = sessions
    BY <2>2 DEF Logout, Deletion
  <2>3. ASSUME NEW p \in Persons, Revoke(p),
               request'[m] = Deletion("revoke", Nil, WranglerID(p))
        PROVE  /\ request'[m].all = {s.token : s \in Of(request'[m].id)}
               /\ request'[m].left = sessions /\ sessions' = sessions
    BY <2>3 DEF Revoke, Deletion
  <2> QED  BY <1>4, <2>1, <2>2, <2>3 DEF Begins
<1>5. CASE Handler(m)
  <2>1. ~Callback(m)
    BY CallbackDoes
  <2>2. ~Over(m)
    BY DEF Over, Free
  <2>3. ~(Exchange(m) \/ Verify(m) \/ Fetch(m))
    BY <2>2, ExchangeDoes, VerifyDoes, FetchDoes DEF Keeps, Goes
  <2>4. ~(Import(m) \/ Complete(m) \/ TurnAway(m) \/ Store(m))
    BY <2>2, ImportDoes, CompleteDoes, TurnAwayDoes, StoreDoes DEF Keeps, Goes
  <2>5. ~(Get(m) \/ Del(m) \/ Check(m))
    BY <2>2, GetDoes, DelDoes, CheckDoes DEF Keeps, Goes
  <2>6. ~(Removed(m) \/ Arrive(m) \/ ArriveDeleted(m) \/ ArriveRefused(m) \/ AnswerLost(m))
    BY <2>2, RemovedDoes, AnswerDoes, LostDoes DEF Keeps, Goes
  <2>7. CASE Scan(m)
    BY <2>2, <2>7, ScanDoes DEF Scan, Sweeps
  <2>8. CASE Remove(m)
    BY <2>2, <2>8, RemoveDoes DEF Remove, Sweeps
  <2> QED  BY <1>5, <2>1, <2>3, <2>4, <2>5, <2>6, <2>7, <2>8 DEF Handler
<1> QED BY <1>1, <1>2, <1>3, <1>4, <1>5, Moves

\* A deletion that has answered promised the tokens that it knew.
LEMMA PromiseSteps ==
  ASSUME TypeOK, [Next]_vars, NEW t \in promised', t \notin promised
  PROVE  \E m \in Numbers : Removed(m) /\ t \in request[m].all
<1>1. ~(UNCHANGED vars \/ Tick \/ Sweep \/ Rotate \/ RefreshKeys \/ Restart)
  BY DEF vars, Tick, Sweep, Rotate, RefreshKeys, Restart, history
<1>2. ASSUME NEW b \in Browsers, Authorize(b) \/ Refresh(b) \/ Logout(b)
      PROVE  FALSE
  BY <1>2 DEF Authorize, Refresh, Logout
<1>3. ASSUME NEW p \in Persons, Revoke(p)
      PROVE  FALSE
  BY <1>3 DEF Revoke
<1>4. ASSUME NEW n \in Numbers, Handler(n)
      PROVE  Removed(n) /\ t \in request[n].all
  <2>1. ~(\/ Callback(n) \/ Exchange(n) \/ Verify(n) \/ Fetch(n) \/ Import(n)
          \/ Complete(n) \/ TurnAway(n) \/ Get(n) \/ Check(n))
    BY DEF Callback, Exchange, Verify, Fetch, Import, Complete, TurnAway, Get, Check, history
  <2>2. ~(\/ Store(n) \/ Del(n) \/ Scan(n) \/ Remove(n) \/ Arrive(n) \/ ArriveDeleted(n)
          \/ ArriveRefused(n) \/ AnswerLost(n))
    BY DEF Store, Del, Scan, Remove, Arrive, ArriveDeleted, ArriveRefused, AnswerLost, history
  <2>3. Removed(n)
    BY <1>4, <2>1, <2>2 DEF Handler
  <2> QED  BY <2>3 DEF Removed
<1> QED BY <1>1, <1>2, <1>3, <1>4 DEF Next

Tokens == Numbered /\ OneID /\ TokensNew /\ Deleting /\ DeletedIsGone

LEMMA TokensNewStep ==
  ASSUME TypeOK, Tokens, [Next]_vars
  PROVE  TokensNew'
<1> SUFFICES ASSUME NEW n \in Numbers, Unstored(n)'
             PROVE  /\ n \notin promised'
                    /\ \A s \in sessions' : s.token # n
                    /\ \A m \in Numbers : request'[m].step = "scan" => n \notin request'[m].all
  BY DEF TokensNew
<1>1. /\ Unstored(n) /\ ~Store(n) /\ n \notin promised
      /\ \A s \in sessions : s.token # n
      /\ \A m \in Numbers : request[m].step = "scan" => n \notin request[m].all
  BY UnstoredStep DEF Tokens, TokensNew
<1>2. n \notin promised'
  <2>1. ASSUME NEW m \in Numbers, Removed(m) PROVE n \notin request[m].all
    BY <1>1, <2>1 DEF Removed
  <2> QED  BY <1>1, <2>1, PromiseSteps
<1>3. ASSUME NEW s \in sessions' PROVE s.token # n
  BY <1>1, <1>3, SessionSteps
<1>4. ASSUME NEW m \in Numbers, request'[m].step = "scan" PROVE n \notin request'[m].all
  <2>1. CASE request[m].step = "scan" /\ request'[m].all = request[m].all
    BY <1>1, <2>1
  <2>2. CASE request'[m].all = {s.token : s \in Of(request'[m].id)}
    BY <1>1, <2>2 DEF Of
  <2> QED  BY <1>4, <2>1, <2>2, DeletionSteps DEF Tokens
<1> QED BY <1>2, <1>3, <1>4

LEMMA OneIDStep ==
  ASSUME TypeOK, Tokens, [Next]_vars
  PROVE  OneID'
<1>1. ASSUME NEW n \in Numbers, Store(n), NEW s \in sessions PROVE s.token # n
  BY <1>1 DEF Store, Tokens, TokensNew, Unstored, Early
<1>2. ASSUME NEW n \in Numbers, Store(n), NEW m \in Numbers, Store(m) PROVE m = n
  <2>1. /\ Only(n) /\ request'[n].step # "store"
    BY <1>2, StoreDoes DEF Over, Keeps, Goes, Free
  <2>2. Only(m) /\ request'[m].step # "store" /\ request[m].step = "store"
    BY <1>2, StoreDoes DEF Over, Keeps, Goes, Free, Store
  <2> QED  BY <2>1, <2>2 DEF Only
<1>3. ASSUME NEW s \in sessions', NEW t \in sessions', s.token = t.token PROVE s = t
  <2>1. CASE s \in sessions /\ t \in sessions
    BY <1>3, <2>1 DEF Tokens, OneID
  <2>2. CASE s \in sessions /\ t \notin sessions
    BY <1>1, <1>3, <2>2, SessionSteps
  <2>3. CASE s \notin sessions /\ t \in sessions
    BY <1>1, <1>3, <2>3, SessionSteps
  <2>4. CASE s \notin sessions /\ t \notin sessions
    BY <1>2, <2>4, SessionSteps
  <2> QED  BY <2>1, <2>2, <2>3, <2>4
<1> QED BY <1>3 DEF OneID

LEMMA DeletingStep ==
  ASSUME TypeOK, Tokens, [Next]_vars
  PROVE  Deleting'
<1> SUFFICES ASSUME NEW m \in Numbers, request'[m].step = "scan",
                    NEW s \in sessions', s.token \in request'[m].all
             PROVE  s \in request'[m].left \cup request'[m].todo /\ s.id = request'[m].id
  BY DEF Deleting
<1>1. CASE request'[m].all = {r.token : r \in Of(request'[m].id)} /\
           request'[m].left = sessions /\ sessions' = sessions
  <2>1. PICK r \in Of(request'[m].id) : r.token = s.token
    BY <1>1
  <2>2. r = s
    BY <1>1, <2>1 DEF Of, Tokens, OneID
  <2> QED  BY <1>1, <2>1, <2>2 DEF Of
<1>2. CASE /\ request[m].step = "scan"
           /\ request'[m].all = request[m].all /\ request'[m].id = request[m].id
           /\ \/ request'[m].left = request[m].left /\ request'[m].todo = request[m].todo
              \/ Scan(m)
              \/ Remove(m)
  <2>1. s \in sessions
    <3>1. ASSUME NEW n \in Numbers, Store(n) PROVE n \notin request[m].all
      BY <1>2, <3>1 DEF Store, Tokens, TokensNew, Unstored, Early
    <3> QED  BY <1>2, <3>1, SessionSteps
  <2>2. s \in request[m].left \cup request[m].todo /\ s.id = request[m].id
    BY <1>2, <2>1 DEF Tokens, Deleting
  <2>3. CASE request'[m].left = request[m].left /\ request'[m].todo = request[m].todo
    BY <1>2, <2>2, <2>3
  <2>4. CASE Scan(m)
    <3>1. request[m].todo = {}
      BY <2>4 DEF Scan
    <3>2. request'[m].left = (request[m].left \cap sessions) \ request'[m].todo
      BY <2>4, ScanDoes DEF Free
    <3> QED  BY <1>2, <2>1, <2>2, <3>1, <3>2
  <2>5. CASE Remove(m)
    <3>1. PICK r \in request[m].todo :
            /\ r.id = request[m].id => sessions' = sessions \ {r}
            /\ request'[m].todo = request[m].todo \ {r} /\ request'[m].left = request[m].left
      BY <2>5, RemoveDoes DEF Free
    <3>2. s # r
      BY <2>2, <3>1
    <3> QED  BY <1>2, <2>2, <3>1, <3>2
  <2> QED  BY <1>2, <2>3, <2>4, <2>5
<1> QED BY <1>1, <1>2, DeletionSteps DEF Tokens

LEMMA DeletedIsGoneStep ==
  ASSUME TypeOK, Tokens, [Next]_vars
  PROVE  DeletedIsGone'
<1> SUFFICES ASSUME NEW s \in sessions', s.token \in promised' PROVE FALSE
  BY DEF DeletedIsGone
<1>1. CASE s \notin sessions
  <2>1. PICK n \in Numbers : Store(n) /\ s.token = n
    BY <1>1, SessionSteps
  <2>2. n \notin promised
    BY <2>1 DEF Store, Tokens, TokensNew, Unstored, Early
  <2>3. promised' = promised
    BY <2>1 DEF Store
  <2> QED  BY <2>1, <2>2, <2>3
<1>2. CASE s \in sessions /\ s.token \in promised
  BY <1>2 DEF Tokens, DeletedIsGone
<1>3. CASE s \in sessions /\ s.token \notin promised
  <2>1. PICK m \in Numbers : Removed(m) /\ s.token \in request[m].all
    BY <1>3, PromiseSteps
  <2>2. s \in request[m].left \cup request[m].todo
    BY <1>3, <2>1 DEF Removed, Tokens, Deleting
  <2> QED  BY <1>3, <2>1, <2>2 DEF Removed
<1> QED BY <1>1, <1>2, <1>3

LEMMA TokensInit == Init => Tokens
<1> SUFFICES ASSUME Init PROVE Tokens
  OBVIOUS
<1>1. Numbered
  BY DEF Init, Numbered
<1> QED BY <1>1 DEF Init, Tokens, OneID, TokensNew, Deleting, DeletedIsGone, Free

\* The tokens that a deletion was to delete, and said it had deleted, are in Redis no more: it
\* knows those that are left, in what SCAN has still to return and what it has still to read.
THEOREM DeletedStaysGone == Spec => []DeletedIsGone
<1>1. TypeOK /\ Tokens /\ [Next]_vars => Tokens'
  BY NumberedStep, TokensNewStep, OneIDStep, DeletingStep, DeletedIsGoneStep DEF Tokens
<1>2. Tokens => DeletedIsGone
  BY DEF Tokens
<1> QED BY TokensInit, <1>1, <1>2, SessionsTypeCorrect, PTL DEF Spec

-----------------------------------------------------------------------------
(* JWTs and revocation                                                      *)

\* A handler that has a JWT had it already, or is given it by the record there is.
LEMMA IssuingSteps ==
  ASSUME TypeOK, Numbered, [Next]_vars, NEW m \in Numbers, Issuing(request'[m])
  PROVE  \/ /\ Issuing(request[m]) /\ request'[m].jwt = request[m].jwt
            /\ request'[m].browser = request[m].browser /\ request'[m].kind = request[m].kind
            /\ request'[m].step = request[m].step \/ Store(m)
            /\ request'[m].stale = request[m].stale \/ Leaves(m)
         \/ Complete(m)
         \/ Check(m)
<1>1. CASE request'[m] = request[m]
  BY <1>1
<1>2. CASE Leaves(m)
  BY <1>2 DEF Leaves, Same, Issuing
<1>3. CASE Stopped(m)
  BY <1>3 DEF Stopped, Free, Working, Issuing
<1>4. CASE Begins(m)
  <2>1. CASE \E b \in Browsers : Refresh(b) /\ request'[m] =
             [kind |-> "refresh", step |-> "get", browser |-> b, stale |-> FALSE,
              token |-> cookie[b]]
    BY <2>1 DEF Issuing
  <2>2. ASSUME NEW b \in Browsers,
               request'[m] = [Deletion("logout", b, jwt[b].id) EXCEPT !.stale = TRUE]
        PROVE  FALSE
    BY <2>2 DEF Deletion, Issuing
  <2>3. ASSUME NEW p \in Persons, request'[m] = Deletion("revoke", Nil, WranglerID(p))
        PROVE  FALSE
    BY <2>3 DEF Deletion, Issuing
  <2> QED  BY <1>4, <2>1, <2>2, <2>3 DEF Begins
<1>5. CASE Handler(m)
  <2>1. ~Callback(m)
    BY CallbackDoes DEF Issuing
  <2>2. ~Over(m)
    BY DEF Over, Free, Issuing
  <2>3. ~(Exchange(m) \/ Verify(m) \/ Fetch(m))
    BY <2>2, ExchangeDoes, VerifyDoes, FetchDoes DEF Keeps, Goes, Issuing
  <2>4. ~(Import(m) \/ TurnAway(m))
    BY <2>2, ImportDoes, TurnAwayDoes DEF Keeps, Goes, Issuing
  <2>5. ~(Get(m) \/ Del(m))
    BY <2>2, GetDoes, DelDoes DEF Keeps, Goes, Issuing
  <2>6. ~(Scan(m) \/ Remove(m) \/ Removed(m))
    BY <2>2, ScanDoes, RemoveDoes, RemovedDoes DEF Keeps, Sweeps, Goes, Issuing, Deletes
  <2>7. ~(Arrive(m) \/ ArriveDeleted(m) \/ ArriveRefused(m) \/ AnswerLost(m))
    BY <2>2, AnswerDoes, LostDoes
  <2>8. CASE Store(m)
    BY <2>2, <2>8, StoreDoes DEF Keeps, Goes, Same
  <2> QED  BY <1>5, <2>1, <2>3, <2>4, <2>5, <2>6, <2>7, <2>8 DEF Handler
<1> QED BY <1>1, <1>2, <1>3, <1>4, <1>5, Moves

\* A page gets a JWT from the answer of a handler that had one.
LEMMA JWTSteps ==
  ASSUME TypeOK, [Next]_vars, NEW b \in Browsers
  PROVE  \/ jwt'[b] = jwt[b]
         \/ jwt'[b] = Nil
         \/ \E n \in Numbers : /\ Arrive(n) /\ Issuing(request[n]) /\ request[n].browser = b
                              /\ ~request[n].stale /\ jwt'[b] = request[n].jwt
<1>1. CASE UNCHANGED vars \/ Tick \/ Sweep \/ Rotate \/ RefreshKeys \/ Restart
  BY <1>1 DEF vars, Tick, Sweep, Rotate, RefreshKeys, Restart, client
<1>2. ASSUME NEW c \in Browsers, Authorize(c) \/ Refresh(c)
      PROVE  jwt' = jwt
  BY <1>2 DEF Authorize, Refresh, client
<1>3. ASSUME NEW c \in Browsers, Logout(c)
      PROVE  jwt'[b] \in {jwt[b], Nil}
  BY <1>3 DEF Logout, TypeOK
<1>4. ASSUME NEW p \in Persons, Revoke(p)
      PROVE  jwt' = jwt
  BY <1>4 DEF Revoke, client
<1>5. ASSUME NEW n \in Numbers, Handler(n)
      PROVE  \/ jwt'[b] = jwt[b]
             \/ jwt'[b] = Nil
             \/ /\ Arrive(n) /\ Issuing(request[n]) /\ request[n].browser = b
                /\ ~request[n].stale /\ jwt'[b] = request[n].jwt
  <2>1. CASE Callback(n) \/ AnswerLost(n) \/ ArriveDeleted(n)
    BY <2>1 DEF Callback, AnswerLost, ArriveDeleted, client
  <2>2. CASE Arrive(n)
    BY <2>2 DEF Arrive, StoreJWT, Issuing, TypeOK
  <2>3. CASE ArriveRefused(n)
    BY <2>3 DEF ArriveRefused, TypeOK
  <2>4. CASE \/ Exchange(n) \/ Verify(n) \/ Fetch(n) \/ Import(n) \/ Complete(n)
             \/ TurnAway(n) \/ Check(n)
    BY <2>4 DEF Exchange, Verify, Fetch, Import, Complete, TurnAway, Check, Others, client
  <2>5. CASE Store(n) \/ Get(n) \/ Del(n) \/ Scan(n) \/ Remove(n) \/ Removed(n)
    BY <2>5 DEF Store, Get, Del, Scan, Remove, Removed, Others, client
  <2> QED  BY <1>5, <2>1, <2>2, <2>3, <2>4, <2>5 DEF Handler
<1> QED BY <1>1, <1>2, <1>3, <1>4, <1>5 DEF Next

\* Who changes the clock, the records and the times of revocation.
LEMMA RecordSteps ==
  ASSUME TypeOK, [Next]_vars
  PROVE  /\ clock' \in {clock, clock + 1}
         /\ \/ UNCHANGED <<boot, record, revokedAt>>
            \/ Restart /\ clock' = clock
            \/ \E p \in Persons : Revoke(p) /\ UNCHANGED <<clock, boot>>
            \/ \E n \in Numbers : Complete(n) /\ UNCHANGED <<clock, boot, revokedAt>>
<1>1. CASE UNCHANGED vars \/ Tick \/ Sweep \/ Rotate \/ RefreshKeys \/ Restart
  BY <1>1 DEF vars, Tick, Sweep, Rotate, RefreshKeys, Restart, history
<1>2. ASSUME NEW c \in Browsers, Authorize(c) \/ Refresh(c) \/ Logout(c)
      PROVE  UNCHANGED <<clock, boot, record, revokedAt>>
  BY <1>2 DEF Authorize, Refresh, Logout
<1>3. ASSUME NEW p \in Persons, Revoke(p)
      PROVE  UNCHANGED <<clock, boot>>
  BY <1>3 DEF Revoke
<1>4. ASSUME NEW n \in Numbers, Handler(n), ~Complete(n)
      PROVE  UNCHANGED <<clock, boot, record, revokedAt>>
  <2>1. CASE Callback(n) \/ Arrive(n) \/ ArriveDeleted(n) \/ ArriveRefused(n) \/ AnswerLost(n)
    BY <2>1 DEF Callback, Arrive, ArriveDeleted, ArriveRefused, AnswerLost, history
  <2>2. CASE Exchange(n) \/ Verify(n) \/ Fetch(n) \/ Import(n) \/ TurnAway(n) \/ Check(n)
    BY <2>2 DEF Exchange, Verify, Fetch, Import, TurnAway, Check, Others, history
  <2>3. CASE Store(n) \/ Get(n) \/ Del(n) \/ Scan(n) \/ Remove(n) \/ Removed(n)
    BY <2>3 DEF Store, Get, Del, Scan, Remove, Removed, Others, history
  <2> QED  BY <1>4, <2>1, <2>2, <2>3 DEF Handler
<1>5. ASSUME NEW n \in Numbers, Complete(n)
      PROVE  UNCHANGED <<clock, boot, revokedAt>>
  BY <1>5 DEF Complete, Others
<1> QED BY <1>1, <1>2, <1>3, <1>4, <1>5 DEF Next

\* A JWT lives for TTL, and no longer than that after its wrangler was revoked.
Timely(t) ==
  /\ t.exp <= clock + TTL
  /\ revokedAt[t.id] # Nil => t.exp <= revokedAt[t.id] + TTL
JWTsTimely ==
  /\ \A b \in Browsers : jwt[b] # Nil => Timely(jwt[b])
  /\ \A n \in Numbers : Issuing(request[n]) => Timely(request[n].jwt)

\* A wrangler that was revoked is in the records as such, until a restart makes new IDs.
Marked ==
  \A i \in IDs : revokedAt[i] # Nil =>
    revokedAt[i] <= clock /\ i[2] <= boot /\ (i[2] = boot => record[i[1]] = "revoked")

LEMMA MarkedStep ==
  ASSUME TypeOK, Marked, [Next]_vars
  PROVE  Marked'
<1> SUFFICES ASSUME NEW i \in IDs, revokedAt'[i] # Nil
             PROVE  /\ revokedAt'[i] <= clock' /\ i[2] <= boot'
                    /\ i[2] = boot' => record'[i[1]] = "revoked"
  BY DEF Marked
<1>0. /\ clock \in Nat /\ boot \in Nat /\ i[1] \in Persons /\ i[2] \in Nat /\ i = <<i[1], i[2]>>
      /\ revokedAt[i] \in Nat \cup {Nil}
  BY ClearanceAssumption DEF TypeOK, IDs
<1>1. CASE UNCHANGED <<boot, record, revokedAt>>
  BY <1>0, <1>1, RecordSteps DEF Marked
<1>2. CASE Restart
  <2>1. boot' = boot + 1 /\ clock' = clock /\ revokedAt' = revokedAt
    BY <1>2 DEF Restart
  <2> QED  BY <1>0, <2>1 DEF Marked
<1>3. ASSUME NEW p \in Persons, Revoke(p), UNCHANGED <<clock, boot>>
      PROVE  /\ revokedAt'[i] <= clock' /\ i[2] <= boot'
             /\ i[2] = boot' => record'[i[1]] = "revoked"
  <2>1. record'[p] = "revoked" /\ \A q \in Persons : q # p => record'[q] = record[q]
    BY <1>3 DEF Revoke, TypeOK
  <2>2. CASE i = WranglerID(p)
    <3>1. i[1] = p /\ i[2] = boot
      BY <2>2 DEF WranglerID
    <3>2. revokedAt'[i] = IF revokedAt[i] = Nil THEN clock ELSE revokedAt[i]
      BY <1>3, <2>2 DEF Revoke, TypeOK
    <3>3. revokedAt'[i] <= clock
      BY <1>0, <3>2 DEF Marked
    <3> QED  BY <1>0, <1>3, <2>1, <3>1, <3>3
  <2>3. CASE i # WranglerID(p)
    <3>1. revokedAt'[i] = revokedAt[i]
      BY <1>3, <2>3 DEF Revoke, TypeOK
    <3>2. revokedAt[i] <= clock /\ i[2] <= boot /\ (i[2] = boot => record[i[1]] = "revoked")
      BY <3>1 DEF Marked
    <3>3. i[2] = boot => i[1] # p
      BY <1>0, <2>3 DEF WranglerID
    <3> QED  BY <1>0, <1>3, <2>1, <3>1, <3>2, <3>3
  <2> QED  BY <2>2, <2>3
<1>4. ASSUME NEW n \in Numbers, Complete(n), UNCHANGED <<clock, boot, revokedAt>>
      PROVE  /\ revokedAt'[i] <= clock' /\ i[2] <= boot'
             /\ i[2] = boot' => record'[i[1]] = "revoked"
  <2> DEFINE p == Who[request[n].browser]
  <2>1. record[p] # "revoked" /\ \A q \in Persons : q # p => record'[q] = record[q]
    BY <1>4 DEF Complete, TypeOK
  <2> HIDE DEF p
  <2>2. revokedAt[i] <= clock /\ i[2] <= boot /\ (i[2] = boot => record[i[1]] = "revoked")
    BY <1>4 DEF Marked
  <2> QED  BY <1>0, <1>4, <2>1, <2>2
<1> QED BY <1>1, <1>2, <1>3, <1>4, RecordSteps

\* The same after a step.
TimelyNext(t) ==
  /\ t.exp <= clock' + TTL
  /\ revokedAt'[t.id] # Nil => t.exp <= revokedAt'[t.id] + TTL

LEMMA TimelyStays ==
  ASSUME TypeOK, [Next]_vars, NEW t \in JWT, Timely(t)
  PROVE  TimelyNext(t)
<1>0. /\ clock \in Nat /\ TTL \in Nat /\ t.exp \in Nat /\ t.id \in IDs
      /\ revokedAt[t.id] \in Nat \cup {Nil}
  BY ClearanceAssumption DEF TypeOK, JWT
<1>1. clock' \in {clock, clock + 1}
  BY RecordSteps
<1>2. revokedAt'[t.id] = revokedAt[t.id] \/ (revokedAt[t.id] = Nil /\ revokedAt'[t.id] = clock)
  <2>1. CASE revokedAt' = revokedAt
    BY <2>1
  <2>2. ASSUME NEW p \in Persons, Revoke(p)
        PROVE  \/ revokedAt'[t.id] = revokedAt[t.id]
               \/ revokedAt[t.id] = Nil /\ revokedAt'[t.id] = clock
    BY <1>0, <2>2 DEF Revoke, TypeOK
  <2> QED  BY <2>1, <2>2, RecordSteps DEF Restart
<1> QED BY <1>0, <1>1, <1>2 DEF Timely, TimelyNext

LEMMA JWTsTimelyStep ==
  ASSUME TypeOK, Numbered, Marked, JWTsTimely, [Next]_vars
  PROVE  JWTsTimely'
<1>1. ASSUME NEW b \in Browsers, jwt'[b] # Nil
      PROVE  TimelyNext(jwt'[b])
  <2>1. CASE jwt'[b] = jwt[b]
    BY <1>1, <2>1, TimelyStays DEF JWTsTimely, TypeOK
  <2>2. ASSUME NEW n \in Numbers, Issuing(request[n]), jwt'[b] = request[n].jwt
        PROVE  TimelyNext(jwt'[b])
    <3>1. request[n].jwt \in JWT
      BY <2>2, Fields DEF TypeOK
    <3> QED  BY <2>2, <3>1, TimelyStays DEF JWTsTimely
  <2> QED  BY <1>1, <2>1, <2>2, JWTSteps
<1>2. ASSUME NEW n \in Numbers, Issuing(request'[n])
      PROVE  TimelyNext(request'[n].jwt)
  <2>1. CASE Issuing(request[n]) /\ request'[n].jwt = request[n].jwt
    <3>1. request[n].jwt \in JWT
      BY <2>1, Fields DEF TypeOK
    <3> QED  BY <2>1, <3>1, TimelyStays DEF JWTsTimely
  <2>2. ASSUME NEW i \in IDs, request'[n].jwt = Issued(i), revokedAt[i] = Nil
        PROVE  TimelyNext(request'[n].jwt)
    <3>1. Issued(i) \in JWT /\ Issued(i).id = i /\ Issued(i).exp = clock + TTL
      BY IssuedTyped DEF Issued
    <3>2. Timely(Issued(i))
      BY <2>2, <3>1, ClearanceAssumption DEF Timely, TypeOK
    <3> QED  BY <2>2, <3>1, <3>2, TimelyStays
  <2>3. CASE Complete(n)
    <3> DEFINE p == Who[request[n].browser]
    <3>1. request'[n].jwt = Issued(WranglerID(p)) /\ p \in Persons /\ record[p] # "revoked"
      BY <2>3, CompleteDoes, ClearanceAssumption DEF Complete
    <3> HIDE DEF p
    <3>2. WranglerID(p) \in IDs /\ WranglerID(p)[1] = p /\ WranglerID(p)[2] = boot
      BY <3>1, IDsTyped DEF WranglerID
    <3>3. revokedAt[WranglerID(p)] = Nil
      BY <3>1, <3>2 DEF Marked
    <3> QED  BY <2>2, <3>1, <3>2, <3>3
  <2>4. CASE Check(n)
    <3> DEFINE i == request[n].id
    <3>1. i \in IDs
      BY <2>4, Fields DEF Check, At, TypeOK
    <3>2. request'[n].jwt = Issued(i) /\ i = WranglerID(i[1]) /\ record[i[1]] = "active"
      BY <1>2, <2>4, CheckDoes DEF Over, Free, Issuing
    <3> HIDE DEF i
    <3>3. i[2] = boot
      BY <3>2 DEF WranglerID
    <3>4. revokedAt[i] = Nil
      BY <3>1, <3>2, <3>3 DEF Marked
    <3> QED  BY <2>2, <3>1, <3>2, <3>4
  <2> QED  BY <1>2, <2>1, <2>3, <2>4, IssuingSteps
<1> QED BY <1>1, <1>2 DEF JWTsTimely, Timely, TimelyNext

\* A wrangler who was revoked is let in no longer than a JWT lives: a login or refresh that was
\* given its JWT before has that long too, and none is given one later, since the handler looks
\* at the record and makes the JWT in one step.
THEOREM RevokedStaysOut == Spec => []RevokedIsOut
<1>1. Init => Numbered /\ Marked /\ JWTsTimely
  BY TokensInit DEF Tokens, Init, Marked, JWTsTimely, Issuing, Free
<1>2. TypeOK /\ Numbered /\ Marked /\ JWTsTimely /\ [Next]_vars
        => (Numbered /\ Marked /\ JWTsTimely)'
  BY NumberedStep, MarkedStep, JWTsTimelyStep
<1>3. TypeOK /\ JWTsTimely => RevokedIsOut
  <2> SUFFICES ASSUME TypeOK, JWTsTimely, NEW b \in Browsers, LetIn(b), revokedAt[jwt[b].id] # Nil
               PROVE  clock <= revokedAt[jwt[b].id] + TTL
    BY DEF RevokedIsOut
  <2>1. jwt[b] # Nil /\ clock <= jwt[b].exp /\ Timely(jwt[b])
    BY DEF LetIn, Accepted, JWTsTimely
  <2>2. jwt[b] \in JWT
    BY <2>1 DEF TypeOK
  <2>3. clock \in Nat /\ jwt[b].exp \in Nat /\ revokedAt[jwt[b].id] \in Nat /\ TTL \in Nat
    BY <2>2, ClearanceAssumption DEF TypeOK, JWT
  <2> QED  BY <2>1, <2>3 DEF Timely
<1> QED BY <1>1, <1>2, <1>3, SessionsTypeCorrect, PTL DEF Spec

-----------------------------------------------------------------------------
(* The codes of logins                                                      *)

\* The code of login n is still to be exchanged.
Unexchanged(n) ==
  \/ n > sent
  \/ \E e \in pending : e.number = n
  \/ At(n, "login", "exchange")

Codes == \A n \in Numbers : exchanged[n] <= 1 /\ (Unexchanged(n) => exchanged[n] = 0)

LEMMA ExchangedSteps ==
  ASSUME TypeOK, [Next]_vars, NEW m \in Numbers, ~Exchange(m)
  PROVE  exchanged'[m] = exchanged[m]
<1>1. CASE UNCHANGED vars \/ Tick \/ Sweep \/ Rotate \/ RefreshKeys \/ Restart
  BY <1>1 DEF vars, history, Tick, Sweep, Rotate, RefreshKeys, Restart
<1>2. ASSUME NEW b \in Browsers, Authorize(b) \/ Refresh(b) \/ Logout(b)
      PROVE  exchanged' = exchanged
  BY <1>2 DEF Authorize, Refresh, Logout, history
<1>3. ASSUME NEW p \in Persons, Revoke(p)
      PROVE  exchanged' = exchanged
  BY <1>3 DEF Revoke, history
<1>4. ASSUME NEW n \in Numbers, Handler(n), ~Exchange(n)
      PROVE  exchanged' = exchanged
  <2>1. CASE Callback(n) \/ Arrive(n) \/ ArriveDeleted(n) \/ ArriveRefused(n) \/ AnswerLost(n)
    BY <2>1 DEF Callback, Arrive, ArriveDeleted, ArriveRefused, AnswerLost, history
  <2>2. CASE Verify(n) \/ Fetch(n) \/ Import(n) \/ Complete(n) \/ TurnAway(n) \/ Check(n)
    BY <2>2 DEF Verify, Fetch, Import, Complete, TurnAway, Check, history
  <2>3. CASE Store(n) \/ Get(n) \/ Del(n) \/ Scan(n) \/ Remove(n) \/ Removed(n)
    BY <2>3 DEF Store, Get, Del, Scan, Remove, Removed, history
  <2> QED  BY <1>4, <2>1, <2>2, <2>3 DEF Handler
<1>5. ASSUME NEW n \in Numbers, Exchange(n)
      PROVE  exchanged'[m] = exchanged[m]
  BY <1>5 DEF Exchange, TypeOK
<1> QED BY <1>1, <1>2, <1>3, <1>4, <1>5 DEF Next

\* A login is given its code once, and is past its exchange then.
LEMMA UnexchangedStep ==
  ASSUME TypeOK, Numbered, [Next]_vars, NEW n \in Numbers, Unexchanged(n)'
  PROVE  Unexchanged(n) /\ ~Exchange(n)
<1>0. sent \in Nat /\ n \in Nat
  BY DEF TypeOK, Numbers
<1>1. ASSUME Exchange(n) PROVE FALSE
  <2>1. /\ Handler(n) /\ ~Callback(n) /\ request[n] # Free
    BY <1>1 DEF Handler, Exchange, Callback, Numbered, At, Free
  <2>2. sent' = sent /\ pending' = pending
    BY <2>1, HandlerMoves
  <2>3. ~(n > sent) /\ \A e \in pending : e.number # n
    BY <2>1 DEF Numbered
  <2>4. ~At(n, "login", "exchange")'
    BY <1>1, ExchangeDoes DEF At, Over, Goes, Free
  <2> QED  BY <2>2, <2>3, <2>4 DEF Unexchanged
<1>2. ASSUME n > sent' PROVE Unexchanged(n)
  BY <1>0, <1>2, SentGrows DEF Unexchanged
<1>3. ASSUME NEW e \in pending', e.number = n PROVE Unexchanged(n)
  BY <1>0, <1>3, SentGrows DEF Unexchanged
<1>4. ASSUME At(n, "login", "exchange")' PROVE Unexchanged(n)
  <2>1. CASE request'[n] = request[n] \/ Leaves(n) \/ Stopped(n)
    BY <1>4, <2>1 DEF Leaves, Stopped, Same, At, Free, Unexchanged
  <2>2. ~Begins(n)
    <3>1. ASSUME NEW b \in Browsers,
                 request'[n] = [Deletion("logout", b, jwt[b].id) EXCEPT !.stale = TRUE]
          PROVE  FALSE
      BY <1>4, <3>1 DEF Deletion, At
    <3>2. ASSUME NEW p \in Persons, request'[n] = Deletion("revoke", Nil, WranglerID(p))
          PROVE  FALSE
      BY <1>4, <3>2 DEF Deletion, At
    <3>3. ASSUME NEW b \in Browsers, request'[n] =
                 [kind |-> "refresh", step |-> "get", browser |-> b, stale |-> FALSE,
                  token |-> cookie[b]]
          PROVE  FALSE
      BY <1>4, <3>3 DEF At
    <3> QED  BY <3>1, <3>2, <3>3 DEF Begins
  <2>3. CASE Callback(n)
    BY <2>3 DEF Callback, Unexchanged
  <2>4. CASE Handler(n) /\ ~Callback(n)
    <3>1. ~Over(n)
      BY <1>4 DEF Over, At, Free
    <3>2. ~(\/ Verify(n) \/ Fetch(n) \/ Import(n) \/ Complete(n) \/ TurnAway(n) \/ Store(n))
      BY <1>4, <3>1, VerifyDoes, FetchDoes, ImportDoes, CompleteDoes, TurnAwayDoes, StoreDoes
      DEF Keeps, Goes, At
    <3>3. ~(Get(n) \/ Del(n) \/ Check(n) \/ Scan(n) \/ Remove(n) \/ Removed(n))
      BY <1>4, <3>1, GetDoes, DelDoes, CheckDoes, ScanDoes, RemoveDoes, RemovedDoes
      DEF Keeps, Sweeps, Goes, At
    <3>4. ~(Arrive(n) \/ ArriveDeleted(n) \/ ArriveRefused(n) \/ AnswerLost(n))
      BY <3>1, AnswerDoes, LostDoes
    <3> QED  BY <1>1, <2>4, <3>2, <3>3, <3>4 DEF Handler
  <2> QED  BY <2>1, <2>2, <2>3, <2>4, Moves
<1> QED BY <1>1, <1>2, <1>3, <1>4 DEF Unexchanged

LEMMA CodesStep ==
  ASSUME TypeOK, Numbered, Codes, [Next]_vars
  PROVE  Codes'
<1> SUFFICES ASSUME NEW n \in Numbers
             PROVE  exchanged'[n] <= 1 /\ (Unexchanged(n)' => exchanged'[n] = 0)
  BY DEF Codes
<1>1. CASE Exchange(n)
  <2>1. Unexchanged(n)
    BY <1>1 DEF Exchange, Unexchanged
  <2>2. exchanged'[n] = exchanged[n] + 1 /\ exchanged[n] = 0
    BY <1>1, <2>1 DEF Exchange, Codes, TypeOK
  <2> QED  BY <1>1, <2>2, UnexchangedStep
<1>2. CASE ~Exchange(n)
  BY <1>2, ExchangedSteps, UnexchangedStep DEF Codes
<1> QED BY <1>1, <1>2

\* A login's code is exchanged once at most: the callback takes the login out of pendingStates
\* before its first await, so that a repeated callback finds none (/auth/oidc/callback).
THEOREM CodesAreExchangedOnce == Spec => []CodeIsExchangedOnce
<1>1. Init => Numbered /\ Codes
  BY TokensInit DEF Tokens, Init, Codes
<1>2. TypeOK /\ Numbered /\ Codes /\ [Next]_vars => (Numbered /\ Codes)'
  BY NumberedStep, CodesStep
<1>3. Codes => CodeIsExchangedOnce
  BY DEF Codes, CodeIsExchangedOnce
<1> QED BY <1>1, <1>2, <1>3, SessionsTypeCorrect, PTL DEF Spec

-----------------------------------------------------------------------------
(* The provider's keys                                                      *)

\* Who changes the keys there are, and those that are cached.
LEMMA KeySteps ==
  ASSUME TypeOK, [Next]_vars
  PROVE  \/ UNCHANGED <<keys, idp>>
         \/ Rotate
         \/ RefreshKeys
         \/ Restart
         \/ \E n \in Numbers : (Fetch(n) \/ Import(n)) /\ UNCHANGED idp
<1>1. CASE UNCHANGED vars \/ Tick \/ Sweep
  BY <1>1 DEF vars, Tick, Sweep
<1>2. ASSUME NEW c \in Browsers, Authorize(c) \/ Refresh(c) \/ Logout(c)
      PROVE  UNCHANGED <<keys, idp>>
  BY <1>2 DEF Authorize, Refresh, Logout
<1>3. ASSUME NEW p \in Persons, Revoke(p)
      PROVE  UNCHANGED <<keys, idp>>
  BY <1>3 DEF Revoke
<1>4. ASSUME NEW n \in Numbers, Handler(n)
      PROVE  UNCHANGED <<keys, idp>> \/ ((Fetch(n) \/ Import(n)) /\ UNCHANGED idp)
  <2>1. CASE Callback(n) \/ Arrive(n) \/ ArriveDeleted(n) \/ ArriveRefused(n) \/ AnswerLost(n)
    BY <2>1 DEF Callback, Arrive, ArriveDeleted, ArriveRefused, AnswerLost
  <2>2. CASE Exchange(n) \/ Verify(n) \/ Complete(n) \/ TurnAway(n) \/ Check(n)
    BY <2>2 DEF Exchange, Verify, Complete, TurnAway, Check, Others
  <2>3. CASE Store(n) \/ Get(n) \/ Del(n) \/ Scan(n) \/ Remove(n) \/ Removed(n)
    BY <2>3 DEF Store, Get, Del, Scan, Remove, Removed, Others
  <2>4. CASE Fetch(n) \/ Import(n)
    BY <2>4 DEF Fetch, Import, Others
  <2> QED  BY <1>4, <2>1, <2>2, <2>3, <2>4 DEF Handler
<1> QED BY <1>1, <1>2, <1>3, <1>4 DEF Next

\* A login that has the provider's keys before it imports them.
Imports(m, k) ==
  At(m, "login", "import") /\ k \in request[m].found /\ request[m].client = keys.client

\* A key published before the last fetch is in the cache or about to be; the key of a login's
\* token is one the provider published.
KeysHeld ==
  /\ keys.fetched <= clock
  /\ \A k \in 1 .. idp.latest : idp.since[k] < keys.fetched =>
       k \in keys.cache \/ \E m \in Numbers : Imports(m, k)
  /\ \A n \in Numbers : request[n].step \in {"verify", "fetch", "import"} =>
       request[n].key \in 1 .. idp.latest

\* A login stays before its import until it takes place.
LEMMA ImportStays ==
  ASSUME TypeOK, Numbered, [Next]_vars, NEW m \in Numbers, At(m, "login", "import"),
         ~Restart, ~Import(m)
  PROVE  /\ At(m, "login", "import")' /\ request'[m].found = request[m].found
         /\ request'[m].client = request[m].client
<1>1. ~Stopped(m) /\ ~Begins(m)
  BY DEF Stopped, Begins, Free, At
<1>2. ~Handler(m)
  <2>1. ~Callback(m)
    BY DEF Callback, Numbered, At, Free
  <2>2. ~(\/ Exchange(m) \/ Verify(m) \/ Fetch(m) \/ Complete(m) \/ TurnAway(m) \/ Store(m)
          \/ Get(m) \/ Del(m) \/ Check(m) \/ Scan(m) \/ Remove(m) \/ Removed(m))
    BY DEF Exchange, Verify, Fetch, Complete, TurnAway, Store, Get, Del, Check, Scan, Remove,
         Removed, At
  <2>3. ~(Arrive(m) \/ ArriveDeleted(m) \/ ArriveRefused(m) \/ AnswerLost(m))
    BY DEF Arrive, ArriveDeleted, ArriveRefused, AnswerLost, At
  <2> QED  BY <2>1, <2>2, <2>3 DEF Handler
<1>3. CASE request'[m] = request[m]
  BY <1>3 DEF At
<1>4. CASE Leaves(m)
  BY <1>4 DEF Leaves, Same, At
<1> QED BY <1>1, <1>2, <1>3, <1>4, Moves

\* A login that has an ID token got it from the provider, or had it already.
LEMMA KeyKept ==
  ASSUME TypeOK, Numbered, [Next]_vars, NEW m \in Numbers,
         request'[m].step \in {"verify", "fetch", "import"}
  PROVE  \/ /\ request[m].step \in {"verify", "fetch", "import"}
            /\ request'[m].key = request[m].key
         \/ Exchange(m) /\ request'[m].key = idp.latest
<1>1. CASE request'[m] = request[m]
  BY <1>1
<1>2. CASE Leaves(m)
  BY <1>2 DEF Leaves, Same
<1>3. CASE Stopped(m)
  BY <1>3 DEF Stopped, Free, Working
<1>4. CASE Begins(m)
  <2>1. ASSUME NEW b \in Browsers,
               request'[m] = [Deletion("logout", b, jwt[b].id) EXCEPT !.stale = TRUE]
        PROVE  FALSE
    BY <2>1 DEF Deletion
  <2>2. ASSUME NEW p \in Persons, request'[m] = Deletion("revoke", Nil, WranglerID(p))
        PROVE  FALSE
    BY <2>2 DEF Deletion
  <2>3. ASSUME NEW b \in Browsers, request'[m] =
               [kind |-> "refresh", step |-> "get", browser |-> b, stale |-> FALSE,
                token |-> cookie[b]]
        PROVE  FALSE
    BY <2>3
  <2> QED  BY <1>4, <2>1, <2>2, <2>3 DEF Begins
<1>5. CASE Handler(m)
  <2>1. ~Callback(m)
    BY CallbackDoes
  <2>2. ~Over(m)
    BY DEF Over, Free
  <2>3. ~(Import(m) \/ Complete(m) \/ TurnAway(m) \/ Store(m))
    BY <2>2, ImportDoes, CompleteDoes, TurnAwayDoes, StoreDoes DEF Keeps, Goes
  <2>4. ~(Get(m) \/ Del(m) \/ Check(m))
    BY <2>2, GetDoes, DelDoes, CheckDoes DEF Keeps, Goes
  <2>5. ~(Scan(m) \/ Remove(m) \/ Removed(m))
    BY <2>2, ScanDoes, RemoveDoes, RemovedDoes DEF Keeps, Sweeps, Goes
  <2>6. ~(Arrive(m) \/ ArriveDeleted(m) \/ ArriveRefused(m) \/ AnswerLost(m))
    BY <2>2, AnswerDoes, LostDoes
  <2>7. CASE Exchange(m)
    BY <2>2, <2>7, ExchangeDoes
  <2>8. CASE Verify(m)
    BY <2>2, <2>8, VerifyDoes DEF Keeps, Goes, Verify, At
  <2>9. CASE Fetch(m)
    BY <2>2, <2>9, FetchDoes DEF Fetch, At
  <2> QED  BY <1>5, <2>1, <2>3, <2>4, <2>5, <2>6, <2>7, <2>8, <2>9 DEF Handler
<1> QED BY <1>1, <1>2, <1>3, <1>4, <1>5, Moves

LEMMA KeysHeldStep ==
  ASSUME TypeOK, Numbered, KeysHeld, [Next]_vars
  PROVE  KeysHeld'
<1>0. /\ clock \in Nat /\ keys.fetched \in Int /\ keys.cache \in SUBSET Key /\ MinRefresh \in Nat
      /\ idp.latest \in Nat /\ \A k \in Key : idp.since[k] \in Nat
      /\ \A k \in 1 .. idp.latest : k \in Key
  BY ClearanceAssumption DEF TypeOK, Key
<1>1. idp.latest <= idp'.latest /\ \A k \in 1 .. idp'.latest :
        \/ k \in 1 .. idp.latest /\ idp'.since[k] = idp.since[k]
        \/ Rotate /\ idp'.since[k] = clock
        \/ Restart
        \/ RefreshKeys
  <2>1. CASE Rotate
    <3>1. idp.latest + 1 \in Key
      BY <1>0, <2>1, ClearanceAssumption DEF Rotate, TypeOK, Key
    <3>2. /\ idp'.latest = idp.latest + 1 /\ idp'.since[idp.latest + 1] = clock
          /\ \A k \in Key : k # idp.latest + 1 => idp'.since[k] = idp.since[k]
      BY <2>1, <3>1 DEF Rotate, TypeOK
    <3>3. \A k \in 1 .. idp'.latest : k = idp.latest + 1 \/ k \in 1 .. idp.latest
      BY <1>0, <3>2
    <3> QED  BY <1>0, <2>1, <3>2, <3>3
  <2>2. CASE idp' = idp
    BY <1>0, <2>2
  <2> QED  BY <2>1, <2>2, KeySteps DEF Restart, RefreshKeys
<1>2. CASE Restart \/ RefreshKeys
  <2>1. keys'.fetched = -MinRefresh /\ clock' = clock /\ idp' = idp
    BY <1>2 DEF Restart, RefreshKeys, NoKeys
  <2>2. \A k \in 1 .. idp'.latest : ~(idp'.since[k] < keys'.fetched)
    BY <1>0, <2>1
  <2>3. \A n \in Numbers : request'[n].step \in {"verify", "fetch", "import"} =>
          request'[n].key \in 1 .. idp'.latest
    BY <1>2, <2>1, RestartDoes DEF RefreshKeys, KeysHeld, Free, Working
  <2> QED  BY <1>0, <2>1, <2>2, <2>3 DEF KeysHeld
<1>3. CASE ~Restart /\ ~RefreshKeys
  <2>1. clock' \in {clock, clock + 1}
    BY RecordSteps
  <2>2. keys'.fetched <= clock'
    <3>1. keys'.fetched \in {keys.fetched, clock}
      <4>1. ASSUME NEW n \in Numbers, Fetch(n) PROVE keys'.fetched \in {keys.fetched, clock}
        BY <4>1, FetchDoes DEF TypeOK
      <4>2. ASSUME NEW n \in Numbers, Import(n) PROVE keys'.fetched = keys.fetched
        BY <4>2 DEF Import, TypeOK
      <4> QED  BY <1>3, <4>1, <4>2, KeySteps DEF Rotate
    <3> QED  BY <1>0, <2>1, <3>1 DEF KeysHeld
  <2>3. ASSUME NEW k \in 1 .. idp'.latest, idp'.since[k] < keys'.fetched
        PROVE  k \in keys'.cache \/ \E m \in Numbers : Imports(m, k)'
    <3>1. CASE Rotate
      <4>1. keys' = keys /\ UNCHANGED request
        BY <3>1 DEF Rotate
      <4>2. k \in 1 .. idp.latest /\ idp.since[k] < keys.fetched
        BY <1>0, <1>1, <1>3, <2>3, <3>1, <4>1 DEF KeysHeld, Rotate, RefreshKeys
      <4> QED  BY <4>1, <4>2 DEF KeysHeld, Imports, At
    <3>2. CASE UNCHANGED <<keys, idp>> /\ \A n \in Numbers : ~Import(n)
      <4>1. k \in keys.cache \/ \E m \in Numbers : Imports(m, k)
        BY <2>3, <3>2 DEF KeysHeld
      <4> QED  BY <1>3, <3>2, <4>1, ImportStays DEF Imports
    <3>3. ASSUME NEW n \in Numbers, Fetch(n)
          PROVE  k \in keys'.cache \/ \E m \in Numbers : Imports(m, k)'
      <4>0. idp' = idp /\ k \in 1 .. idp.latest
        BY <3>3 DEF Fetch, Others
      <4>1. \A m \in Numbers : ~Import(m)
        BY <3>3, HandlerMoves, ImportDoes, FetchDoes DEF Fetch, Import, At, Over, Keeps, Goes, Only, Free
      <4>2. CASE keys' = keys
        BY <1>3, <2>3, <4>0, <4>1, <4>2, ImportStays DEF Imports, KeysHeld
      <4>3. CASE keys' # keys
        <5>1. /\ Goes(n, "import") /\ request'[n].client = request[n].client
              /\ request'[n].found = 1 .. idp.latest /\ request[n].client = keys.client
              /\ keys' = [keys EXCEPT !.fetched = clock]
          BY <3>3, <4>3, FetchDoes
        <5>2. keys'.client = keys.client
          BY <5>1 DEF TypeOK
        <5>3. At(n, "login", "import")'
          BY <3>3, <5>1 DEF Goes, Fetch, At
        <5> QED  BY <4>0, <5>1, <5>2, <5>3 DEF Imports
      <4> QED  BY <4>2, <4>3
    <3>4. ASSUME NEW n \in Numbers, Import(n)
          PROVE  k \in keys'.cache \/ \E m \in Numbers : Imports(m, k)'
      <4>1. idp' = idp /\ keys'.fetched = keys.fetched /\ keys'.client = keys.client
            /\ keys.cache \subseteq keys'.cache
            /\ (request[n].client = keys.client => request[n].found \subseteq keys'.cache)
        BY <3>4 DEF Import, Others, TypeOK
      <4>2. CASE k \in keys.cache \/ Imports(n, k)
        BY <4>1, <4>2 DEF Imports
      <4>3. ASSUME NEW m \in Numbers, m # n, Imports(m, k) PROVE Imports(m, k)'
        <5>1. request'[m] = request[m]
          BY <3>4, <4>3, ImportDoes DEF Over, Keeps, Goes, Only
        <5> QED  BY <4>1, <4>3, <5>1 DEF Imports, At
      <4> QED  BY <2>3, <4>1, <4>2, <4>3 DEF KeysHeld
    <3> QED  BY <1>3, <3>1, <3>2, <3>3, <3>4, KeySteps
  <2>4. ASSUME NEW n \in Numbers, request'[n].step \in {"verify", "fetch", "import"}
        PROVE  request'[n].key \in 1 .. idp'.latest
    <3>1. request'[n].key \in 1 .. idp.latest
      <4>1. idp.latest \in 1 .. idp.latest
        BY ClearanceAssumption DEF TypeOK, Key
      <4> QED  BY <2>4, <4>1, KeyKept DEF KeysHeld
    <3>2. idp'.latest \in Nat
      BY <1>0, <1>3, KeySteps DEF Rotate, Fetch, Import
    <3> QED  BY <1>0, <1>1, <3>1, <3>2
  <2> QED  BY <2>2, <2>3, <2>4 DEF KeysHeld
<1> QED BY <1>2, <1>3

\* A login is told that its key is unknown only within the rate limit of the key's publication,
\* or while another login is between its fetch and its import.
THEOREM PublishedKeysAreKnown == Spec => PublishedKeyIsKnown
<1>1. Init => Numbered /\ KeysHeld
  <2> SUFFICES ASSUME Init PROVE Numbered /\ KeysHeld
    OBVIOUS
  <2>1. keys.fetched = -MinRefresh /\ clock = 0 /\ \A k \in 1 .. idp.latest : idp.since[k] = 0
    BY ClearanceAssumption DEF Init, NoKeys
  <2> QED  BY <2>1, TokensInit, ClearanceAssumption DEF Tokens, Init, KeysHeld, Free
<1>2. TypeOK /\ Numbered /\ KeysHeld /\ [Next]_vars => (Numbered /\ KeysHeld)'
  BY NumberedStep, KeysHeldStep
<1>3. ASSUME TypeOK, Numbered, KeysHeld, [Next]_vars, NEW n \in Numbers,
             At(n, "login", "verify"), request'[n] = Free, boot' = boot
      PROVE  \/ clock < idp.since[request[n].key] + MinRefresh
             \/ \E m \in Numbers \ {n} : At(m, "login", "import")
  <2>1. ~Restart
    BY <1>3 DEF Restart, TypeOK
  <2>2. ~Begins(n) /\ ~Leaves(n) /\ ~Stopped(n) /\ request'[n] # request[n]
    BY <1>3, <2>1 DEF Begins, Leaves, Stopped, Same, At, Free
  <2>3. Verify(n)
    <3>1. ~Callback(n)
      BY <1>3, CallbackDoes DEF Free
    <3>2. ~(\/ Exchange(n) \/ Fetch(n) \/ Import(n) \/ Complete(n) \/ TurnAway(n) \/ Store(n)
            \/ Get(n) \/ Del(n) \/ Check(n) \/ Scan(n) \/ Remove(n) \/ Removed(n))
      BY <1>3 DEF Exchange, Fetch, Import, Complete, TurnAway, Store, Get, Del, Check, Scan,
           Remove, Removed, At
    <3>3. ~(Arrive(n) \/ ArriveDeleted(n) \/ ArriveRefused(n) \/ AnswerLost(n))
      BY <1>3 DEF Arrive, ArriveDeleted, ArriveRefused, AnswerLost, At
    <3> QED  BY <1>3, <2>2, <3>1, <3>2, <3>3, Moves DEF Handler
  <2>4. request[n].key \notin keys.cache /\ clock - keys.fetched < MinRefresh
    BY <1>3, <2>3, VerifyDoes DEF Keeps, Goes, Free
  <2> DEFINE k == request[n].key
  <2>5. k \in 1 .. idp.latest
    BY <1>3 DEF KeysHeld, At
  <2>6. clock \in Nat /\ keys.fetched \in Int /\ MinRefresh \in Nat /\ idp.since[k] \in Nat
    <3> HIDE DEF k
    <3>1. k \in Key
      BY <1>3, <2>5, ClearanceAssumption DEF TypeOK, Key
    <3> QED  BY <1>3, <3>1, ClearanceAssumption DEF TypeOK
  <2>7. CASE idp.since[k] < keys.fetched
    <3>1. PICK m \in Numbers : Imports(m, k)
      BY <1>3, <2>4, <2>5, <2>7 DEF KeysHeld
    <3>2. m # n
      BY <1>3, <3>1 DEF Imports, At
    <3> QED  BY <3>1, <3>2 DEF Imports
  <2>8. CASE ~(idp.since[k] < keys.fetched)
    <3> HIDE DEF k
    <3>1. clock < idp.since[k] + MinRefresh
      BY <2>4, <2>6, <2>8
    <3> QED  BY <3>1 DEF k
  <2> QED  BY <2>7, <2>8
<1>4. TypeOK /\ Numbered /\ KeysHeld /\ [Next]_vars =>
        [\A n \in Numbers :
          (At(n, "login", "verify") /\ request'[n] = Free /\ boot' = boot) =>
            \/ clock < idp.since[request[n].key] + MinRefresh
            \/ \E m \in Numbers \ {n} : At(m, "login", "import")]_vars
  BY <1>3
<1> QED BY <1>1, <1>2, <1>4, SessionsTypeCorrect, PTL DEF Spec, PublishedKeyIsKnown

-----------------------------------------------------------------------------
(* Cookies: whose they are, and what the refreshes under way know           *)

\* A handler is one and the same request to its end.
LEMMA HandlerKeeps ==
  ASSUME TypeOK, NEW n \in Numbers, Handler(n), ~Callback(n)
  PROVE  \/ request'[n] = Free
         \/ /\ request'[n].kind = request[n].kind /\ request'[n].browser = request[n].browser
            /\ request'[n].stale = request[n].stale
<1>1. CASE Exchange(n) \/ Verify(n) \/ Fetch(n)
  BY <1>1, ExchangeDoes, VerifyDoes, FetchDoes DEF Over, Keeps, Goes
<1>2. CASE Import(n) \/ Complete(n) \/ TurnAway(n)
  BY <1>2, ImportDoes, CompleteDoes, TurnAwayDoes DEF Over, Keeps, Goes
<1>3. CASE Store(n) \/ Get(n) \/ Del(n) \/ Check(n)
  BY <1>3, StoreDoes, GetDoes, DelDoes, CheckDoes DEF Over, Keeps, Goes
<1>4. CASE Scan(n) \/ Remove(n) \/ Removed(n)
  BY <1>4, ScanDoes, RemoveDoes, RemovedDoes DEF Over, Keeps, Sweeps, Goes
<1>5. CASE Arrive(n) \/ ArriveDeleted(n) \/ ArriveRefused(n) \/ AnswerLost(n)
  BY <1>5, AnswerDoes, LostDoes DEF Over
<1> QED BY <1>1, <1>2, <1>3, <1>4, <1>5 DEF Handler

\* Where a request comes from.
LEMMA Persists ==
  ASSUME TypeOK, Numbered, [Next]_vars, NEW m \in Numbers, request'[m] # Free
  PROVE  \/ /\ request[m] # Free
            /\ request'[m].kind = request[m].kind /\ request'[m].browser = request[m].browser
            /\ request'[m].stale = request[m].stale \/ Leaves(m)
         \/ /\ Callback(m) /\ request'[m].kind = "login" /\ request'[m].step = "exchange"
            /\ request'[m].browser \in Browsers /\ ~request'[m].stale
         \/ Begins(m)
<1>1. CASE request'[m] = request[m]
  BY <1>1
<1>2. CASE Leaves(m)
  <2>1. request[m] # Free
    BY <1>2, ClearanceAssumption DEF Leaves, Free
  <2>2. request'[m].kind = request[m].kind /\ request'[m].browser = request[m].browser
    BY <1>2 DEF Leaves, Same
  <2> QED  BY <1>2, <2>1, <2>2
<1>3. CASE Stopped(m)
  BY <1>3 DEF Stopped, Free
<1>4. CASE Handler(m) /\ ~Callback(m)
  <2>1. request[m] # Free
    BY <1>4, HandlerMoves DEF Free
  <2> QED  BY <1>4, <2>1, HandlerKeeps
<1>5. CASE Callback(m)
  BY <1>5, CallbackDoes DEF TypeOK
<1> QED BY <1>1, <1>2, <1>3, <1>4, <1>5, Moves

\* Refreshes that have a token to spend, and those that know whose it was.
Reads(r) == r.kind = "refresh" /\ r.step \in {"get", "del"}
Knows(r) == r.kind = "refresh" /\ r.step \in {"del", "check"}

LEMMA ReadsSteps ==
  ASSUME TypeOK, Numbered, [Next]_vars, NEW m \in Numbers, Reads(request'[m])
  PROVE  \/ /\ Reads(request[m]) /\ request'[m].token = request[m].token
            /\ request'[m].browser = request[m].browser
            /\ request'[m].step = request[m].step \/ Get(m)
         \/ /\ Begins(m) /\ request'[m].step = "get" /\ request'[m].browser \in Browsers
            /\ request'[m].token = cookie[request'[m].browser] /\ Refresh(request'[m].browser)
<1>1. CASE request'[m] = request[m]
  BY <1>1
<1>2. CASE Leaves(m)
  BY <1>2 DEF Leaves, Same, Reads
<1>3. CASE Stopped(m)
  BY <1>3 DEF Stopped, Free, Working, Reads
<1>4. CASE Begins(m)
  <2>1. ASSUME NEW b \in Browsers,
               request'[m] = [Deletion("logout", b, jwt[b].id) EXCEPT !.stale = TRUE]
        PROVE  FALSE
    BY <2>1 DEF Deletion, Reads
  <2>2. ASSUME NEW p \in Persons, request'[m] = Deletion("revoke", Nil, WranglerID(p))
        PROVE  FALSE
    BY <2>2 DEF Deletion, Reads
  <2>3. ASSUME NEW b \in Browsers, Refresh(b), request'[m] =
               [kind |-> "refresh", step |-> "get", browser |-> b, stale |-> FALSE,
                token |-> cookie[b]]
        PROVE  /\ request'[m].step = "get" /\ request'[m].browser \in Browsers
               /\ request'[m].token = cookie[request'[m].browser] /\ Refresh(request'[m].browser)
    <3>1. request'[m].browser = b
      BY <2>3
    <3> QED  BY <2>3, <3>1
  <2> QED  BY <1>4, <2>1, <2>2, <2>3 DEF Begins
<1>5. CASE Handler(m)
  <2>1. ~Callback(m)
    BY CallbackDoes DEF Reads
  <2>2. ~Over(m)
    BY DEF Over, Free, Reads
  <2>3. ~(\/ Exchange(m) \/ Verify(m) \/ Fetch(m) \/ Import(m) \/ Complete(m) \/ TurnAway(m))
    BY <2>2, ExchangeDoes, VerifyDoes, FetchDoes, ImportDoes, CompleteDoes, TurnAwayDoes
       DEF Keeps, Goes, Reads
  <2>4. ~(Store(m) \/ Del(m) \/ Check(m))
    BY <2>2, StoreDoes, DelDoes, CheckDoes DEF Keeps, Goes, Reads
  <2>5. ~(Scan(m) \/ Remove(m) \/ Removed(m))
    BY <2>2, ScanDoes, RemoveDoes, RemovedDoes DEF Keeps, Sweeps, Goes, Reads
  <2>6. ~(Arrive(m) \/ ArriveDeleted(m) \/ ArriveRefused(m) \/ AnswerLost(m))
    BY <2>2, AnswerDoes, LostDoes
  <2>7. CASE Get(m)
    BY <2>2, <2>7, GetDoes DEF Goes, Get, At, Reads
  <2> QED  BY <1>5, <2>1, <2>3, <2>4, <2>5, <2>6, <2>7 DEF Handler
<1> QED BY <1>1, <1>2, <1>3, <1>4, <1>5, Moves

LEMMA KnowsSteps ==
  ASSUME TypeOK, Numbered, [Next]_vars, NEW m \in Numbers, Knows(request'[m])
  PROVE  \/ /\ Knows(request[m]) /\ request'[m].id = request[m].id
            /\ request'[m].browser = request[m].browser
            /\ request'[m].step = request[m].step \/ Del(m)
         \/ /\ Get(m) /\ Reads(request[m]) /\ request'[m].browser = request[m].browser
            /\ request'[m].token = request[m].token /\ request'[m].step = "del"
            /\ UNCHANGED <<sessions, ended>>
            /\ \E s \in sessions : s.token = request[m].token /\ request'[m].id = s.id
<1>1. CASE request'[m] = request[m]
  BY <1>1
<1>2. CASE Leaves(m)
  BY <1>2 DEF Leaves, Same, Knows
<1>3. CASE Stopped(m)
  BY <1>3 DEF Stopped, Free, Working, Knows
<1>4. CASE Begins(m)
  <2>1. ASSUME NEW b \in Browsers,
               request'[m] = [Deletion("logout", b, jwt[b].id) EXCEPT !.stale = TRUE]
        PROVE  FALSE
    BY <2>1 DEF Deletion, Knows
  <2>2. ASSUME NEW p \in Persons, request'[m] = Deletion("revoke", Nil, WranglerID(p))
        PROVE  FALSE
    BY <2>2 DEF Deletion, Knows
  <2>3. ASSUME NEW b \in Browsers, request'[m] =
               [kind |-> "refresh", step |-> "get", browser |-> b, stale |-> FALSE,
                token |-> cookie[b]]
        PROVE  FALSE
    BY <2>3 DEF Knows
  <2> QED  BY <1>4, <2>1, <2>2, <2>3 DEF Begins
<1>5. CASE Handler(m)
  <2>1. ~Callback(m)
    BY CallbackDoes DEF Knows
  <2>2. ~Over(m)
    BY DEF Over, Free, Knows
  <2>3. ~(\/ Exchange(m) \/ Verify(m) \/ Fetch(m) \/ Import(m) \/ Complete(m) \/ TurnAway(m))
    BY <2>2, ExchangeDoes, VerifyDoes, FetchDoes, ImportDoes, CompleteDoes, TurnAwayDoes
       DEF Keeps, Goes, Knows, Exchange, Verify, Fetch, Import, Complete, At
  <2>4. ~(Store(m) \/ Check(m))
    BY <2>2, StoreDoes, CheckDoes DEF Keeps, Goes, Knows
  <2>5. ~(Scan(m) \/ Remove(m) \/ Removed(m))
    BY <2>2, ScanDoes, RemoveDoes, RemovedDoes DEF Keeps, Sweeps, Goes, Knows
  <2>6. ~(Arrive(m) \/ ArriveDeleted(m) \/ ArriveRefused(m) \/ AnswerLost(m))
    BY <2>2, AnswerDoes, LostDoes
  <2>7. CASE Get(m)
    BY <2>2, <2>7, GetDoes DEF Goes, Get, At, Reads
  <2>8. CASE Del(m)
    BY <2>2, <2>8, DelDoes DEF Keeps, Goes, Same, Del, At, Knows
  <2> QED  BY <1>5, <2>1, <2>3, <2>4, <2>5, <2>6, <2>7, <2>8 DEF Handler
<1> QED BY <1>1, <1>2, <1>3, <1>4, <1>5, Moves

\* A browser's cookie is the number of the login or refresh that was answered last, or none.
LEMMA CookieSteps ==
  ASSUME TypeOK, [Next]_vars, NEW b \in Browsers
  PROVE  \/ cookie'[b] = cookie[b]
         \/ cookie'[b] = Nil
         \/ \E n \in Numbers : /\ Arrive(n) /\ Issuing(request[n]) /\ request[n].step = "ok"
                              /\ request[n].browser = b /\ cookie'[b] = n
                              /\ UNCHANGED <<sessions, pending, sent, ended, overlapped>>
<1>1. CASE UNCHANGED vars \/ Tick \/ Sweep \/ Rotate \/ RefreshKeys \/ Restart
  BY <1>1 DEF vars, Tick, Sweep, Rotate, RefreshKeys, Restart, client
<1>2. ASSUME NEW c \in Browsers, Authorize(c) \/ Refresh(c) \/ Logout(c)
      PROVE  cookie' = cookie
  BY <1>2 DEF Authorize, Refresh, Logout, client
<1>3. ASSUME NEW p \in Persons, Revoke(p)
      PROVE  cookie' = cookie
  BY <1>3 DEF Revoke, client
<1>4. ASSUME NEW n \in Numbers, Handler(n)
      PROVE  \/ cookie'[b] = cookie[b]
             \/ cookie'[b] = Nil
             \/ /\ Arrive(n) /\ Issuing(request[n]) /\ request[n].step = "ok"
                /\ request[n].browser = b /\ cookie'[b] = n
                /\ UNCHANGED <<sessions, pending, sent, ended, overlapped>>
  <2>1. CASE Callback(n) \/ AnswerLost(n) \/ ArriveRefused(n)
    BY <2>1 DEF Callback, AnswerLost, ArriveRefused, client
  <2>2. CASE Arrive(n)
    BY <2>2 DEF Arrive, SetCookie, Issuing, TypeOK, history
  <2>3. CASE ArriveDeleted(n)
    BY <2>3 DEF ArriveDeleted, TypeOK
  <2>4. CASE \/ Exchange(n) \/ Verify(n) \/ Fetch(n) \/ Import(n) \/ Complete(n)
             \/ TurnAway(n) \/ Check(n)
    BY <2>4 DEF Exchange, Verify, Fetch, Import, Complete, TurnAway, Check, Others, client
  <2>5. CASE Store(n) \/ Get(n) \/ Del(n) \/ Scan(n) \/ Remove(n) \/ Removed(n)
    BY <2>5 DEF Store, Get, Del, Scan, Remove, Removed, Others, client
  <2> QED  BY <1>4, <2>1, <2>2, <2>3, <2>4, <2>5 DEF Handler
<1> QED BY <1>1, <1>2, <1>3, <1>4 DEF Next

\* A number that is used up: no request has it, and no pending login will.
Spent(t) == t <= sent /\ request[t] = Free /\ \A e \in pending : e.number # t

\* Cookies, and the tokens of the refreshes that are to read them, are such numbers.
TokensSpent ==
  /\ \A b \in Browsers : cookie[b] # Nil => Spent(cookie[b])
  /\ \A n \in Numbers : Reads(request[n]) => Spent(request[n].token)

LEMMA SpentStays ==
  ASSUME TypeOK, Numbered, [Next]_vars, NEW t \in Numbers, Spent(t)
  PROVE  Spent(t)'
<1>0. sent \in Nat /\ t \in Nat
  BY DEF TypeOK, Numbers
<1>1. t <= sent' /\ \A e \in pending' : e.number # t
  BY <1>0, SentGrows DEF Spent
<1>2. request'[t] = Free
  <2>1. ~Callback(t) /\ ~Begins(t)
    BY <1>0 DEF Callback, Begins, Spent
  <2> QED  BY <2>1, Persists DEF Spent
<1> QED BY <1>1, <1>2 DEF Spent

LEMMA TokensSpentStep ==
  ASSUME TypeOK, Numbered, TokensSpent, [Next]_vars
  PROVE  TokensSpent'
<1>1. ASSUME NEW b \in Browsers, cookie'[b] # Nil PROVE Spent(cookie[b])' 
  <2>1. CASE cookie'[b] = cookie[b]
    <3>1. cookie[b] \in Numbers /\ Spent(cookie[b])
      BY <1>1, <2>1 DEF TypeOK, TokensSpent
    <3>2. Spent(cookie[b]) => cookie[b] <= sent' /\ request'[cookie[b]] = Free /\ \A e \in pending' : e.number # cookie[b]
      BY <3>1, SpentStays DEF Spent
    <3> QED  BY <2>1, <3>1, <3>2 DEF Spent
  <2>2. ASSUME NEW n \in Numbers, Arrive(n), cookie'[b] = n, UNCHANGED <<pending, sent>>
        PROVE  Spent(cookie[b])'
    <3>1. request'[n] = Free /\ request[n].kind # "none"
      BY <2>2, AnswerDoes DEF Arrive
    <3>2. request[n] # Free
      BY <3>1 DEF Free
    <3>3. ~(n > sent) /\ \A e \in pending : e.number # n
      BY <3>2 DEF Numbered
    <3>4. n \in Nat /\ sent \in Nat
      BY DEF TypeOK, Numbers
    <3>5. n <= sent
      BY <3>3, <3>4
    <3> QED  BY <2>2, <3>1, <3>3, <3>5 DEF Spent
  <2> QED  BY <1>1, <2>1, <2>2, CookieSteps
<1>2. ASSUME NEW n \in Numbers, Reads(request'[n]) PROVE Spent(request[n].token)'
  <2>1. CASE Reads(request[n]) /\ request'[n].token = request[n].token
    <3>1. request[n].token \in Numbers /\ Spent(request[n].token)
      BY <2>1, Fields DEF TypeOK, TokensSpent, Reads
    <3>2. request[n].token <= sent' /\ request'[request[n].token] = Free
          /\ \A e \in pending' : e.number # request[n].token
      BY <3>1, SpentStays DEF Spent
    <3> QED  BY <2>1, <3>2 DEF Spent
  <2>2. ASSUME NEW b \in Browsers, request'[n].token = cookie[b], Refresh(b)
        PROVE  Spent(request[n].token)'
    <3>1. cookie[b] \in Numbers /\ Spent(cookie[b])
      BY <2>2 DEF Refresh, TypeOK, TokensSpent
    <3>2. cookie[b] <= sent' /\ request'[cookie[b]] = Free
          /\ \A e \in pending' : e.number # cookie[b]
      BY <3>1, SpentStays DEF Spent
    <3> QED  BY <2>2, <3>2 DEF Spent
  <2> QED  BY <1>2, <2>1, <2>2, ReadsSteps
<1> QED BY <1>1, <1>2 DEF TokensSpent

\* A cookie is of one browser, and who refreshes with it is that browser.
Owners ==
  /\ \A b, c \in Browsers : cookie[b] # Nil /\ cookie[b] = cookie[c] => b = c
  /\ \A b \in Browsers, n \in Numbers :
       Reads(request[n]) /\ request[n].token = cookie[b] => request[n].browser = b
  /\ \A m, n \in Numbers :
       Reads(request[m]) /\ Reads(request[n]) /\ request[m].token = request[n].token =>
         request[m].browser = request[n].browser

LEMMA OwnersStep ==
  ASSUME TypeOK, Numbered, TokensSpent, Owners, [Next]_vars
  PROVE  Owners'
<1>1. ASSUME NEW b \in Browsers
      PROVE  \/ cookie'[b] \in {cookie[b], Nil}
             \/ /\ cookie'[b] \in Numbers /\ ~Spent(cookie'[b])
                /\ request'[cookie'[b]] = Free
                /\ \A m \in Numbers : m # cookie'[b] => request'[m] = request[m]
                /\ \A c \in Browsers : c # b => cookie'[c] = cookie[c]
  <2>1. ASSUME NEW n \in Numbers, Arrive(n), cookie'[b] = n, request[n].browser = b
        PROVE  /\ ~Spent(n) /\ request'[n] = Free
               /\ \A m \in Numbers : m # n => request'[m] = request[m]
               /\ \A c \in Browsers : c # b => cookie'[c] = cookie[c]
    <3>1. ~Spent(n)
      BY <2>1 DEF Arrive, Spent, Free
    <3>2. request'[n] = Free /\ \A m \in Numbers : m # n => request'[m] = request[m]
      BY <2>1, AnswerDoes DEF Over, Only
    <3>3. \A c \in Browsers : c # b => cookie'[c] = cookie[c]
      BY <2>1 DEF Arrive, SetCookie, TypeOK
    <3> QED  BY <3>1, <3>2, <3>3
  <2> QED  BY <2>1, CookieSteps
<1>2. ASSUME NEW b \in Browsers, NEW c \in Browsers, cookie'[b] # Nil, cookie'[b] = cookie'[c]
      PROVE  b = c
  <2>1. CASE cookie'[b] = cookie[b] /\ cookie'[c] = cookie[c]
    BY <1>2, <2>1 DEF Owners
  <2>2. CASE cookie'[b] # cookie[b]
    BY <1>1, <1>2, <2>2 DEF TokensSpent
  <2>3. CASE cookie'[c] # cookie[c]
    BY <1>1, <1>2, <2>3 DEF TokensSpent
  <2> QED  BY <2>1, <2>2, <2>3
<1>3. ASSUME NEW b \in Browsers, NEW n \in Numbers, Reads(request'[n]),
             request'[n].token = cookie'[b]
      PROVE  request'[n].browser = b
  <2>0. request'[n].token \in Numbers /\ request'[n].token # Nil
    <3>1. request'[n] \in Request
      BY TypeStep DEF TypeOK
    <3>2. request'[n].token \in Numbers
      BY <1>3, <3>1, Fields DEF Reads
    <3> QED  BY <3>2, ClearanceAssumption DEF Numbers
  <2>1. CASE Reads(request[n]) /\ request'[n].token = request[n].token /\
             request'[n].browser = request[n].browser
    <3>1. Spent(request[n].token)
      BY <2>1 DEF TokensSpent
    <3>2. cookie'[b] = cookie[b]
      BY <1>1, <1>3, <2>0, <2>1, <3>1
    <3> QED  BY <1>3, <2>1, <3>2 DEF Owners
  <2>2. CASE request'[n].browser \in Browsers /\
             request'[n].token = cookie[request'[n].browser] /\ Refresh(request'[n].browser)
    <3>1. cookie' = cookie
      BY <2>2 DEF Refresh, client
    <3> QED  BY <1>3, <2>0, <2>2, <3>1 DEF Owners
  <2> QED  BY <1>3, <2>1, <2>2, ReadsSteps
<1>4. ASSUME NEW m \in Numbers, NEW n \in Numbers, Reads(request'[m]), Reads(request'[n]),
             request'[m].token = request'[n].token
      PROVE  request'[m].browser = request'[n].browser
  <2> DEFINE Old(k) == /\ Reads(request[k]) /\ request'[k].token = request[k].token
                       /\ request'[k].browser = request[k].browser
             New(k) == /\ Begins(k) /\ request'[k].browser \in Browsers
                       /\ request'[k].token = cookie[request'[k].browser]
  <2>1. (Old(m) \/ New(m)) /\ (Old(n) \/ New(n))
    BY <1>4, ReadsSteps
  <2>2. CASE Old(m) /\ Old(n)
    BY <1>4, <2>2 DEF Owners
  <2>3. CASE New(m) /\ New(n)
    BY <2>3 DEF Begins
  <2>4. CASE Old(m) /\ New(n)
    BY <1>4, <2>4 DEF Owners
  <2>5. CASE New(m) /\ Old(n)
    BY <1>4, <2>5 DEF Owners
  <2> QED  BY <2>1, <2>2, <2>3, <2>4, <2>5
<1> QED BY <1>2, <1>3, <1>4 DEF Owners

\* A JWT, and the ID that a refresh has read, are of the person at the browser it is for; so is
\* the session that a cookie, a refresh that is to read it, or an answer names.
Persona ==
  /\ \A b \in Browsers : jwt[b] # Nil => jwt[b].id[1] = Who[b]
  /\ \A n \in Numbers : Issuing(request[n]) => request[n].jwt.id[1] = Who[request[n].browser]
  /\ \A n \in Numbers : Knows(request[n]) => request[n].id[1] = Who[request[n].browser]
  /\ \A s \in sessions, b \in Browsers : cookie[b] = s.token => s.id[1] = Who[b]
  /\ \A s \in sessions, n \in Numbers :
       Reads(request[n]) /\ request[n].token = s.token => s.id[1] = Who[request[n].browser]
  /\ \A s \in sessions : request[s.token].kind \in {"login", "refresh"} =>
       s.id[1] = Who[request[s.token].browser]

\* A session that Redis was just given has a token that is in no cookie yet.
LEMMA NewSession ==
  ASSUME TypeOK, [Next]_vars, NEW s \in sessions', s \notin sessions
  PROVE  /\ ~Spent(s.token)
         /\ \E n \in Numbers : Store(n) /\ s.token = n /\ s.id = request[n].jwt.id
<1>1. PICK n \in Numbers : Store(n) /\ s = [token |-> n, id |-> request[n].jwt.id]
  BY SessionSteps
<1>2. request[n] # Free
  BY <1>1 DEF Store, Free
<1> QED BY <1>1, <1>2 DEF Spent

LEMMA PersonaStep ==
  ASSUME TypeOK, Tokens, TokensSpent, Persona, [Next]_vars
  PROVE  Persona'
<1>0. /\ Numbered
      /\ \A s \in sessions, n \in Numbers :
           Reads(request[n]) /\ request[n].token = s.token => s.id[1] = Who[request[n].browser]
      /\ \A s \in sessions, n \in Numbers : s.token = n /\ request[n].kind \in {"login", "refresh"} =>
           s.id[1] = Who[request[n].browser]
      /\ \A s \in sessions, b \in Browsers : cookie[b] = s.token => s.id[1] = Who[b]
  BY DEF Tokens, Persona
<1>1. ASSUME NEW b \in Browsers, jwt'[b] # Nil PROVE jwt'[b].id[1] = Who[b]
  BY <1>1, JWTSteps DEF Persona
<1>2. ASSUME NEW n \in Numbers, Issuing(request'[n])
      PROVE  request'[n].jwt.id[1] = Who[request'[n].browser]
  <2>1. CASE Issuing(request[n]) /\ request'[n].jwt = request[n].jwt /\
             request'[n].browser = request[n].browser
    BY <2>1 DEF Persona
  <2>2. CASE Complete(n)
    BY <2>2, CompleteDoes, IDFields DEF Goes
  <2>3. CASE Check(n)
    <3>1. Goes(n, "store") /\ request'[n].jwt = Issued(request[n].id)
      BY <1>2, <2>3, CheckDoes DEF Over, Free, Issuing
    <3>2. Knows(request[n])
      BY <2>3 DEF Check, At, Knows
    <3> QED  BY <3>1, <3>2 DEF Goes, Issued, Persona
  <2> QED  BY <1>0, <1>2, <2>1, <2>2, <2>3, IssuingSteps
<1>3. ASSUME NEW n \in Numbers, Knows(request'[n])
      PROVE  request'[n].id[1] = Who[request'[n].browser]
  BY <1>0, <1>3, KnowsSteps DEF Persona
<1>4. ASSUME NEW s \in sessions', NEW b \in Browsers, cookie'[b] = s.token PROVE s.id[1] = Who[b]
  <2>0. s.token \in Numbers /\ s.token # Nil
    BY SessionsTyped, ClearanceAssumption DEF Session, Numbers
  <2>1. CASE cookie'[b] = cookie[b]
    <3>1. s \in sessions
      BY <1>4, <2>0, <2>1, NewSession DEF TokensSpent
    <3> QED  BY <1>4, <2>1, <3>1 DEF Persona
  <2>2. ASSUME NEW n \in Numbers, Issuing(request[n]), request[n].browser = b, cookie'[b] = n,
               UNCHANGED sessions
        PROVE  s.id[1] = Who[b]
    BY <1>0, <1>4, <2>2, ZenonT(30) DEF Issuing
  <2> QED  BY <1>4, <2>0, <2>1, <2>2, CookieSteps
<1>5. ASSUME NEW s \in sessions', NEW n \in Numbers, Reads(request'[n]),
             request'[n].token = s.token
      PROVE  s.id[1] = Who[request'[n].browser]
  <2>1. CASE Reads(request[n]) /\ request'[n].token = request[n].token /\
             request'[n].browser = request[n].browser
    <3>1. s \in sessions
      BY <1>5, <2>1, NewSession DEF TokensSpent
    <3>2. request[n].token = s.token
      BY <1>5, <2>1
    <3>3. s.id[1] = Who[request[n].browser]
      BY <2>1, <3>1, <3>2 DEF Persona
    <3> QED  BY <2>1, <3>3
  <2>2. CASE request'[n].browser \in Browsers /\
             request'[n].token = cookie[request'[n].browser] /\ Refresh(request'[n].browser)
    <3> DEFINE c == request'[n].browser
    <3>1. sessions' = sessions
      BY <2>2 DEF Refresh
    <3>2. c \in Browsers /\ cookie[c] = s.token /\ s \in sessions
      BY <1>5, <2>2, <3>1
    <3> HIDE DEF c
    <3>3. s.id[1] = Who[c]
      BY <1>0, <3>2
    <3> QED  BY <3>3 DEF c
  <2> QED  BY <1>0, <1>5, <2>1, <2>2, ReadsSteps
<1>6. ASSUME NEW s \in sessions', request'[s.token].kind \in {"login", "refresh"}
      PROVE  s.id[1] = Who[request'[s.token].browser]
  <2> DEFINE t == s.token
  <2>0. t \in Numbers /\ request'[t] # Free
    BY <1>6, SessionsTyped DEF Session, Free
  <2>1. CASE request'[t].kind = request[t].kind /\ request'[t].browser = request[t].browser
    <3>1. CASE s \in sessions
      BY <1>6, <2>1, <3>1 DEF Persona
    <3>2. CASE s \notin sessions
      <4>1. Store(t) /\ s.id = request[t].jwt.id
        BY <3>2, NewSession
      <4>2. Issuing(request[t])
        BY <2>0, <4>1, StoreDoes
      <4> QED  BY <2>0, <2>1, <4>1, <4>2 DEF Persona
    <3> QED  BY <3>1, <3>2
  <2>2. CASE Callback(t) \/ Begins(t)
    <3>1. Unstored(t)
      BY <2>0, <2>2 DEF Callback, Begins, Unstored, TypeOK, Numbers
    <3>2. s \in sessions
      <4>1. request[t].step # "store"
        BY <1>0, <2>2 DEF Callback, Begins, Numbered, Free
      <4> QED  BY <4>1, NewSession DEF Store
    <3> QED  BY <2>0, <3>1, <3>2 DEF Tokens, TokensNew
  <2> QED  BY <1>0, <2>0, <2>1, <2>2, Persists
<1> QED BY <1>1, <1>2, <1>3, <1>4, <1>5, <1>6 DEF Persona

\* A refresh that has read its token has read whose it is.
ReadRight ==
  \A n \in Numbers : Reads(request[n]) /\ Knows(request[n]) =>
    \A s \in sessions : s.token = request[n].token => s.id = request[n].id

LEMMA ReadRightStep ==
  ASSUME TypeOK, Tokens, TokensSpent, ReadRight, [Next]_vars
  PROVE  ReadRight'
<1> SUFFICES ASSUME NEW n \in Numbers, Reads(request'[n]), Knows(request'[n]),
                    NEW s \in sessions', s.token = request'[n].token
             PROVE  s.id = request'[n].id
  BY DEF ReadRight
<1>0. Numbered /\ OneID /\ request'[n].step = "del"
  BY DEF Tokens, Reads, Knows
<1>1. Reads(request[n]) /\ request'[n].token = request[n].token
  BY <1>0, ReadsSteps
<1>2. s \in sessions
  BY <1>1, NewSession DEF TokensSpent
<1>3. CASE Knows(request[n]) /\ request'[n].id = request[n].id
  BY <1>1, <1>2, <1>3 DEF ReadRight
<1>4. ASSUME NEW r \in sessions, r.token = request[n].token, request'[n].id = r.id
      PROVE  s.id = request'[n].id
  BY <1>0, <1>1, <1>2, <1>4 DEF OneID
<1> QED BY <1>0, <1>3, <1>4, KnowsSteps

\* An ID that was made since the last restart is in the records.
InRecords(i) == i[2] <= boot /\ (i[2] = boot => record[i[1]] # Nil)
InRecordsNext(i) == i[2] <= boot' /\ (i[2] = boot' => record'[i[1]] # Nil)
Known ==
  /\ \A s \in sessions : InRecords(s.id)
  /\ \A n \in Numbers : Knows(request[n]) => InRecords(request[n].id)
  /\ \A n \in Numbers : request[n].step = "store" => InRecords(request[n].jwt.id)

LEMMA InRecordsStays ==
  ASSUME TypeOK, [Next]_vars, NEW i \in IDs, InRecords(i)
  PROVE  InRecordsNext(i)
<1>0. boot \in Nat /\ i[1] \in Persons /\ i[2] \in Nat
  BY ClearanceAssumption DEF TypeOK, IDs
<1>1. CASE UNCHANGED <<boot, record>>
  BY <1>1 DEF InRecords, InRecordsNext
<1>2. CASE Restart
  BY <1>0, <1>2 DEF Restart, InRecords, InRecordsNext
<1>3. ASSUME NEW p \in Persons, Revoke(p), UNCHANGED boot PROVE InRecordsNext(i)
  <2>1. record'[i[1]] \in {record[i[1]], "revoked"}
    BY <1>0, <1>3 DEF Revoke, TypeOK
  <2> QED  BY <1>3, <2>1, ClearanceAssumption DEF InRecords, InRecordsNext
<1>4. ASSUME NEW n \in Numbers, Complete(n), UNCHANGED boot PROVE InRecordsNext(i)
  <2>1. record'[i[1]] \in {record[i[1]], "active"}
    BY <1>0, <1>4 DEF Complete, TypeOK
  <2> QED  BY <1>4, <2>1, ClearanceAssumption DEF InRecords, InRecordsNext
<1> QED BY <1>1, <1>2, <1>3, <1>4, RecordSteps

LEMMA KnownStep ==
  ASSUME TypeOK, Numbered, Known, [Next]_vars
  PROVE  Known'
<1>1. ASSUME NEW s \in sessions' PROVE InRecordsNext(s.id)
  <2>1. s.id \in IDs
    BY SessionsTyped DEF Session
  <2>2. InRecords(s.id)
    <3>1. ASSUME NEW n \in Numbers, Store(n), s.id = request[n].jwt.id PROVE InRecords(s.id)
      BY <3>1 DEF Store, Known
    <3> QED  BY <3>1, NewSession DEF Known
  <2> QED  BY <2>1, <2>2, InRecordsStays
<1>2. ASSUME NEW n \in Numbers, Knows(request'[n]) PROVE InRecordsNext(request'[n].id)
  <2>1. PICK i \in IDs : request'[n].id = i /\ InRecords(i)
    <3>1. CASE Knows(request[n]) /\ request'[n].id = request[n].id
      BY <3>1, Fields DEF Known, Knows, TypeOK
    <3>2. ASSUME NEW s \in sessions, request'[n].id = s.id
          PROVE  s.id \in IDs /\ InRecords(s.id)
      BY DEF TypeOK, Session, Known
    <3> QED  BY <1>2, <3>1, <3>2, KnowsSteps
  <2> QED  BY <2>1, InRecordsStays
<1>3. ASSUME NEW n \in Numbers, request'[n].step = "store"
      PROVE  InRecordsNext(request'[n].jwt.id)
  <2>0. Issuing(request'[n])
    BY <1>3, TypeStep, Fields DEF TypeOK, Issuing, Deletes, Free
  <2>1. CASE request[n].step = "store" /\ Issuing(request[n]) /\ request'[n].jwt = request[n].jwt
    <3>1. request[n].jwt.id \in IDs /\ InRecords(request[n].jwt.id)
      BY <2>1, Fields DEF TypeOK, JWT, Known
    <3> QED  BY <2>1, <3>1, InRecordsStays
  <2>2. CASE Complete(n)
    <3> DEFINE q == Who[request[n].browser]
    <3>1. request'[n].jwt.id = <<q, boot>> /\ q \in Persons
      BY <2>2, CompleteDoes, IDFields, ClearanceAssumption DEF WranglerID
    <3>2. record'[q] = "active" /\ boot' = boot
      BY <2>2, <3>1 DEF Complete, Others, TypeOK
    <3> HIDE DEF q
    <3>3. boot \in Nat
      BY DEF TypeOK
    <3> QED  BY <3>1, <3>2, <3>3, ClearanceAssumption DEF InRecordsNext
  <2>3. CASE Check(n)
    <3>1. request'[n].jwt.id = request[n].id
      BY <2>0, <2>3, CheckDoes, IDFields DEF Over, Free, Issuing
    <3>2. Knows(request[n])
      BY <2>3 DEF Check, At, Knows
    <3>3. request[n].id \in IDs /\ InRecords(request[n].id)
      BY <3>2, Fields DEF TypeOK, Known, Knows
    <3> QED  BY <3>1, <3>3, InRecordsStays
  <2>4. ~Store(n)
    BY <1>3, StoreDoes DEF Over, Keeps, Goes, Free
  <2> QED  BY <1>3, <2>0, <2>1, <2>2, <2>3, <2>4, IssuingSteps
<1> QED BY <1>1, <1>2, <1>3 DEF Known, InRecords, InRecordsNext

-----------------------------------------------------------------------------
(* A session that lives                                                     *)

\* A browser's session is ended once and for all, but for a login that begins another.
Reborn(n, b) ==
  /\ Complete(n) /\ request[n].browser = b /\ InFlight(b) = {n} /\ ~request[n].stale
  /\ \A m \in Numbers : Deletes(request[m]) => request[m].id[1] # Who[b]

LEMMA EndedSteps ==
  ASSUME TypeOK, [Next]_vars, NEW b \in Browsers, b \notin ended'
  PROVE  /\ b \notin ended \/ \E n \in Numbers : Reborn(n, b)
         /\ b \notin overlapped' => b \notin overlapped \/ \E n \in Numbers : Reborn(n, b)
         /\ ~Restart
         /\ Authorize(b) => InFlight(b) = {}
         /\ \A c \in Browsers : Logout(c) => Who[c] # Who[b]
         /\ ~Revoke(Who[b])
         /\ b \notin overlapped' => (Refresh(b) => InFlight(b) = {})
<1>1. ASSUME UNCHANGED vars \/ Tick \/ Sweep \/ Rotate \/ RefreshKeys
      PROVE  b \notin ended /\ (b \notin overlapped' => b \notin overlapped)
  BY <1>1 DEF vars, Tick, Sweep, Rotate, RefreshKeys, history
<1>2. ~Restart
  BY DEF Restart
<1>3. ASSUME NEW c \in Browsers, Authorize(c) \/ Refresh(c) \/ Logout(c)
      PROVE  b \notin ended /\ (b \notin overlapped' => b \notin overlapped)
  BY <1>3 DEF Authorize, Abandoned, Refresh, Logout
<1>4. ASSUME NEW p \in Persons, Revoke(p)
      PROVE  b \notin ended /\ (b \notin overlapped' => b \notin overlapped)
  BY <1>4 DEF Revoke
<1>5. ASSUME NEW n \in Numbers, Handler(n)
      PROVE  /\ b \notin ended \/ Reborn(n, b)
             /\ b \notin overlapped' => b \notin overlapped \/ Reborn(n, b)
  <2>1. CASE Callback(n) \/ Arrive(n) \/ ArriveDeleted(n) \/ ArriveRefused(n) \/ AnswerLost(n)
    BY <2>1 DEF Callback, Arrive, ArriveDeleted, ArriveRefused, AnswerLost, history
  <2>2. CASE Exchange(n) \/ Verify(n) \/ Fetch(n) \/ Import(n) \/ TurnAway(n) \/ Check(n)
    BY <2>2 DEF Exchange, Verify, Fetch, Import, TurnAway, Check, Hurt, history
  <2>3. CASE Store(n) \/ Get(n) \/ Del(n) \/ Scan(n) \/ Remove(n) \/ Removed(n)
    BY <2>3 DEF Store, Get, Del, Scan, Remove, Removed, RedisFails, Hurt
  <2>4. CASE Complete(n)
    BY <2>4 DEF Complete, Afresh, Reborn, Deletes
  <2> QED  BY <1>5, <2>1, <2>2, <2>3, <2>4 DEF Handler
<1>6. Authorize(b) => InFlight(b) = {}
  BY DEF Authorize, Abandoned
<1>7. \A c \in Browsers : Logout(c) => Who[c] # Who[b]
  BY DEF Logout
<1>8. ~Revoke(Who[b])
  BY DEF Revoke
<1>9. b \notin overlapped' => (Refresh(b) => InFlight(b) = {})
  BY DEF Refresh
<1> QED BY <1>1, <1>2, <1>3, <1>4, <1>5, <1>6, <1>7, <1>8, <1>9 DEF Next

\* Redis loses a session to a refresh that used its token, or to a deletion.
LEMMA LostSession ==
  ASSUME TypeOK, [Next]_vars, NEW s \in sessions, s \notin sessions'
  PROVE  \/ \E m \in Numbers : Del(m) /\ s.token = request[m].token
         \/ \E m \in Numbers : Deletes(request[m]) /\ s.id = request[m].id
<1>1. ~(UNCHANGED vars \/ Tick \/ Sweep \/ Rotate \/ RefreshKeys \/ Restart)
  BY DEF vars, Tick, Sweep, Rotate, RefreshKeys, Restart
<1>2. ASSUME NEW b \in Browsers, Authorize(b) \/ Refresh(b) \/ Logout(b)
      PROVE  FALSE
  BY <1>2 DEF Authorize, Refresh, Logout
<1>3. ASSUME NEW p \in Persons, Revoke(p)
      PROVE  FALSE
  BY <1>3 DEF Revoke
<1>4. ASSUME NEW n \in Numbers, Handler(n)
      PROVE  \/ Del(n) /\ s.token = request[n].token
             \/ Deletes(request[n]) /\ s.id = request[n].id
  <2>1. ~(\/ Callback(n) \/ Exchange(n) \/ Verify(n) \/ Fetch(n) \/ Import(n)
          \/ Complete(n) \/ TurnAway(n) \/ Get(n) \/ Check(n))
    BY DEF Callback, Exchange, Verify, Fetch, Import, Complete, TurnAway, Get, Check
  <2>2. ~(\/ Store(n) \/ Scan(n) \/ Removed(n) \/ Arrive(n) \/ ArriveDeleted(n)
          \/ ArriveRefused(n) \/ AnswerLost(n))
    BY DEF Store, Scan, Removed, Arrive, ArriveDeleted, ArriveRefused, AnswerLost
  <2>3. CASE Remove(n)
    BY <2>3, RemoveDoes
  <2>4. CASE Del(n)
    BY <2>4 DEF Del
  <2> QED  BY <1>4, <2>1, <2>2, <2>3, <2>4 DEF Handler
<1> QED BY <1>1, <1>2, <1>3, <1>4 DEF Next

\* What is under deletion was so before, or the logout or the revocation is new.
LEMMA DeletesSteps ==
  ASSUME TypeOK, Numbered, [Next]_vars, NEW m \in Numbers, Deletes(request'[m])
  PROVE  \/ Deletes(request[m]) /\ request'[m].id = request[m].id
         \/ \E c \in Browsers : Logout(c) /\ request'[m].id = jwt[c].id
         \/ \E p \in Persons : Revoke(p) /\ request'[m].id = WranglerID(p)
<1>1. CASE request'[m] = request[m]
  BY <1>1
<1>2. CASE Leaves(m)
  BY <1>2 DEF Leaves, Same, Deletes
<1>3. CASE Stopped(m)
  BY <1>3 DEF Stopped, Free, Deletes
<1>4. CASE Begins(m)
  <2>1. ASSUME NEW c \in Browsers,
               request'[m] = [Deletion("logout", c, jwt[c].id) EXCEPT !.stale = TRUE]
        PROVE  request'[m].id = jwt[c].id
    BY <2>1 DEF Deletion
  <2>2. ASSUME NEW p \in Persons, request'[m] = Deletion("revoke", Nil, WranglerID(p))
        PROVE  request'[m].id = WranglerID(p)
    BY <2>2 DEF Deletion
  <2>3. ASSUME NEW c \in Browsers, request'[m] =
               [kind |-> "refresh", step |-> "get", browser |-> c, stale |-> FALSE,
                token |-> cookie[c]]
        PROVE  FALSE
    BY <2>3 DEF Deletes
  <2> QED  BY <1>4, <2>1, <2>2, <2>3 DEF Begins
<1>5. CASE Handler(m)
  <2>1. ~Callback(m)
    BY CallbackDoes DEF Deletes
  <2>2. request'[m] # Free
    BY DEF Free, Deletes
  <2>3. Deletes(request[m]) /\ request'[m].kind = request[m].kind
    BY <1>5, <2>1, <2>2, HandlerKeeps DEF Deletes
  <2>4. request[m].step \in {"scan", "ok"}
    BY <2>3, Fields DEF TypeOK
  <2>5. ~(\/ Exchange(m) \/ Verify(m) \/ Fetch(m) \/ Import(m) \/ Complete(m) \/ TurnAway(m)
          \/ Get(m) \/ Del(m) \/ Check(m) \/ Store(m))
    BY <2>4 DEF Exchange, Verify, Fetch, Import, Complete, TurnAway, Get, Del, Check, Store, At
  <2>6. ~(Arrive(m) \/ ArriveDeleted(m) \/ ArriveRefused(m) \/ AnswerLost(m))
    BY <2>2, <2>3, AnswerDoes, LostDoes DEF Over, Deletes
  <2>7. CASE Scan(m) \/ Remove(m)
    BY <2>2, <2>7, ScanDoes, RemoveDoes DEF Sweeps
  <2>8. CASE Removed(m)
    BY <2>8, RemovedDoes DEF Keeps, Same
  <2> QED  BY <1>5, <2>1, <2>3, <2>5, <2>6, <2>7, <2>8 DEF Handler
<1> QED BY <1>1, <1>2, <1>3, <1>4, <1>5, Moves

\* The token is a session of the person at b, in the records of now.
Good(t, b) == [token |-> t, id |-> WranglerID(Who[b])] \in sessions

\* Request n is to bring b the cookie of such a session.
Coming(n, b) ==
  /\ request[n].browser = b
  /\ \/ /\ request[n].kind = "refresh" /\ request[n].step = "check"
        /\ request[n].id = WranglerID(Who[b])
     \/ request[n].step = "store" /\ request[n].jwt.id = WranglerID(Who[b])
     \/ Issuing(request[n]) /\ request[n].step = "ok" /\ Good(n, b)

\* A session that was not ended: nobody is about to delete it, its page is there, all that is
\* issued to it will be good, and its cookie is good or the cookie that comes in its place.
Untouched(b) ==
  /\ record[Who[b]] # "revoked"
  /\ \A n \in Numbers : Deletes(request[n]) => request[n].id[1] # Who[b]
Present(b) == \A n \in Numbers : request[n].browser = b => ~request[n].stale
AllGood(b) ==
  \A n \in Numbers : request[n].browser = b /\ Issuing(request[n]) => Coming(n, b)
HasCookie(b) == cookie[b] # Nil => Good(cookie[b], b) \/ \E n \in Numbers : Coming(n, b)
Lives ==
  \A b \in Browsers \ ended : Untouched(b) /\ Present(b) /\ AllGood(b) /\ HasCookie(b)

\* All that is true of tokens and cookies.
Ledger ==
  /\ Tokens /\ TokensSpent /\ Owners /\ Persona /\ ReadRight /\ Known /\ Lives

\* Only Del takes a good session from a browser whose session lives.
LEMMA GoodStays ==
  ASSUME TypeOK, [Next]_vars, NEW b \in Browsers, Untouched(b), ~Restart, NEW t, Good(t, b),
         \A m \in Numbers : Del(m) => request[m].token # t
  PROVE  Good(t, b)'
<1> DEFINE s == [token |-> t, id |-> WranglerID(Who[b])]
<1>1. s.token = t /\ s.id = WranglerID(Who[b]) /\ s \in sessions
  BY DEF Good
<1>2. boot' = boot
  BY RecordSteps
<1>3. ASSUME NEW m \in Numbers, Deletes(request[m]) PROVE s.id # request[m].id
  BY <1>1, <1>3, IDFields DEF Untouched
<1> HIDE DEF s
<1>4. s \in sessions'
  BY <1>1, <1>3, LostSession
<1> QED BY <1>2, <1>4 DEF s, Good, WranglerID

LEMMA UntouchedStep ==
  ASSUME TypeOK, Numbered, Persona, [Next]_vars, NEW b \in Browsers, Untouched(b), b \notin ended'
  PROVE  Untouched(b)'
<1>0. Who[b] \in Persons
  BY ClearanceAssumption
<1>1. record'[Who[b]] # "revoked"
  <2>1. CASE UNCHANGED record
    BY <2>1 DEF Untouched
  <2>2. ASSUME NEW p \in Persons, Revoke(p) PROVE record'[Who[b]] # "revoked"
    <3>1. p # Who[b]
      BY <2>2, EndedSteps
    <3> QED  BY <1>0, <2>2, <3>1 DEF Revoke, TypeOK, Untouched
  <2>3. ASSUME NEW n \in Numbers, Complete(n) PROVE record'[Who[b]] # "revoked"
    BY <1>0, <2>3 DEF Complete, TypeOK, Untouched
  <2> QED  BY <2>1, <2>2, <2>3, RecordSteps, EndedSteps
<1>2. ASSUME NEW n \in Numbers, Deletes(request'[n]) PROVE request'[n].id[1] # Who[b]
  <2>1. CASE Deletes(request[n]) /\ request'[n].id = request[n].id
    BY <2>1 DEF Untouched
  <2>2. ASSUME NEW c \in Browsers, Logout(c), request'[n].id = jwt[c].id
        PROVE  request'[n].id[1] # Who[b]
    BY <2>2, EndedSteps DEF Logout, Persona
  <2>3. ASSUME NEW p \in Persons, Revoke(p), request'[n].id = WranglerID(p)
        PROVE  request'[n].id[1] # Who[b]
    BY <2>3, EndedSteps, IDFields
  <2> QED  BY <1>2, <2>1, <2>2, <2>3, DeletesSteps
<1> QED BY <1>1, <1>2 DEF Untouched

\* A request of a browser whose session lives stays on its page.
LEMMA StaysThere ==
  ASSUME TypeOK, Numbered, [Next]_vars, NEW b \in Browsers, b \notin ended', NEW n \in Numbers
  PROVE  request[n].browser = b => ~Leaves(n) /\ ~Stopped(n)
<1>1. request[n].browser = b => ~Leaves(n)
  BY EndedSteps DEF Leaves, InFlight
<1>2. ~Stopped(n)
  BY EndedSteps DEF Stopped
<1> QED BY <1>1, <1>2

\* A request that begins for a browser whose session lives is a refresh.
LEMMA BeginsFresh ==
  ASSUME TypeOK, [Next]_vars, NEW b \in Browsers, b \notin ended', NEW n \in Numbers, Begins(n),
         request'[n].browser = b
  PROVE  request'[n].kind = "refresh" /\ request'[n].step = "get" /\ ~request'[n].stale
<1>1. ASSUME NEW c \in Browsers, Logout(c),
             request'[n] = [Deletion("logout", c, jwt[c].id) EXCEPT !.stale = TRUE]
      PROVE  FALSE
  <2>1. request'[n].browser = c
    BY <1>1 DEF Deletion
  <2> QED  BY <1>1, <2>1, EndedSteps
<1>2. ASSUME NEW p \in Persons, request'[n] = Deletion("revoke", Nil, WranglerID(p))
      PROVE  FALSE
  BY <1>2, ClearanceAssumption DEF Deletion
<1>3. ASSUME NEW c \in Browsers, request'[n] =
             [kind |-> "refresh", step |-> "get", browser |-> c, stale |-> FALSE,
              token |-> cookie[c]]
      PROVE  request'[n].kind = "refresh" /\ request'[n].step = "get" /\ ~request'[n].stale
  BY <1>3
<1> QED BY <1>1, <1>2, <1>3 DEF Begins

LEMMA PresentStep ==
  ASSUME TypeOK, Numbered, [Next]_vars, NEW b \in Browsers, Present(b), b \notin ended'
  PROVE  Present(b)'
<1> SUFFICES ASSUME NEW n \in Numbers, request'[n].browser = b PROVE ~request'[n].stale
  BY DEF Present
<1>1. request'[n] # Free
  BY ClearanceAssumption DEF Free
<1>2. CASE request[n].browser = b /\ (request'[n].stale = request[n].stale \/ Leaves(n))
  BY <1>2, StaysThere DEF Present
<1>3. CASE Begins(n)
  BY <1>3, BeginsFresh
<1> QED BY <1>1, <1>2, <1>3, Persists

\* What is issued to a browser whose session lives is good.
LEMMA AllGoodStep ==
  ASSUME TypeOK, Numbered, TokensSpent, Persona, [Next]_vars, NEW b \in Browsers,
         Untouched(b), AllGood(b), b \notin ended'
  PROVE  AllGood(b)'
<1> SUFFICES ASSUME NEW n \in Numbers, request'[n].browser = b, Issuing(request'[n])
             PROVE  Coming(n, b)'
  BY DEF AllGood
<1>0. ~Restart /\ boot' = boot
  BY EndedSteps, RecordSteps
<1>1. \A p : WranglerID(p)' = WranglerID(p)
  BY <1>0 DEF WranglerID
<1>2. CASE Complete(n)
  <2>1. /\ request'[n].step = "store" /\ request'[n].browser = request[n].browser
        /\ request'[n].jwt.id = WranglerID(Who[request[n].browser])
    BY <1>2, CompleteDoes, IDFields DEF Goes
  <2> QED  BY <1>1, <2>1 DEF Coming
<1>3. CASE Check(n)
  <2>1. /\ Goes(n, "store") /\ request'[n].jwt = Issued(request[n].id)
        /\ request[n].id = WranglerID(request[n].id[1])
    BY <1>3, CheckDoes DEF Over, Free, Issuing
  <2>2. Knows(request[n])
    BY <1>3 DEF Check, At, Knows
  <2>3. request[n].browser = b /\ request[n].id[1] = Who[b]
    BY <2>1, <2>2 DEF Goes, Persona
  <2>4. request'[n].jwt.id = WranglerID(Who[b])
    BY <2>1, <2>3, IDFields
  <2> QED  BY <1>1, <2>1, <2>3, <2>4 DEF Coming, Goes
<1>4. CASE Store(n) /\ Issuing(request[n]) /\ request[n].browser = b
  <2>1. ~Over(n)
    BY DEF Over, Free, Issuing
  <2>2. /\ Keeps(n, "ok")
        /\ sessions' = sessions \cup {[token |-> n, id |-> request[n].jwt.id]}
    BY <1>4, <2>1, StoreDoes
  <2>3. request[n].jwt.id = WranglerID(Who[b])
    BY <1>4 DEF Store, AllGood, Coming
  <2>4. request'[n].step = "ok" /\ Good(n, b)'
    BY <1>1, <2>2, <2>3 DEF Keeps, Goes, Good
  <2> QED  BY <2>4 DEF Coming
<1>5. CASE /\ Issuing(request[n]) /\ request'[n].jwt = request[n].jwt /\ request[n].browser = b
           /\ request'[n].kind = request[n].kind /\ request'[n].step = request[n].step
  <2>1. Coming(n, b)
    BY <1>5 DEF AllGood
  <2>2. CASE request[n].step = "store"
    <3>1. request[n].jwt.id = WranglerID(Who[b])
      BY <2>1, <2>2 DEF Coming
    <3> QED  BY <1>1, <1>5, <2>2, <3>1 DEF Coming
  <2>3. CASE request[n].step = "ok"
    <3>1. Good(n, b)
      BY <2>1, <2>3 DEF Coming
    <3>2. ASSUME NEW m \in Numbers, Del(m) PROVE request[m].token # n
      <4>1. Spent(request[m].token)
        BY <3>2 DEF Del, At, Reads, TokensSpent
      <4> QED  BY <2>3, <4>1 DEF Spent, Free
    <3>3. Good(n, b)'
      BY <1>0, <3>1, <3>2, GoodStays
    <3> QED  BY <1>5, <2>3, <3>3 DEF Coming
  <2> QED  BY <1>5, <2>2, <2>3 DEF Issuing
<1> QED BY <1>2, <1>3, <1>4, <1>5, IssuingSteps

LEMMA StillActive ==
  ASSUME TypeOK, Known, NEW b \in Browsers, Untouched(b), NEW n \in Numbers, Knows(request[n]),
         request[n].id = WranglerID(Who[b])
  PROVE  record[Who[b]] = "active"
<1>1. record[Who[b]] \in {Nil, "active", "revoked"} /\ InRecords(WranglerID(Who[b]))
  BY ClearanceAssumption DEF TypeOK, Known
<1> QED BY <1>1, IDFields DEF InRecords, Untouched

\* A request that is to bring a good cookie does so, if the session is not ended.
LEMMA ComingStays ==
  ASSUME TypeOK, Ledger, [Next]_vars, NEW b \in Browsers \ ended, b \notin ended',
         NEW n \in Numbers, Coming(n, b)
  PROVE  Coming(n, b)' \/ (cookie'[b] = n /\ Good(n, b)')
<1>0. /\ Numbered /\ TokensSpent /\ Persona /\ Known /\ Untouched(b) /\ Present(b) /\ AllGood(b)
      /\ request[n].browser = b /\ ~Restart /\ boot' = boot
  BY EndedSteps, RecordSteps DEF Ledger, Tokens, Lives, Coming
<1>1. \A p : WranglerID(p)' = WranglerID(p)
  BY <1>0 DEF WranglerID
<1>2. AllGood(b)'
  BY <1>0, AllGoodStep
<1>3. request[n] \in Request /\ request[n] # Free
  BY <1>0, ClearanceAssumption DEF TypeOK, Free
<1>4. CASE request'[n] = request[n]
  <2>1. CASE Issuing(request[n])
    BY <1>0, <1>2, <1>4, <2>1 DEF AllGood
  <2>2. CASE ~Issuing(request[n])
    <3>1. request[n].kind = "refresh" /\ request[n].step = "check" /\ request[n].id = WranglerID(Who[b])
      BY <1>3, <2>2, Fields DEF Coming, Issuing, Deletes
    <3> QED  BY <1>0, <1>1, <1>4, <3>1 DEF Coming
  <2> QED  BY <2>1, <2>2
<1>5. CASE Handler(n) /\ request[n].step = "check" /\ request[n].kind = "refresh"
  <2>1. request[n].id = WranglerID(Who[b]) /\ Knows(request[n])
    BY <1>5 DEF Coming, Issuing, Knows
  <2>2. Check(n)
    <3>1. ~Callback(n)
      BY <1>0, <1>3 DEF Callback, Numbered
    <3>2. ~(\/ Exchange(n) \/ Verify(n) \/ Fetch(n) \/ Import(n) \/ Complete(n) \/ TurnAway(n)
            \/ Store(n) \/ Get(n) \/ Del(n) \/ Scan(n) \/ Remove(n) \/ Removed(n))
      BY <1>5 DEF Exchange, Verify, Fetch, Import, Complete, TurnAway, Store, Get, Del, Scan,
           Remove, Removed, At
    <3>3. ~(Arrive(n) \/ ArriveDeleted(n) \/ ArriveRefused(n) \/ AnswerLost(n))
      BY <1>5 DEF Arrive, ArriveDeleted, ArriveRefused, AnswerLost
    <3> QED  BY <1>5, <3>1, <3>2, <3>3 DEF Handler
  <2>3. record[Who[b]] = "active"
    BY <1>0, <2>1, StillActive
  <2>4. Goes(n, "store") /\ request'[n].jwt = Issued(request[n].id)
    BY <2>1, <2>2, <2>3, CheckDoes, IDFields
  <2> QED  BY <1>0, <1>1, <2>1, <2>4, IDFields DEF Goes, Coming
<1>6. CASE Handler(n) /\ request[n].step = "store"
  <2>1. Store(n)
    <3>1. ~Callback(n)
      BY <1>0, <1>3 DEF Callback, Numbered
    <3>2. ~(\/ Exchange(n) \/ Verify(n) \/ Fetch(n) \/ Import(n) \/ Complete(n) \/ TurnAway(n)
            \/ Check(n) \/ Get(n) \/ Del(n) \/ Scan(n) \/ Remove(n) \/ Removed(n))
      BY <1>6 DEF Exchange, Verify, Fetch, Import, Complete, TurnAway, Check, Get, Del, Scan,
           Remove, Removed, At
    <3>3. ~(Arrive(n) \/ ArriveDeleted(n) \/ ArriveRefused(n) \/ AnswerLost(n))
      BY <1>6 DEF Arrive, ArriveDeleted, ArriveRefused, AnswerLost
    <3> QED  BY <1>6, <3>1, <3>2, <3>3 DEF Handler
  <2>2. Keeps(n, "ok")
    BY <1>0, <2>1, StoreDoes
  <2>3. Issuing(request'[n]) /\ request'[n].browser = b
    BY <1>0, <2>1, <2>2, StoreDoes DEF Keeps, Goes, Issuing
  <2> QED  BY <1>2, <2>3 DEF AllGood
<1>7. CASE Handler(n) /\ request[n].step = "ok"
  <2>1. Issuing(request[n]) /\ Good(n, b) /\ ~request[n].stale
    BY <1>0, <1>7 DEF Coming, Present
  <2>2. Arrive(n)
    <3>1. ~Callback(n)
      BY <1>0, <1>3 DEF Callback, Numbered
    <3>2. ~(\/ Exchange(n) \/ Verify(n) \/ Fetch(n) \/ Import(n) \/ Complete(n) \/ TurnAway(n)
            \/ Store(n) \/ Check(n) \/ Get(n) \/ Del(n) \/ Scan(n) \/ Remove(n) \/ Removed(n))
      BY <1>7 DEF Exchange, Verify, Fetch, Import, Complete, TurnAway, Store, Check, Get, Del, Scan,
           Remove, Removed, At
    <3>3. ~ArriveDeleted(n) /\ ~ArriveRefused(n) /\ ~AnswerLost(n)
      BY <1>0, <1>7, <2>1 DEF ArriveDeleted, ArriveRefused, AnswerLost, Issuing
    <3> QED  BY <1>7, <3>1, <3>2, <3>3 DEF Handler
  <2>3. cookie'[b] = n /\ UNCHANGED sessions
    BY <1>0, <2>1, <2>2 DEF Arrive, SetCookie, TypeOK
  <2> QED  BY <1>1, <2>1, <2>3 DEF Good
<1>8. request[n].step \in {"store", "ok"} \/ (request[n].kind = "refresh" /\ request[n].step = "check")
  BY DEF Coming
<1> QED BY <1>0, <1>3, <1>4, <1>5, <1>6, <1>7, <1>8, Moves, StaysThere DEF Begins

\* A refresh that deletes the token of b's cookie is b's, and goes on with the session it was.
LEMMA HasCookieStep ==
  ASSUME TypeOK, Ledger, [Next]_vars, NEW b \in Browsers \ ended, b \notin ended'
  PROVE  HasCookie(b)'
<1> SUFFICES ASSUME cookie'[b] # Nil
             PROVE  Good(cookie[b], b)' \/ \E n \in Numbers : Coming(n, b)'
  BY DEF HasCookie
<1>0. /\ Numbered /\ TokensSpent /\ Owners /\ ReadRight /\ Untouched(b) /\ AllGood(b)
      /\ HasCookie(b) /\ ~Restart /\ boot' = boot
  BY EndedSteps, RecordSteps DEF Ledger, Tokens, Lives
<1>1. \A p : WranglerID(p)' = WranglerID(p)
  BY <1>0 DEF WranglerID
<1>2. ASSUME NEW n \in Numbers, Issuing(request[n]), request[n].step = "ok",
             request[n].browser = b, cookie'[b] = n, UNCHANGED sessions
      PROVE  Good(cookie[b], b)'
  <2>1. Good(n, b)
    BY <1>0, <1>2 DEF AllGood, Coming
  <2> QED  BY <1>1, <1>2, <2>1 DEF Good
<1>3. ASSUME NEW n \in Numbers, cookie'[b] = n, Good(n, b)' PROVE Good(cookie[b], b)'
  BY <1>3 DEF Good
<1>4. CASE cookie'[b] = cookie[b]
  <2>1. CASE \E n \in Numbers : Coming(n, b)
    BY <1>3, <2>1, ComingStays
  <2>2. CASE Good(cookie[b], b) /\ \A m \in Numbers : Del(m) => request[m].token # cookie[b]
    <3>1. PICK t : t = cookie[b]
      OBVIOUS
    <3>2. Good(t, b)'
      BY <1>0, <2>2, <3>1, GoodStays
    <3> QED  BY <1>4, <3>1, <3>2 DEF Good
  <2>3. ASSUME NEW m \in Numbers, Good(cookie[b], b), Del(m), request[m].token = cookie[b]
        PROVE  Coming(m, b)'
    <3>1. Reads(request[m]) /\ Knows(request[m]) /\ request[m].kind = "refresh" /\
          request[m].step = "del"
      BY <2>3 DEF Del, At, Reads, Knows
    <3>2. request[m].browser = b
      BY <1>0, <2>3, <3>1 DEF Owners
    <3>3. request[m].id = WranglerID(Who[b])
      BY <1>0, <2>3, <3>1 DEF ReadRight, Good
    <3>4. Keeps(m, "check")
      BY <2>3, <3>2, DelDoes
    <3> QED  BY <1>1, <3>1, <3>2, <3>3, <3>4 DEF Keeps, Goes, Same, Coming
  <2> QED  BY <1>0, <1>4, <2>1, <2>2, <2>3 DEF HasCookie
<1> QED BY <1>2, <1>4, CookieSteps

\* A login that begins a session of its own.
LEMMA RebornLives ==
  ASSUME TypeOK, [Next]_vars, NEW b \in Browsers, NEW n \in Numbers, Reborn(n, b)
  PROVE  (Untouched(b) /\ Present(b) /\ AllGood(b) /\ HasCookie(b))'
<1>1. /\ Goes(n, "store") /\ request[n].browser = b /\ boot' = boot
      /\ request'[n].jwt.id = WranglerID(Who[b]) /\ InFlight(b) = {n} /\ ~request[n].stale
      /\ request[n].kind = "login"
  BY CompleteDoes, IDFields DEF Reborn, Complete, Others, At
<1>2. \A m \in Numbers : m # n => request'[m] = request[m] /\ request'[m].browser # b
  BY <1>1 DEF Goes, Only, InFlight
<1>3. record'[Who[b]] = "active"
  BY <1>1, ClearanceAssumption DEF Reborn, Complete, TypeOK
<1>4. Untouched(b)'
  <2>1. ~Deletes(request'[n])
    BY <1>1 DEF Goes, Deletes
  <2> QED  BY <1>2, <1>3, <2>1 DEF Untouched, Reborn
<1>5. Present(b)'
  BY <1>1, <1>2 DEF Present, Goes
<1>6. Coming(n, b)'
  BY <1>1 DEF Coming, Goes, WranglerID
<1>7. AllGood(b)'
  BY <1>2, <1>6 DEF AllGood
<1>8. HasCookie(b)'
  BY <1>6 DEF HasCookie
<1> QED BY <1>4, <1>5, <1>7, <1>8

LEMMA LivesStep ==
  ASSUME TypeOK, Ledger, [Next]_vars
  PROVE  Lives'
<1>1. ASSUME NEW b \in Browsers, b \notin ended'
      PROVE  (Untouched(b) /\ Present(b) /\ AllGood(b) /\ HasCookie(b))'
  <2>1. CASE b \notin ended
    <3>1. /\ Numbered /\ TokensSpent /\ Persona /\ Untouched(b) /\ Present(b) /\ AllGood(b)
      BY <1>1, <2>1 DEF Ledger, Tokens, Lives
    <3> QED  BY <1>1, <2>1, <3>1, UntouchedStep, PresentStep, AllGoodStep, HasCookieStep
  <2>2. ASSUME NEW n \in Numbers, Reborn(n, b)
        PROVE  (Untouched(b) /\ Present(b) /\ AllGood(b) /\ HasCookie(b))'
    BY <2>2, RebornLives
  <2> QED  BY <1>1, <2>1, <2>2, EndedSteps
<1> QED BY <1>1 DEF Lives

LEMMA LedgerInit == Init => Ledger
<1> SUFFICES ASSUME Init PROVE Ledger
  OBVIOUS
<1>1. Tokens
  BY TokensInit
<1>2. sessions = {} /\ \A n \in Numbers : request[n] = Free
  BY DEF Init
<1>3. \A b \in Browsers : cookie[b] = Nil /\ jwt[b] = Nil
  BY DEF Init
<1>4. TokensSpent /\ ReadRight /\ Known /\ Persona
  BY <1>2, <1>3 DEF TokensSpent, ReadRight, Known, Persona, Reads, Knows, Issuing, Free
<1>5. Owners
  BY <1>2, <1>3 DEF Owners, Reads, Free
<1>6. Lives
  <2>1. ASSUME NEW b \in Browsers PROVE Untouched(b) /\ Present(b) /\ AllGood(b) /\ HasCookie(b)
    <3>1. record[Who[b]] # "revoked"
      BY ClearanceAssumption DEF Init
    <3> QED  BY <1>2, <1>3, <3>1 DEF Untouched, Present, AllGood, HasCookie, Deletes, Issuing, Free
  <2> QED  BY <2>1 DEF Lives
<1> QED BY <1>1, <1>4, <1>5, <1>6 DEF Ledger

LEMMA LedgerStep ==
  ASSUME TypeOK, Ledger, [Next]_vars
  PROVE  Ledger'
<1>1. Tokens /\ Numbered
  BY DEF Ledger, Tokens
<1>2. Tokens'
  BY <1>1, NumberedStep, TokensNewStep, OneIDStep, DeletingStep, DeletedIsGoneStep DEF Tokens
<1>3. TokensSpent' /\ Owners'
  BY <1>1, TokensSpentStep, OwnersStep DEF Ledger
<1>4. Persona' /\ ReadRight' /\ Known'
  BY <1>1, PersonaStep, ReadRightStep, KnownStep DEF Ledger
<1>5. Lives'
  BY LivesStep
<1> QED BY <1>2, <1>3, <1>4, <1>5 DEF Ledger

\* A browser whose session was not ended, and which waits for nothing, has a cookie that Redis
\* knows, or none: a token is deleted by a refresh of the same browser, which will bring another.
THEOREM SessionsAreKept == Spec => []SessionIsKept
<1>1. Ledger => SessionIsKept
  <2> SUFFICES ASSUME Ledger, NEW b \in Browsers, b \notin ended, cookie[b] # Nil, InFlight(b) = {}
               PROVE  \E s \in sessions : s.token = cookie[b]
    BY DEF SessionIsKept
  <2>1. HasCookie(b) /\ \A n \in Numbers : ~Coming(n, b)
    BY DEF Ledger, Lives, InFlight, Coming
  <2>2. Good(cookie[b], b)
    BY <2>1 DEF HasCookie
  <2> QED  BY <2>2 DEF Good
<1>2. TypeOK /\ Ledger /\ [Next]_vars => Ledger'
  BY LedgerStep
<1> QED BY LedgerInit, <1>1, <1>2, SessionsTypeCorrect, PTL DEF Spec

-----------------------------------------------------------------------------
(* A page that is left alone keeps its JWT                                  *)

\* Of a browser whose refreshes did not overlap: one refresh at a time, which reads a good
\* token, and a JWT for its cookie or one on its way.
Single(b) ==
  \A m, n \in Numbers :
    /\ request[m].kind = "refresh" /\ request[m].browser = b
    /\ request[n].kind = "refresh" /\ request[n].browser = b
    => m = n
Refreshing(b) ==
  \A n \in Numbers : request[n].kind = "refresh" /\ request[n].browser = b =>
    /\ request[n].step # "refused"
    /\ request[n].step = "get" => Good(request[n].token, b)
    /\ Knows(request[n]) => request[n].id = WranglerID(Who[b])
LoggingIn(n, b) == request[n].kind = "login" /\ request[n].browser = b /\ Issuing(request[n])
HasJWT(b) == cookie[b] # Nil => jwt[b] # Nil \/ \E n \in Numbers : LoggingIn(n, b)
Alone ==
  \A b \in Browsers \ (ended \cup overlapped) : Single(b) /\ Refreshing(b) /\ HasJWT(b)

LEMMA BeginsAlone ==
  ASSUME TypeOK, Numbered, [Next]_vars, NEW b \in Browsers, b \notin ended', b \notin overlapped',
         NEW n \in Numbers, Begins(n), request'[n].browser = b
  PROVE  /\ InFlight(b) = {} /\ request'[n].step = "get" /\ request'[n].token = cookie[b]
         /\ Refresh(b)
<1>1. request'[n].kind = "refresh" /\ request'[n].step = "get"
  BY BeginsFresh
<1>2. Reads(request'[n]) /\ ~Reads(request[n])
  BY <1>1 DEF Reads, Begins, Free
<1>3. Refresh(b) /\ request'[n].token = cookie[b]
  BY <1>2, ReadsSteps
<1> QED BY <1>1, <1>3, EndedSteps

LEMMA SingleStep ==
  ASSUME TypeOK, Numbered, [Next]_vars, NEW b \in Browsers, b \notin ended', b \notin overlapped',
         Single(b)
  PROVE  Single(b)'
<1> SUFFICES ASSUME NEW m \in Numbers, NEW n \in Numbers,
                    request'[m].kind = "refresh", request'[m].browser = b,
                    request'[n].kind = "refresh", request'[n].browser = b
             PROVE  m = n
  BY DEF Single
<1> DEFINE Old(k) == request[k].kind = "refresh" /\ request[k].browser = b
<1>1. Old(m) \/ Begins(m)
  BY Persists DEF Free
<1>2. Old(n) \/ Begins(n)
  BY Persists DEF Free
<1>3. Begins(m) \/ Begins(n) => ~Old(m) /\ ~Old(n)
  BY BeginsAlone DEF InFlight
<1>4. CASE Old(m) /\ Old(n)
  BY <1>4 DEF Single
<1>5. CASE Begins(m) /\ Begins(n)
  BY <1>5 DEF Begins
<1> QED BY <1>1, <1>2, <1>3, <1>4, <1>5

LEMMA RefreshingStep ==
  ASSUME TypeOK, Ledger, [Next]_vars, NEW b \in Browsers, b \notin ended', b \notin overlapped',
         b \notin ended, Single(b), Refreshing(b)
  PROVE  Refreshing(b)'
<1> SUFFICES ASSUME NEW n \in Numbers, request'[n].kind = "refresh", request'[n].browser = b
             PROVE  /\ request'[n].step # "refused"
                    /\ request'[n].step = "get" => Good(request[n].token, b)'
                    /\ Knows(request'[n]) => request'[n].id = WranglerID(Who[b])'
  BY DEF Refreshing
<1>0. /\ Numbered /\ OneID /\ Owners /\ Known /\ Untouched(b) /\ HasCookie(b)
      /\ ~Restart /\ boot' = boot /\ request'[n] # Free
  BY EndedSteps, RecordSteps DEF Ledger, Tokens, Lives, Free
<1>1. WranglerID(Who[b])' = WranglerID(Who[b])
  BY <1>0 DEF WranglerID
<1>2. CASE request'[n] = request[n]
  <2>1. /\ request[n].step # "refused"
        /\ request[n].step = "get" => Good(request[n].token, b)
        /\ Knows(request[n]) => request[n].id = WranglerID(Who[b])
    BY <1>2 DEF Refreshing
  <2>2. ASSUME request[n].step = "get" PROVE Good(request[n].token, b)'
    <3>1. PICK t : t = request[n].token
      OBVIOUS
    <3>2. ASSUME NEW m \in Numbers, Del(m) PROVE request[m].token # t
      <4>1. Reads(request[m]) /\ Reads(request[n]) /\ m # n
        BY <1>2, <2>2, <3>2 DEF Del, At, Reads
      <4>2. request[m].token = t => request[m].browser = b
        BY <1>0, <1>2, <3>1, <4>1 DEF Owners
      <4> QED  BY <1>2, <4>1, <4>2 DEF Single, Reads
    <3>3. Good(t, b)'
      BY <1>0, <2>1, <2>2, <3>1, <3>2, GoodStays
    <3> QED  BY <1>2, <3>1, <3>3 DEF Good
  <2> QED  BY <1>1, <1>2, <2>1, <2>2
<1>3. CASE Begins(n)
  <2>1. /\ InFlight(b) = {} /\ request'[n].step = "get" /\ request'[n].token = cookie[b]
        /\ cookie[b] # Nil /\ sessions' = sessions
    BY <1>0, <1>3, BeginsAlone DEF Refresh
  <2>2. Good(cookie[b], b)
    BY <1>0, <2>1 DEF HasCookie, Coming, InFlight
  <2> QED  BY <1>1, <2>1, <2>2 DEF Good, Knows
<1>4. CASE Handler(n)
  <2>0. ~Callback(n)
    BY CallbackDoes
  <2>1. request[n].kind = "refresh" /\ request[n].browser = b
    BY <1>0, <1>4, <2>0, HandlerKeeps
  <2>2. /\ request[n].step # "refused"
        /\ request[n].step = "get" => Good(request[n].token, b)
        /\ Knows(request[n]) => request[n].id = WranglerID(Who[b])
    BY <2>1 DEF Refreshing
  <2>3. b \notin ended \cup (Browsers \cap {request[n].browser}) => FALSE
    BY <2>1
  <2>4. CASE Get(n)
    <3>1. Good(request[n].token, b)
      BY <2>2, <2>4 DEF Get, At
    <3>2. PICK s \in sessions : s.token = request[n].token /\ request'[n].id = s.id
      BY <2>3, <2>4, <3>1, GetDoes DEF Good
    <3>3. s.id = WranglerID(Who[b])
      BY <1>0, <3>1, <3>2 DEF Good, OneID
    <3>4. request'[n].step = "del"
      BY <2>3, <2>4, <3>1, GetDoes DEF Good, Goes
    <3> QED  BY <1>1, <3>2, <3>3, <3>4
  <2>5. CASE Del(n)
    <3>1. Keeps(n, "check") /\ Knows(request[n])
      BY <2>3, <2>5, DelDoes DEF Del, At, Knows
    <3> QED  BY <1>1, <2>2, <3>1 DEF Keeps, Goes, Same, Knows
  <2>6. CASE Check(n)
    <3>1. Knows(request[n])
      BY <2>6 DEF Check, At, Knows
    <3>2. record[Who[b]] = "active" /\ request[n].id = WranglerID(Who[b])
      BY <1>0, <2>2, <3>1, StillActive
    <3>3. Goes(n, "store")
      BY <2>6, <3>2, CheckDoes, IDFields
    <3> QED  BY <3>3 DEF Goes, Knows
  <2>7. CASE Store(n)
    BY <2>3, <2>7, StoreDoes DEF Keeps, Goes, Knows
  <2>8. ~(Exchange(n) \/ Verify(n) \/ Fetch(n) \/ Import(n) \/ Complete(n) \/ TurnAway(n))
    BY <2>1 DEF Exchange, Verify, Fetch, Import, Complete, TurnAway, At
  <2>9. ~(Scan(n) \/ Remove(n) \/ Removed(n))
    BY <2>1, ScanDoes, RemoveDoes, RemovedDoes DEF Sweeps, Deletes
  <2>10. ~(Arrive(n) \/ ArriveDeleted(n) \/ ArriveRefused(n) \/ AnswerLost(n))
    BY <1>0, <2>3, AnswerDoes DEF AnswerLost
  <2> QED  BY <1>4, <2>0, <2>4, <2>5, <2>6, <2>7, <2>8, <2>9, <2>10 DEF Handler
<1>5. ~Leaves(n) /\ ~Stopped(n)
  BY <1>0, StaysThere DEF Leaves, Same, Stopped
<1> QED BY <1>0, <1>2, <1>3, <1>4, <1>5, Moves

\* The answer to a page that is there leaves it with a JWT.
LEMMA ArrivesHere ==
  ASSUME TypeOK, NEW n \in Numbers, Arrive(n), ~request[n].stale
  PROVE  request[n].browser \in Browsers /\ jwt'[request[n].browser] # Nil
<1>1. request[n] \in Request /\ Issuing(request[n])
  BY DEF Arrive, Issuing, TypeOK
<1>2. request[n].browser \in Browsers /\ request[n].jwt \in JWT
  BY <1>1, Fields DEF Issuing
<1>3. jwt'[request[n].browser] = request[n].jwt
  BY <1>2 DEF Arrive, StoreJWT, TypeOK
<1> QED BY <1>2, <1>3, ClearanceAssumption

LEMMA JWTLost ==
  ASSUME TypeOK, [Next]_vars, NEW b \in Browsers, jwt[b] # Nil, jwt'[b] = Nil
  PROVE  Logout(b) \/ \E n \in Numbers : request[n].step = "refused" /\ request[n].browser = b
<1>1. ~(UNCHANGED vars \/ Tick \/ Sweep \/ Rotate \/ RefreshKeys \/ Restart)
  BY DEF vars, Tick, Sweep, Rotate, RefreshKeys, Restart, client
<1>2. ASSUME NEW c \in Browsers, Authorize(c) \/ Refresh(c)
      PROVE  FALSE
  BY <1>2 DEF Authorize, Refresh, client
<1>3. ASSUME NEW c \in Browsers, Logout(c)
      PROVE  Logout(b)
  BY <1>3, ZenonT(30) DEF Logout, TypeOK
<1>4. ASSUME NEW p \in Persons, Revoke(p)
      PROVE  FALSE
  BY <1>4 DEF Revoke, client
<1>5. ASSUME NEW n \in Numbers, Handler(n)
      PROVE  request[n].step = "refused" /\ request[n].browser = b
  <2>1. ~(Callback(n) \/ AnswerLost(n) \/ ArriveDeleted(n))
    BY DEF Callback, AnswerLost, ArriveDeleted, client
  <2>2. ~Arrive(n)
    <3>1. ASSUME Arrive(n), request[n].browser = b, ~request[n].stale PROVE FALSE
      BY <3>1, ArrivesHere
    <3> QED  BY <3>1 DEF Arrive, StoreJWT, TypeOK
  <2>3. CASE ArriveRefused(n)
    BY <2>3 DEF ArriveRefused, TypeOK
  <2>4. ~(\/ Exchange(n) \/ Verify(n) \/ Fetch(n) \/ Import(n) \/ Complete(n)
          \/ TurnAway(n) \/ Check(n))
    BY DEF Exchange, Verify, Fetch, Import, Complete, TurnAway, Check, Others, client
  <2>5. ~(Store(n) \/ Get(n) \/ Del(n) \/ Scan(n) \/ Remove(n) \/ Removed(n))
    BY DEF Store, Get, Del, Scan, Remove, Removed, Others, client
  <2> QED  BY <1>5, <2>1, <2>2, <2>3, <2>4, <2>5 DEF Handler
<1> QED BY <1>1, <1>2, <1>3, <1>4, <1>5 DEF Next

LEMMA HasJWTStep ==
  ASSUME TypeOK, Ledger, [Next]_vars, NEW b \in Browsers, b \notin ended', b \notin ended,
         Refreshing(b), HasJWT(b)
  PROVE  HasJWT(b)'
<1> SUFFICES ASSUME cookie'[b] # Nil, jwt'[b] = Nil PROVE \E n \in Numbers : LoggingIn(n, b)'
  BY DEF HasJWT
<1>0. Numbered /\ Present(b) /\ ~Restart
  BY EndedSteps DEF Ledger, Tokens, Lives
<1>1. cookie[b] # Nil
  BY <1>0, CookieSteps, ArrivesHere DEF Present
<1>2. jwt[b] = Nil
  <2>1. ASSUME NEW n \in Numbers, request[n].step = "refused", request[n].browser = b PROVE FALSE
    <3>1. request[n].kind = "refresh"
      BY <2>1, Fields, ClearanceAssumption DEF TypeOK, Deletes, Free
    <3> QED  BY <2>1, <3>1 DEF Refreshing
  <2> QED  BY <2>1, JWTLost, EndedSteps
<1>3. PICK n \in Numbers : LoggingIn(n, b)
  BY <1>1, <1>2 DEF HasJWT
<1>4. LoggingIn(n, b)'
  <2>1. request[n].kind = "login" /\ request[n].browser = b /\ request[n].step \in {"store", "ok"}
        /\ ~request[n].stale /\ request[n] # Free
    BY <1>0, <1>3 DEF LoggingIn, Issuing, Present, Free
  <2>2. CASE request'[n] = request[n]
    BY <1>3, <2>2 DEF LoggingIn
  <2>3. CASE Handler(n)
    <3>1. ~Callback(n)
      BY <1>0, <2>1 DEF Callback, Numbered
    <3>2. ~(\/ Exchange(n) \/ Verify(n) \/ Fetch(n) \/ Import(n) \/ Complete(n) \/ TurnAway(n)
            \/ Check(n) \/ Get(n) \/ Del(n) \/ Scan(n) \/ Remove(n) \/ Removed(n))
      BY <2>1 DEF Exchange, Verify, Fetch, Import, Complete, TurnAway, Check, Get, Del, Scan,
           Remove, Removed, At
    <3>3. ~ArriveDeleted(n) /\ ~ArriveRefused(n) /\ ~AnswerLost(n)
      BY <2>1 DEF ArriveDeleted, ArriveRefused, AnswerLost
    <3>4. ~Arrive(n)
      BY <2>1, ArrivesHere
    <3>5. CASE Store(n)
      BY <2>1, <3>5, StoreDoes DEF Keeps, Goes, LoggingIn, Issuing
    <3> QED  BY <2>3, <3>1, <3>2, <3>3, <3>4, <3>5 DEF Handler
  <2>4. ~Leaves(n) /\ ~Stopped(n) /\ ~Begins(n)
    BY <1>0, <2>1, StaysThere DEF Begins
  <2> QED  BY <1>0, <2>2, <2>3, <2>4, Moves
<1> QED BY <1>4

LEMMA RebornAlone ==
  ASSUME TypeOK, [Next]_vars, NEW b \in Browsers, NEW n \in Numbers, Reborn(n, b)
  PROVE  (Single(b) /\ Refreshing(b) /\ HasJWT(b))'
<1>1. /\ Goes(n, "store") /\ request[n].browser = b /\ InFlight(b) = {n}
      /\ request[n].kind = "login"
  BY CompleteDoes DEF Reborn, Complete, At
<1>2. \A m \in Numbers : m # n => request'[m].browser # b
  BY <1>1 DEF Goes, Only, InFlight
<1>3. request'[n].kind = "login" /\ LoggingIn(n, b)'
  BY <1>1 DEF Goes, LoggingIn, Issuing
<1> QED BY <1>2, <1>3 DEF Single, Refreshing, HasJWT

LEMMA AloneStep ==
  ASSUME TypeOK, Ledger, Alone, [Next]_vars
  PROVE  Alone'
<1>1. ASSUME NEW b \in Browsers, b \notin ended', b \notin overlapped'
      PROVE  (Single(b) /\ Refreshing(b) /\ HasJWT(b))'
  <2>1. CASE b \notin ended /\ b \notin overlapped
    <3>1. Numbered /\ Single(b) /\ Refreshing(b) /\ HasJWT(b)
      BY <1>1, <2>1 DEF Ledger, Tokens, Alone
    <3> QED  BY <1>1, <2>1, <3>1, SingleStep, RefreshingStep, HasJWTStep
  <2>2. ASSUME NEW n \in Numbers, Reborn(n, b)
        PROVE  (Single(b) /\ Refreshing(b) /\ HasJWT(b))'
    BY <2>2, RebornAlone
  <2> QED  BY <1>1, <2>1, <2>2, EndedSteps
<1> QED BY <1>1 DEF Alone

\* A page with a session loses its JWT only when the session was ended or its own refreshes
\* overlapped: a refresh alone finds the token it was sent with, and its record, and is not refused.
THEOREM LogoutsHaveReasons == Spec => []LoggedOutForAReason
<1>1. Init => Alone
  BY DEF Init, Alone, Single, Refreshing, HasJWT, Free
<1>2. TypeOK /\ Ledger /\ Alone /\ [Next]_vars => (Ledger /\ Alone)'
  BY LedgerStep, AloneStep
<1>3. Alone => LoggedOutForAReason
  BY DEF Alone, HasJWT, LoggingIn, LoggedOutForAReason, InFlight
<1> QED BY LedgerInit, <1>1, <1>2, <1>3, SessionsTypeCorrect, PTL DEF Spec
=============================================================================
