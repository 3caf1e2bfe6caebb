-------------------------- MODULE ServiceProxyProofs --------------------------
(***************************************************************************)
(* What the service proxies keep of their registry, of the requests on     *)
(* their way and of the answers in the cache, for all services, requests   *)
(* and URLs, and for every number of calls.                                *)
(***************************************************************************)
EXTENDS ServiceProxy, SequenceTheorems, FiniteSetTheorems, TLAPS

(* An instance in the registry has its route; without one a service that   *)
(* was never dropped has no route at all, so that a creation makes its     *)
(* first.                                                                  *)
Unrouted(n) == \A k \in DOMAIN routes : routes[k].name # n

RegistryInv ==
    /\ \A n \in Names : services[n].is = "proxied" => services[n].instance \in DOMAIN routes
    /\ RegisteredServes
    /\ \A n \in Names \ dropped : services[n].is # "proxied" => Unrouted(n)

(* A request on its way has an instance, which loses no middleware, and no *)
(* answer of the cache.                                                    *)
OnItsWay(q) ==
    q.at # "free" =>
        /\ q.hit = {}
        /\ q.instance \in DOMAIN routes
        /\ q.had <= routes[q.instance].middlewares
        /\ q.at # "middleware" => q.next >= q.had

(* Every request, if it is on its way.                                     *)
RequestsInv == \A r \in Requests : OnItsWay(req[r])

(* An answer that is or was in the cache is one with status 200 that an    *)
(* instance with a cache let pass.                                         *)
Proper(a) ==
    /\ a.ok
    /\ \E k \in CachingInstances : a.name = routes[k].name /\ Passes(k, a.method)

(* What is in the cache, and what requests got from it.                    *)
AnswersInv ==
    /\ \A u \in Urls : \A a \in cached[u] : Proper(a)
    /\ \A r \in Requests : \A a \in req[r].hit : Proper(a)

(* The inductive invariant.                                                *)
Inv ==
    /\ TypeOK
    /\ RegistryInv
    /\ RequestsInv
    /\ AnswersInv

-----------------------------------------------------------------------------
(* Routes are added only, and instances get further middlewares only.      *)
Kept ==
    \A k \in DOMAIN routes :
        /\ k \in DOMAIN routes'
        /\ routes'[k].name = routes[k].name
        /\ routes'[k].options = routes[k].options
        /\ routes[k].middlewares <= routes'[k].middlewares

(* What is true of an instance stays true of it, ...                       *)
LEMMA KeptOnItsWay ==
    ASSUME TypeOK, routes' \in Seq(Instance), Kept, NEW q \in Request, OnItsWay(q)
    PROVE  OnItsWay(q)'
<1> SUFFICES ASSUME q.at # "free"
             PROVE  OnItsWay(q)'
  BY DEF OnItsWay
<1>1. q.instance \in DOMAIN routes /\ q.had <= routes[q.instance].middlewares
  BY DEF OnItsWay
<1>2. routes[q.instance] \in Instance
  BY <1>1 DEF TypeOK
<1>3. q.instance \in DOMAIN routes' /\ routes[q.instance].middlewares <= routes'[q.instance].middlewares
  BY <1>1 DEF Kept
<1>4. routes'[q.instance] \in Instance
  BY <1>3
<1>5. q.had \in Nat /\ routes[q.instance].middlewares \in Nat /\ routes'[q.instance].middlewares \in Nat
  BY <1>2, <1>4 DEF Request, Instance
<1>6. QED
  BY <1>1, <1>3, <1>5 DEF OnItsWay

(* ... and so does what is true of an answer that came from one.           *)
LEMMA KeptProper ==
    ASSUME Kept, NEW a, Proper(a)
    PROVE  Proper(a)'
<1>1. PICK k \in CachingInstances : a.name = routes[k].name /\ Passes(k, a.method)
  BY DEF Proper
<1>2. k \in CachingInstances' /\ a.name = routes'[k].name /\ Passes(k, a.method)'
  BY <1>1 DEF Kept, CachingInstances, Caches, Passes
<1>3. QED
  BY <1>2 DEF Proper

(* A request that is at nothing.                                           *)
LEMMA FreeFacts ==
    /\ Free \in Request
    /\ Free.at = "free"
    /\ Free.hit = {}
<1>1. Free.url \in Urls
  BY UrlsAssumption DEF Free
<1>2. QED
  BY <1>1 DEF Free, Request, Methods

(* A request with an instance, on its way through the middlewares.         *)
Walking(q) ==
    /\ q \in Request
    /\ q.instance \in DOMAIN routes
    /\ q.had <= routes[q.instance].middlewares
    /\ q.at = "middleware"
    /\ q.hit = {}

(* The next middleware, or what follows the last one.                      *)
LEMMA WalkFacts ==
    ASSUME TypeOK, NEW q, Walking(q), NEW i \in Nat, NEW authorized \in BOOLEAN
    PROVE  LET w == Walk(q, i, authorized) IN
           w \in Request /\ OnItsWay(w) /\ w.hit = {}
<1> DEFINE n == [q EXCEPT !.next = i]
           w == Walk(q, i, authorized)
<1>0. routes[q.instance] \in Instance
  BY DEF TypeOK, Walking
<1>1. /\ n \in Request /\ n.at = "middleware" /\ n.hit = {} /\ n.next = i
      /\ n.instance = q.instance /\ n.had = q.had
  BY DEF Walking, Request
<1> HIDE DEF n
<1>2. CASE More(q, i)
  <2>1. w = n
    BY <1>2 DEF Walk, n
  <2>2. QED
    BY <1>1, <2>1 DEF OnItsWay, Walking
<1>3. CASE ~More(q, i)
  <2>1. w = Processed(n, authorized)
    BY <1>3 DEF Walk, n
  <2>2. q.had \in Nat /\ routes[q.instance].middlewares \in Nat
    BY <1>0 DEF Walking, Request, Instance
  <2>3. i >= q.had
    BY <1>3, <2>2 DEF More, Walking
  <2>4. CASE ~authorized
    BY <2>1, <2>4, FreeFacts DEF Processed, OnItsWay
  <2>5. ASSUME NEW at \in {"lookup", "service"}, w = [n EXCEPT !.at = at]
        PROVE  w \in Request /\ OnItsWay(w) /\ w.hit = {}
    <3>1. /\ w \in Request /\ w.at = at /\ w.hit = {} /\ w.next = i
          /\ w.instance = q.instance /\ w.had = q.had
      BY <1>1, <2>5 DEF Request
    <3> HIDE DEF w
    <3>2. QED
      BY <2>3, <3>1 DEF OnItsWay, Walking
  <2>6. authorized => \E at \in {"lookup", "service"} : w = [n EXCEPT !.at = at]
    BY <2>1 DEF Processed
  <2>7. QED
    BY <2>4, <2>5, <2>6
<1>4. QED
  BY <1>2, <1>3

-----------------------------------------------------------------------------

(* What a request becomes: of its type, on its way, and with answers that  *)
(* came from the cache.                                                    *)
Sound(q) ==
    /\ q \in Request
    /\ OnItsWay(q)
    /\ \A a \in q.hit : Proper(a)

(* A request moves and the registry does not.                              *)
LEMMA MoveKeeps ==
    ASSUME Inv, NEW r \in Requests, NEW q, Sound(q), req' = [req EXCEPT ![r] = q],
           UNCHANGED registryVars,
           \/ UNCHANGED cached
           \/ /\ cached' \in [Urls -> SUBSET Answer]
              /\ \A u \in Urls : Cardinality(cached'[u]) <= 1
              /\ \A u \in Urls : \A a \in cached'[u] : Proper(a)
    PROVE  Inv'
<1>1. /\ services' = services /\ order' = order /\ routes' = routes
      /\ dropped' = dropped /\ calls' = calls /\ up' = up
  BY DEF registryVars
<1>2. req' \in [Requests -> Request] /\ \A s \in Requests : req'[s] = IF s = r THEN q ELSE req[s]
  BY DEF Inv, TypeOK, Sound
<1>3. /\ cached' \in [Urls -> SUBSET Answer]
      /\ \A u \in Urls : Cardinality(cached'[u]) <= 1
      /\ \A u \in Urls : \A a \in cached'[u] : Proper(a)
  BY DEF Inv, TypeOK, AnswersInv
<1>4. TypeOK'
  BY <1>1, <1>2, <1>3 DEF Inv, TypeOK
<1>5. RegistryInv'
  BY <1>1 DEF Inv, RegistryInv, RegisteredServes, Serves, Unrouted
<1>6. \A p : OnItsWay(p) => OnItsWay(p)'
  BY <1>1 DEF OnItsWay
<1>7. RequestsInv'
  BY <1>2, <1>6 DEF Inv, RequestsInv, Sound, OnItsWay
<1>8. \A a : Proper(a) => Proper(a)'
  BY <1>1 DEF Proper, CachingInstances, Passes, Caches
<1>9. AnswersInv'
  BY <1>2, <1>3, <1>8 DEF Inv, AnswersInv, Sound
<1>10. QED
  BY <1>4, <1>5, <1>7, <1>9 DEF Inv

(* Nothing is kept of a request that is over.                              *)
LEMMA FreeSound == Sound(Free)
BY FreeFacts DEF Sound, OnItsWay

-----------------------------------------------------------------------------

(* A request comes, and every step that it takes from there keeps the      *)
(* invariant: through the middlewares, ...                                 *)
LEMMA ReceiveKeeps ==
    ASSUME Inv, NEW r \in Requests, NEW n \in Names, NEW m \in Methods, NEW u \in Urls,
           NEW authorized \in BOOLEAN, Receive(r, n, m, u, authorized)
    PROVE  Inv'
<1>1. PICK k \in DOMAIN routes :
          LET q == [Free EXCEPT !.at = "middleware", !.instance = k, !.method = m,
                                !.url = u, !.had = routes[k].middlewares]
          IN  req' = [req EXCEPT ![r] = Walk(q, 0, authorized)]
  BY DEF Receive
<1> DEFINE q == [Free EXCEPT !.at = "middleware", !.instance = k, !.method = m,
                             !.url = u, !.had = routes[k].middlewares]
           w == Walk(q, 0, authorized)
<1>2. routes[k] \in Instance /\ k \in Nat
  BY DEF Inv, TypeOK
<1>3. routes[k].middlewares \in Nat
  BY <1>2 DEF Instance
<1>4. /\ q \in Request /\ q.at = "middleware" /\ q.instance = k
      /\ q.had = routes[k].middlewares /\ q.hit = {}
  BY <1>2, <1>3, FreeFacts DEF Request
<1>5. req' = [req EXCEPT ![r] = w]
  BY <1>1
<1> HIDE DEF q
<1>6. Walking(q)
  BY <1>3, <1>4 DEF Walking
<1>7. w \in Request /\ OnItsWay(w) /\ w.hit = {}
  BY <1>6, WalkFacts DEF Inv
<1> HIDE DEF w
<1>8. Sound(w)
  BY <1>7 DEF Sound
<1>9. UNCHANGED registryVars /\ UNCHANGED cached
  BY DEF Receive
<1>10. QED
  BY <1>5, <1>8, <1>9, MoveKeeps

(* ... one of which fails or is done, ...                                  *)
LEMMA MiddlewareKeeps ==
    ASSUME Inv, NEW r \in Requests, NEW authorized \in BOOLEAN,
           MiddlewareFails(r) \/ MiddlewareDone(r, authorized)
    PROVE  Inv'
<1>1. req[r].at = "middleware" /\ UNCHANGED registryVars /\ UNCHANGED cached
  BY DEF MiddlewareFails, MiddlewareDone
<1>2. CASE MiddlewareFails(r)
  BY <1>1, <1>2, FreeSound, MoveKeeps DEF MiddlewareFails
<1>3. CASE MiddlewareDone(r, authorized)
  <2> DEFINE w == Walk(req[r], req[r].next + 1, authorized)
  <2>1. req' = [req EXCEPT ![r] = w]
    BY <1>3 DEF MiddlewareDone, Inv, TypeOK
  <2>2. req[r] \in Request /\ req[r].next \in Nat
    BY DEF Inv, TypeOK, Request
  <2>3. Walking(req[r])
    BY <1>1, <2>2 DEF Inv, RequestsInv, OnItsWay, Walking
  <2>4. w \in Request /\ OnItsWay(w) /\ w.hit = {}
    BY <2>2, <2>3, WalkFacts DEF Inv
  <2> HIDE DEF w
  <2>5. Sound(w)
    BY <2>4 DEF Sound
  <2>6. QED
    BY <1>1, <2>1, <2>5, MoveKeeps
<1>4. QED
  BY <1>2, <1>3

(* ... to the cache, whose answers are proper, ...                         *)
LEMMA LookupKeeps ==
    ASSUME Inv, NEW r \in Requests, Hit(r) \/ Miss(r) \/ FilterHandles(r)
    PROVE  Inv'
<1>1. req[r] \in Request /\ req[r].at = "lookup" /\ OnItsWay(req[r])
  BY DEF Inv, TypeOK, RequestsInv, Hit, Miss, FilterHandles
<1>2. UNCHANGED registryVars /\ UNCHANGED cached
  BY DEF Hit, Miss, FilterHandles
<1>3. CASE Hit(r)
  <2> DEFINE q == [Free EXCEPT !.hit = cached[req[r].url]]
  <2>1. req[r].url \in Urls
    BY <1>1 DEF Request
  <2>2. /\ cached[req[r].url] \in SUBSET Answer
        /\ \A a \in cached[req[r].url] : Proper(a)
    BY <2>1 DEF Inv, TypeOK, AnswersInv
  <2>3. q \in Request /\ q.at = "free" /\ q.hit = cached[req[r].url]
    BY <2>2, FreeFacts DEF Request
  <2>4. req' = [req EXCEPT ![r] = q]
    BY <1>3 DEF Hit
  <2> HIDE DEF q
  <2>5. Sound(q)
    BY <2>2, <2>3 DEF Sound, OnItsWay
  <2>6. QED
    BY <1>2, <2>4, <2>5, MoveKeeps
<1>4. CASE Miss(r)
  <2> DEFINE q == [req[r] EXCEPT !.at = "service"]
  <2>1. /\ q \in Request /\ q.at = "service" /\ q.hit = req[r].hit
        /\ q.instance = req[r].instance /\ q.had = req[r].had /\ q.next = req[r].next
    BY <1>1 DEF Request
  <2>2. req' = [req EXCEPT ![r] = q]
    BY <1>4 DEF Miss, Inv, TypeOK
  <2> HIDE DEF q
  <2>3. Sound(q)
    BY <1>1, <2>1 DEF Sound, OnItsWay, Inv, AnswersInv
  <2>4. QED
    BY <1>2, <2>2, <2>3, MoveKeeps
<1>5. CASE FilterHandles(r)
  <2> DEFINE q == [req[r] EXCEPT !.at = "service", !.itself = TRUE]
  <2>1. /\ q \in Request /\ q.at = "service" /\ q.hit = req[r].hit
        /\ q.instance = req[r].instance /\ q.had = req[r].had /\ q.next = req[r].next
    BY <1>1 DEF Request
  <2>2. req' = [req EXCEPT ![r] = q]
    BY <1>5 DEF FilterHandles, Inv, TypeOK
  <2> HIDE DEF q
  <2>3. Sound(q)
    BY <1>1, <2>1 DEF Sound, OnItsWay, Inv, AnswersInv
  <2>4. QED
    BY <1>2, <2>2, <2>3, MoveKeeps
<1>6. QED
  BY <1>3, <1>4, <1>5

(* ... and to the service, until its answer is over.                       *)
LEMMA ServiceKeeps ==
    ASSUME Inv, NEW r \in Requests, NEW ok \in BOOLEAN, Refuse(r) \/ Begin(r, ok) \/ BreakOff(r)
    PROVE  Inv'
<1>1. UNCHANGED registryVars /\ UNCHANGED cached
  BY DEF Refuse, Begin, BreakOff
<1>2. CASE Refuse(r) \/ BreakOff(r)
  BY <1>1, <1>2, FreeSound, MoveKeeps DEF Refuse, BreakOff
<1>3. CASE Begin(r, ok)
  <2> DEFINE q == [req[r] EXCEPT !.at = "answer", !.ok = ok]
  <2>1. req[r] \in Request /\ req[r].at = "service" /\ OnItsWay(req[r])
    BY <1>3 DEF Inv, TypeOK, RequestsInv, Begin
  <2>2. /\ q \in Request /\ q.at = "answer" /\ q.hit = req[r].hit
        /\ q.instance = req[r].instance /\ q.had = req[r].had /\ q.next = req[r].next
    BY <2>1 DEF Request
  <2>3. req' = [req EXCEPT ![r] = q]
    BY <1>3 DEF Begin, Inv, TypeOK
  <2> HIDE DEF q
  <2>4. Sound(q)
    BY <2>1, <2>2 DEF Sound, OnItsWay, Inv, AnswersInv
  <2>5. QED
    BY <1>1, <2>3, <2>4, MoveKeeps
<1>4. QED
  BY <1>2, <1>3

(* What goes to the cache is proper.                                       *)
LEMMA EndKeeps ==
    ASSUME Inv, NEW r \in Requests, End(r)
    PROVE  Inv'
<1> DEFINE q == req[r]
           a == [name |-> routes[q.instance].name, method |-> q.method, ok |-> q.ok]
<1>1. q \in Request /\ q.at = "answer" /\ OnItsWay(q)
  BY DEF Inv, TypeOK, RequestsInv, End
<1>2. q.instance \in DOMAIN routes /\ routes[q.instance] \in Instance
  BY <1>1 DEF Inv, TypeOK, OnItsWay
<1>3. q.url \in Urls /\ q.method \in Methods /\ q.ok \in BOOLEAN /\ routes[q.instance].name \in Names
  BY <1>1, <1>2 DEF Request, Instance
<1>4. a \in Answer /\ a.name = routes[q.instance].name /\ a.method = q.method /\ a.ok = q.ok
  BY <1>3 DEF Answer
<1>5. req' = [req EXCEPT ![r] = Free] /\ UNCHANGED registryVars
  BY DEF End
<1>6. cached' = IF Keeps(q) THEN [cached EXCEPT ![q.url] = {a}] ELSE cached
  BY DEF End
<1> HIDE DEF a
<1>7. CASE Keeps(q)
  <2>1. Proper(a)
    BY <1>2, <1>4, <1>7 DEF Keeps, Proper, CachingInstances
  <2>2. cached \in [Urls -> SUBSET Answer] /\ cached' = [cached EXCEPT ![q.url] = {a}]
    BY <1>6, <1>7 DEF Inv, TypeOK
  <2>3. Cardinality({a}) = 1
    BY FS_Singleton
  <2>4. \A u \in Urls : Cardinality(cached'[u]) <= 1
    BY <1>3, <2>2, <2>3 DEF Inv, TypeOK
  <2>5. \A u \in Urls : \A b \in cached'[u] : Proper(b)
    BY <1>3, <2>1, <2>2 DEF Inv, AnswersInv
  <2>6. cached' \in [Urls -> SUBSET Answer]
    BY <1>4, <2>2
  <2>7. QED
    BY <1>5, <2>4, <2>5, <2>6, FreeSound, MoveKeeps
<1>8. CASE ~Keeps(q)
  BY <1>5, <1>6, <1>8, FreeSound, MoveKeeps
<1>9. QED
  BY <1>7, <1>8

(* What the cache forgets is missed by nobody.                             *)
LEMMA ExpireKeeps ==
    ASSUME Inv, NEW u \in Urls, Expire(u)
    PROVE  Inv'
<1>1. /\ services' = services /\ order' = order /\ routes' = routes
      /\ dropped' = dropped /\ calls' = calls /\ up' = up /\ req' = req
  BY DEF Expire, registryVars
<1>2. cached' = [cached EXCEPT ![u] = {}] /\ cached \in [Urls -> SUBSET Answer]
  BY DEF Expire, Inv, TypeOK
<1>3. Cardinality({}) = 0
  BY FS_EmptySet
<1>4. \A v \in Urls : Cardinality(cached'[v]) <= 1
  BY <1>2, <1>3 DEF Inv, TypeOK
<1>5. TypeOK'
  BY <1>1, <1>2, <1>4 DEF Inv, TypeOK
<1>6. RegistryInv' /\ RequestsInv'
  BY <1>1 DEF Inv, RegistryInv, RegisteredServes, Serves, Unrouted, RequestsInv, OnItsWay
<1>7. \A a : Proper(a) => Proper(a)'
  BY <1>1 DEF Proper, CachingInstances, Passes, Caches
<1>8. AnswersInv'
  BY <1>1, <1>2, <1>7 DEF Inv, AnswersInv
<1>9. QED
  BY <1>5, <1>6, <1>8 DEF Inv

-----------------------------------------------------------------------------

(* The registry changes, with further routes or middlewares, and what else *)
(* was promised stays so.                                                  *)
LEMMA RegistryKeeps ==
    ASSUME Inv, routes' \in Seq(Instance), Kept, req' = req, cached' = cached,
           services' \in [Names -> Entry], order' \in Seq(Names), IsInjective(order'),
           ToSet(order') = {n \in Names : services'[n].is # "absent"},
           dropped' \subseteq Names, calls' \in 0 .. MaxCalls, up' = up, RegistryInv'
    PROVE  Inv'
<1>1. TypeOK'
  BY DEF Inv, TypeOK
<1>2. \A r \in Requests : OnItsWay(req[r])'
  BY KeptOnItsWay DEF Inv, TypeOK, RequestsInv
<1>3. RequestsInv'
  BY <1>2 DEF RequestsInv, OnItsWay
<1>4. \A a : Proper(a) => Proper(a)'
  BY KeptProper
<1>5. AnswersInv'
  BY <1>4 DEF Inv, AnswersInv
<1>6. QED
  BY <1>1, <1>3, <1>5 DEF Inv

(* Routes that do not change are kept.                                     *)
LEMMA SameRoutesKept ==
    ASSUME TypeOK, routes' = routes
    PROVE  Kept /\ routes' \in Seq(Instance)
<1>1. \A k \in DOMAIN routes : routes[k].middlewares <= routes[k].middlewares
  <2>1. \A k \in DOMAIN routes : routes[k] \in Instance
    BY DEF TypeOK
  <2>2. QED
    BY <2>1 DEF Instance
<1>2. QED
  BY <1>1 DEF Kept, TypeOK

(* A service becomes known, once.                                          *)
LEMMA KnownFacts ==
    ASSUME TypeOK, NEW n \in Names, Known(n), NEW e \in Entry, e.is # "absent",
           services' = [services EXCEPT ![n] = e]
    PROVE  /\ services' \in [Names -> Entry]
           /\ order' \in Seq(Names)
           /\ IsInjective(order')
           /\ ToSet(order') = {m \in Names : services'[m].is # "absent"}
<1>1. /\ order \in Seq(Names) /\ IsInjective(order) /\ services \in [Names -> Entry]
      /\ ToSet(order) = {m \in Names : services[m].is # "absent"}
  BY DEF TypeOK
<1>2. services' \in [Names -> Entry] /\ \A m \in Names : services'[m] = IF m = n THEN e ELSE services[m]
  BY <1>1
<1>3. {m \in Names : services'[m].is # "absent"} = ToSet(order) \cup {n}
  BY <1>1, <1>2
<1>4. CASE n \in ToSet(order)
  BY <1>1, <1>2, <1>3, <1>4 DEF Known
<1>5. CASE n \notin ToSet(order)
  <2>1. order' = Append(order, n)
    BY <1>5 DEF Known
  <2>2. Len(order) \in Nat /\ DOMAIN order = 1 .. Len(order)
    BY <1>1
  <2>3. /\ order' \in Seq(Names) /\ DOMAIN order' = 1 .. Len(order) + 1
        /\ order'[Len(order) + 1] = n
        /\ \A k \in DOMAIN order : order'[k] = order[k]
    BY <1>1, <2>1, <2>2
  <2>4. \A k \in DOMAIN order' : k = Len(order) + 1 \/ k \in DOMAIN order
    BY <2>2, <2>3
  <2>5. \A k \in DOMAIN order : k \in DOMAIN order' /\ order[k] # n
    BY <1>5, <2>2, <2>3 DEF ToSet
  <2>6. Len(order) + 1 \in DOMAIN order'
    BY <2>2, <2>3
  <2>7. IsInjective(order')
    BY <1>1, <2>3, <2>4, <2>5 DEF IsInjective
  <2>8. ToSet(order') = ToSet(order) \cup {n}
    BY <2>3, <2>4, <2>5, <2>6 DEF ToSet
  <2>9. QED
    BY <1>2, <1>3, <2>3, <2>7, <2>8
<1>6. QED
  BY <1>4, <1>5

(* A new instance has the last route.                                      *)
LEMMA AppendFacts ==
    ASSUME TypeOK, NEW n \in Names, NEW o \in Options, routes' = Append(routes, New(n, o))
    PROVE  /\ Kept
           /\ routes' \in Seq(Instance)
           /\ Len(routes) + 1 \in DOMAIN routes'
           /\ routes'[Len(routes) + 1].name = n
           /\ \A k \in DOMAIN routes : k \in DOMAIN routes' /\ routes'[k] = routes[k]
           /\ \A k \in DOMAIN routes' : k \in DOMAIN routes \/ k = Len(routes) + 1
<1> DEFINE i == New(n, o)
<1>1. i \in Instance /\ i.name = n
  BY DEF New, Instance
<1> HIDE DEF i
<1>2. routes \in Seq(Instance) /\ Len(routes) \in Nat /\ DOMAIN routes = 1 .. Len(routes)
  BY DEF TypeOK
<1>3. /\ routes' \in Seq(Instance) /\ DOMAIN routes' = 1 .. Len(routes) + 1
      /\ routes'[Len(routes) + 1] = i
      /\ \A k \in DOMAIN routes : routes'[k] = routes[k]
  BY <1>1, <1>2 DEF i
<1>4. \A k \in DOMAIN routes : routes[k].middlewares <= routes[k].middlewares
  <2>1. \A k \in DOMAIN routes : routes[k] \in Instance
    BY <1>2
  <2>2. QED
    BY <2>1 DEF Instance
<1>5. \A k \in DOMAIN routes : k \in DOMAIN routes'
  BY <1>2, <1>3
<1>6. Kept
  BY <1>3, <1>4, <1>5 DEF Kept
<1>7. \A k \in DOMAIN routes' : k \in DOMAIN routes \/ k = Len(routes) + 1
  BY <1>2, <1>3
<1>8. Len(routes) + 1 \in DOMAIN routes'
  BY <1>2, <1>3
<1>9. QED
  BY <1>1, <1>3, <1>5, <1>6, <1>7, <1>8

(* A creation gives a service its first route, or none.                    *)
LEMMA CreateProxyInstanceKeeps ==
    ASSUME Inv, NEW n \in Names, NEW o \in Options \cup {"wrong"}, CreateProxyInstance(n, o),
           calls' \in 0 .. MaxCalls, up' = up
    PROVE  Inv'
<1>1. /\ Known(n) /\ services[n].is # "proxied"
      /\ cached' = cached /\ req' = req /\ dropped' = dropped
  BY DEF CreateProxyInstance, MayCreate
<1>2. /\ TypeOK /\ dropped \subseteq Names
      /\ services \in [Names -> Entry]
      /\ \A m \in Names : services[m].is = "proxied" => services[m].instance \in DOMAIN routes
      /\ \A m \in Names \ dropped :
            IF services[m].is = "proxied" THEN Serves(m, services[m].instance) ELSE Unrouted(m)
  BY DEF Inv, TypeOK, RegistryInv, RegisteredServes
<1>3. CASE o = "wrong"
  <2> DEFINE e == [is |-> "bare"]
  <2>1. e \in Entry /\ e.is = "bare"
    BY DEF Entry
  <2>2. services' = [services EXCEPT ![n] = e] /\ routes' = routes
    BY <1>3 DEF CreateProxyInstance
  <2> HIDE DEF e
  <2>3. \A m \in Names : services'[m] = IF m = n THEN e ELSE services[m]
    BY <1>2, <2>2
  <2>4. RegistryInv'
    BY <1>1, <1>2, <2>1, <2>2, <2>3 DEF RegistryInv, RegisteredServes, Serves, Unrouted
  <2>5. Kept /\ routes' \in Seq(Instance)
    BY <1>2, <2>2, SameRoutesKept
  <2>6. /\ services' \in [Names -> Entry] /\ order' \in Seq(Names) /\ IsInjective(order')
        /\ ToSet(order') = {m \in Names : services'[m].is # "absent"}
    BY <1>1, <1>2, <2>1, <2>2, KnownFacts
  <2>7. QED
    BY <1>1, <1>2, <2>4, <2>5, <2>6, RegistryKeeps
<1>4. CASE o # "wrong"
  <2> DEFINE new == Len(routes) + 1
             e == [is |-> "proxied", instance |-> new]
  <2>1. e \in Entry /\ e.is = "proxied" /\ e.instance = new /\ new \in Nat
    <3>1. Len(routes) \in Nat
      BY <1>2 DEF TypeOK
    <3>2. QED
      BY <3>1 DEF Entry
  <2>2. services' = [services EXCEPT ![n] = e] /\ routes' = Append(routes, New(n, o))
    BY <1>4 DEF CreateProxyInstance
  <2>3. /\ Kept /\ routes' \in Seq(Instance)
        /\ new \in DOMAIN routes' /\ routes'[new].name = n
        /\ \A k \in DOMAIN routes : k \in DOMAIN routes' /\ routes'[k] = routes[k]
        /\ \A k \in DOMAIN routes' : k \in DOMAIN routes \/ k = new
    BY <1>2, <1>4, <2>2, AppendFacts
  <2>4. \A k \in DOMAIN routes : \A j \in 1 .. k - 1 : j \in DOMAIN routes
    <3>1. DOMAIN routes = 1 .. Len(routes) /\ Len(routes) \in Nat
      BY <1>2 DEF TypeOK
    <3>2. QED
      BY <3>1
  <2>5. \A j \in 1 .. new - 1 : j \in DOMAIN routes
    BY <1>2 DEF TypeOK
  <2> HIDE DEF e, new
  <2>6. \A m \in Names : services'[m] = IF m = n THEN e ELSE services[m]
    BY <1>2, <2>2
  <2>7. ASSUME NEW m \in Names \ dropped', services'[m].is = "proxied"
        PROVE  Serves(m, services[m].instance)'
    <3>1. CASE m = n
      <4>1. Unrouted(n) /\ services'[m].instance = new
        BY <1>1, <1>2, <2>1, <2>6, <2>7, <3>1
      <4>2. \A j \in 1 .. new - 1 : routes'[j].name # n
        BY <2>3, <2>5, <4>1 DEF Unrouted
      <4>3. QED
        BY <2>3, <3>1, <4>1, <4>2 DEF Serves
    <3>2. CASE m # n
      <4>1. /\ services'[m] = services[m] /\ Serves(m, services[m].instance)
            /\ services[m].instance \in DOMAIN routes
        BY <1>1, <1>2, <2>6, <2>7, <3>2
      <4>2. QED
        BY <2>3, <2>4, <4>1 DEF Serves
    <3>3. QED
      BY <3>1, <3>2
  <2>8. ASSUME NEW m \in Names \ dropped', services'[m].is # "proxied"
        PROVE  Unrouted(m)'
    <3>1. m # n /\ Unrouted(m)
      BY <1>1, <1>2, <2>1, <2>6, <2>8
    <3>2. QED
      BY <2>3, <3>1 DEF Unrouted
  <2>9. \A m \in Names : services'[m].is = "proxied" => services'[m].instance \in DOMAIN routes'
    BY <1>2, <2>1, <2>3, <2>6
  <2>10. RegistryInv'
    BY <2>7, <2>8, <2>9 DEF RegistryInv, RegisteredServes
  <2>11. /\ services' \in [Names -> Entry] /\ order' \in Seq(Names) /\ IsInjective(order')
         /\ ToSet(order') = {m \in Names : services'[m].is # "absent"}
    BY <1>1, <1>2, <2>1, <2>2, KnownFacts
  <2>12. QED
    BY <1>1, <1>2, <2>3, <2>10, <2>11, RegistryKeeps
<1>5. QED
  BY <1>3, <1>4

(* A service is described; an instance that it had is dropped.             *)
LEMMA AddProxiedServicesKeeps ==
    ASSUME Inv, NEW n \in Names, NEW o \in Options \cup {"wrong"}, AddProxiedServices(n, o),
           calls' \in 0 .. MaxCalls, up' = up
    PROVE  Inv'
<1> DEFINE e == [is |-> "described", options |-> o]
<1>1. /\ Known(n) /\ routes' = routes /\ cached' = cached /\ req' = req
      /\ services' = [services EXCEPT ![n] = e]
      /\ dropped' = IF services[n].is = "proxied" THEN dropped \cup {n} ELSE dropped
  BY DEF AddProxiedServices, Drop
<1>2. TypeOK /\ dropped \subseteq Names /\ services \in [Names -> Entry]
  BY DEF Inv, TypeOK
<1>3. e \in Entry /\ e.is = "described"
  BY DEF Entry
<1> HIDE DEF e
<1>4. \A m \in Names : services'[m] = IF m = n THEN e ELSE services[m]
  BY <1>1, <1>2
<1>5. RegistryInv'
  BY <1>1, <1>3, <1>4 DEF Inv, RegistryInv, RegisteredServes, Serves, Unrouted
<1>6. Kept /\ routes' \in Seq(Instance)
  BY <1>1, <1>2, SameRoutesKept
<1>7. /\ services' \in [Names -> Entry] /\ order' \in Seq(Names) /\ IsInjective(order')
      /\ ToSet(order') = {m \in Names : services'[m].is # "absent"}
  BY <1>1, <1>2, <1>3, KnownFacts
<1>8. QED
  BY <1>1, <1>2, <1>5, <1>6, <1>7, RegistryKeeps

(* A sequence without its k-th element.                                    *)
LEMMA RemoveAtFacts ==
    ASSUME NEW S, NEW s \in Seq(S), IsInjective(s), NEW k \in DOMAIN s
    PROVE  /\ RemoveAt(s, k) \in Seq(S)
           /\ IsInjective(RemoveAt(s, k))
           /\ ToSet(RemoveAt(s, k)) = ToSet(s) \ {s[k]}
<1> DEFINE a == SubSeq(s, 1, k - 1)
           b == SubSeq(s, k + 1, Len(s))
           t == RemoveAt(s, k)
<1>0. Len(s) \in Nat /\ DOMAIN s = 1 .. Len(s) /\ k \in 1 .. Len(s)
  OBVIOUS
<1>1. a \in Seq(S) /\ Len(a) = k - 1 /\ \A i \in 1 .. k - 1 : a[i] = s[i]
  BY <1>0
<1>2. b \in Seq(S) /\ Len(b) = Len(s) - k /\ \A i \in 1 .. Len(s) - k : b[i] = s[k + i]
  BY <1>0
<1>3. t = a \o b
  BY DEF RemoveAt
<1> HIDE DEF a, b, t
<1>4. t \in Seq(S) /\ Len(t) = Len(s) - 1
  <2>1. a \o b \in Seq(S) /\ Len(a \o b) = Len(a) + Len(b)
    BY <1>1, <1>2, ConcatProperties
  <2>2. QED
    BY <1>0, <1>1, <1>2, <1>3, <2>1
<1>5. DOMAIN t = 1 .. Len(s) - 1
  BY <1>4
<1>6. ASSUME NEW i \in DOMAIN t
      PROVE  t[i] = IF i < k THEN s[i] ELSE s[i + 1]
  <2>1. i \in 1 .. Len(s) - 1
    BY <1>5
  <2>2. t[i] = IF i <= Len(a) THEN a[i] ELSE b[i - Len(a)]
    BY <1>0, <1>1, <1>2, <1>3, <2>1, ConcatProperties
  <2>3. CASE i < k
    <3>1. i \in 1 .. k - 1 /\ i <= Len(a)
      BY <1>0, <1>1, <2>1, <2>3
    <3>2. QED
      BY <1>1, <2>2, <2>3, <3>1
  <2>4. CASE ~(i < k)
    <3>1. i - Len(a) \in 1 .. Len(s) - k /\ ~(i <= Len(a)) /\ k + (i - Len(a)) = i + 1
      BY <1>0, <1>1, <2>1, <2>4
    <3>2. QED
      BY <1>2, <2>2, <2>4, <3>1
  <2>5. QED
    BY <2>3, <2>4
<1>7. ASSUME NEW i \in DOMAIN t
      PROVE  \E j \in DOMAIN s : j # k /\ t[i] = s[j] /\ (j = i \/ j = i + 1) /\ (i < k <=> j < k)
  <2>1. CASE i < k
    BY <1>0, <1>5, <1>6, <2>1
  <2>2. CASE ~(i < k)
    BY <1>0, <1>5, <1>6, <2>2
  <2>3. QED
    BY <2>1, <2>2
<1>8. ASSUME NEW j \in DOMAIN s, j # k
      PROVE  \E i \in DOMAIN t : t[i] = s[j]
  <2>1. CASE j < k
    BY <1>0, <1>5, <1>6, <1>8, <2>1
  <2>2. CASE ~(j < k)
    <3>1. j - 1 \in DOMAIN t /\ ~(j - 1 < k) /\ j - 1 + 1 = j
      BY <1>0, <1>5, <1>8, <2>2
    <3>2. QED
      BY <1>6, <3>1
  <2>3. QED
    BY <2>1, <2>2
<1>9. IsInjective(t)
  <2> SUFFICES ASSUME NEW i \in DOMAIN t, NEW j \in DOMAIN t, t[i] = t[j]
               PROVE  i = j
    BY DEF IsInjective
  <2>1. PICK x \in DOMAIN s : t[i] = s[x] /\ (x = i \/ x = i + 1) /\ (i < k <=> x < k) /\ x # k
    BY <1>7
  <2>2. PICK y \in DOMAIN s : t[j] = s[y] /\ (y = j \/ y = j + 1) /\ (j < k <=> y < k) /\ y # k
    BY <1>7
  <2>3. x = y
    BY <2>1, <2>2 DEF IsInjective
  <2>4. QED
    <3>1. t[i] = IF i < k THEN s[i] ELSE s[i + 1]
      BY <1>6
    <3>2. t[j] = IF j < k THEN s[j] ELSE s[j + 1]
      BY <1>6
    <3>3. i \in Nat /\ j \in Nat
      BY <1>5
    <3>4. i \in DOMAIN s /\ j \in DOMAIN s /\ i + 1 \in DOMAIN s /\ j + 1 \in DOMAIN s
      BY <1>0, <1>5
    <3>5. (i < k <=> j < k) /\ (IF i < k THEN i ELSE i + 1) = (IF j < k THEN j ELSE j + 1)
      <4>1. (IF i < k THEN i ELSE i + 1) = (IF j < k THEN j ELSE j + 1)
        BY <3>1, <3>2, <3>4 DEF IsInjective
      <4>2. QED
        BY <2>1, <2>2, <2>3, <4>1
    <3>6. QED
      BY <3>3, <3>5
<1>10. ToSet(t) = ToSet(s) \ {s[k]}
  BY <1>7, <1>8 DEF ToSet, IsInjective
<1>11. QED
  BY <1>4, <1>9, <1>10 DEF t

(* A service is removed, and its instance dropped.                         *)
LEMMA RemoveProxiedServiceKeeps ==
    ASSUME Inv, NEW n \in Names, RemoveProxiedService(n), calls' \in 0 .. MaxCalls, up' = up
    PROVE  Inv'
<1> DEFINE e == [is |-> "absent"]
<1>1. /\ routes' = routes /\ cached' = cached /\ req' = req
      /\ services' = [services EXCEPT ![n] = e]
      /\ dropped' = IF services[n].is = "proxied" THEN dropped \cup {n} ELSE dropped
  BY DEF RemoveProxiedService, Drop
<1>2. /\ TypeOK /\ dropped \subseteq Names /\ services \in [Names -> Entry]
      /\ order \in Seq(Names) /\ IsInjective(order)
      /\ ToSet(order) = {m \in Names : services[m].is # "absent"}
  BY DEF Inv, TypeOK
<1>3. e \in Entry /\ e.is = "absent"
  BY DEF Entry
<1> HIDE DEF e
<1>4. \A m \in Names : services'[m] = IF m = n THEN e ELSE services[m]
  BY <1>1, <1>2
<1>5. RegistryInv'
  BY <1>1, <1>3, <1>4 DEF Inv, RegistryInv, RegisteredServes, Serves, Unrouted
<1>6. Kept /\ routes' \in Seq(Instance)
  BY <1>1, <1>2, SameRoutesKept
<1>7. {m \in Names : services'[m].is # "absent"} = ToSet(order) \ {n}
  BY <1>2, <1>3, <1>4
<1>8. order' \in Seq(Names) /\ IsInjective(order') /\ ToSet(order') = ToSet(order) \ {n}
  <2>1. CASE n \notin ToSet(order) /\ order' = order
    BY <1>2, <2>1
  <2>2. ASSUME NEW k \in DOMAIN order, order[k] = n, order' = RemoveAt(order, k)
        PROVE  order' \in Seq(Names) /\ IsInjective(order') /\ ToSet(order') = ToSet(order) \ {n}
    BY <1>2, <2>2, RemoveAtFacts
  <2>3. QED
    BY <2>1, <2>2 DEF RemoveProxiedService
<1>9. services' \in [Names -> Entry]
  BY <1>1, <1>2, <1>3
<1>10. QED
  BY <1>1, <1>2, <1>5, <1>6, <1>7, <1>8, <1>9, RegistryKeeps

(* createProxy() gives each missing service its first route.               *)
LEMMA CreateProxyKeeps ==
    ASSUME Inv, CreateProxy, calls' \in 0 .. MaxCalls, up' = up
    PROVE  Inv'
<1> DEFINE Made == {n \in Missing : ~Throws(n)}
       Making(total, made) ==
        /\ ToSet(made) = Made
        /\ \A j, k \in 1 .. total : j < k => Older(made[j], made[k])
        /\ routes' = routes \o [k \in 1 .. total |-> New(made[k], services[made[k]].options)]
        /\ services' = [n \in Names |->
              IF n \notin Missing THEN services[n]
              ELSE IF Throws(n) THEN [is |-> "bare"]
              ELSE [is |-> "proxied",
                    instance |-> Len(routes) + CHOOSE k \in 1 .. total : made[k] = n]]
<1>0. PICK total \in 0 .. Len(order) : \E made \in [1 .. total -> Names] : Making(total, made)
  BY Zenon DEF CreateProxy
<1>1. PICK made \in [1 .. total -> Names] : Making(total, made)
  BY <1>0
<1> DEFINE at(n) == CHOOSE k \in 1 .. total : made[k] = n
           added == [k \in 1 .. total |-> New(made[k], services[made[k]].options)]
       bare == [is |-> "bare"]
       proxied(k) == [is |-> "proxied", instance |-> k]
<1>1a. /\ ToSet(made) = Made
       /\ \A j, k \in 1 .. total : j < k => Older(made[j], made[k])
       /\ routes' = routes \o added
       /\ services' = [n \in Names |-> services'[n]]
  BY <1>1
<1>1b. ASSUME NEW n \in Names
       PROVE  /\ n \notin Missing => services'[n] = services[n]
              /\ n \in Missing => services[n].is = "described"
              /\ n \in Missing /\ n \notin Made => services'[n] = bare
              /\ n \in Made => /\ n \in Missing
                               /\ services'[n] = proxied(Len(routes) + at(n))
  BY <1>1 DEF Missing
<1>1c. /\ bare \in Entry /\ bare.is = "bare"
       /\ \A k : proxied(k).is = "proxied" /\ proxied(k).instance = k
       /\ \A k \in Nat : proxied(k) \in Entry
  BY DEF Entry
<1> HIDE DEF Making, bare, proxied
<1>2. order' = order /\ cached' = cached /\ req' = req /\ dropped' = dropped
  BY DEF CreateProxy
<1>3. /\ TypeOK /\ dropped \subseteq Names
      /\ services \in [Names -> Entry] /\ order \in Seq(Names) /\ IsInjective(order)
      /\ routes \in Seq(Instance) /\ Len(routes) \in Nat /\ DOMAIN routes = 1 .. Len(routes)
      /\ \A m \in Names : services[m].is = "proxied" => services[m].instance \in DOMAIN routes
      /\ \A m \in Names \ dropped :
            IF services[m].is = "proxied" THEN Serves(m, services[m].instance) ELSE Unrouted(m)
  BY DEF Inv, TypeOK, RegistryInv, RegisteredServes
<1>4. total \in Nat /\ made \in Seq(Names) /\ DOMAIN made = 1 .. total
  <2>1. Len(order) \in Nat
    BY <1>3
  <2>2. QED
    BY <2>1
<1>5. \A j, k \in 1 .. total : j # k => made[j] # made[k]
  <2>1. \A n : ~Older(n, n)
    <3>1. DOMAIN order = 1 .. Len(order) /\ Len(order) \in Nat
      BY <1>3
    <3>2. QED
      BY <1>3, <3>1 DEF Older, IsInjective
  <2>2. \A j, k \in 1 .. total : j < k => made[j] # made[k]
    BY <1>1a, <2>1
  <2>3. QED
    BY <1>4, <2>2
<1>6. ASSUME NEW n \in Made
      PROVE  /\ n \in Names /\ services[n].is = "described" /\ services[n].options \in Options
             /\ at(n) \in 1 .. total /\ made[at(n)] = n
  <2>1. n \in Names /\ services[n].is = "described"
    BY <1>6 DEF Missing
  <2>2. services[n].options \in Options
    <3>1. services[n] \in Entry /\ services[n].options # "wrong"
      BY <1>3, <1>6, <2>1 DEF Throws
    <3>2. QED
      BY <2>1, <3>1 DEF Entry
  <2>3. \E k \in 1 .. total : made[k] = n
    BY <1>1a, <1>4 DEF ToSet
  <2>4. QED
    BY <2>1, <2>2, <2>3
<1>7. \A k \in 1 .. total : made[k] \in Made
  BY <1>1a, <1>4 DEF ToSet
<1> HIDE DEF Made
<1>8. added \in Seq(Instance) /\ Len(added) = total /\ \A k \in 1 .. total : added[k].name = made[k]
  <2>1. \A k \in 1 .. total : New(made[k], services[made[k]].options) \in Instance
    BY <1>6, <1>7 DEF New, Instance
  <2>2. added \in Seq(Instance) /\ Len(added) = total
    BY <1>4, <2>1
  <2>3. QED
    BY <2>2 DEF New
<1>9. routes' = routes \o added
  BY <1>1a
<1> HIDE DEF added
<1>10. /\ routes' \in Seq(Instance) /\ DOMAIN routes' = 1 .. Len(routes) + total
       /\ \A k \in DOMAIN routes : routes'[k] = routes[k]
       /\ \A k \in 1 .. total : routes'[Len(routes) + k] = added[k]
  <2>1. routes \o added \in Seq(Instance) /\ Len(routes \o added) = Len(routes) + total
    BY <1>3, <1>8, ConcatProperties
  <2>2. \A k \in 1 .. Len(routes) + total :
           (routes \o added)[k] = IF k <= Len(routes) THEN routes[k] ELSE added[k - Len(routes)]
    BY <1>3, <1>8, ConcatProperties
  <2>3. \A k \in 1 .. total : /\ Len(routes) + k \in 1 .. Len(routes) + total
                              /\ ~(Len(routes) + k <= Len(routes))
                              /\ Len(routes) + k - Len(routes) = k
    BY <1>3, <1>4
  <2>4. \A k \in DOMAIN routes : k \in 1 .. Len(routes) + total /\ k <= Len(routes)
    BY <1>3, <1>4
  <2>5. QED
    BY <1>9, <2>1, <2>2, <2>3, <2>4
<1>11. /\ \A k \in DOMAIN routes : k \in DOMAIN routes'
       /\ \A k \in DOMAIN routes' : k \in DOMAIN routes \/ \E j \in 1 .. total : k = Len(routes) + j
       /\ \A j \in 1 .. total : Len(routes) + j \in DOMAIN routes'
  <2>1. \A k \in DOMAIN routes' : k \notin DOMAIN routes =>
           k - Len(routes) \in 1 .. total /\ k = Len(routes) + (k - Len(routes))
    BY <1>3, <1>4, <1>10
  <2>2. \A k \in DOMAIN routes' : k \in DOMAIN routes \/ \E j \in 1 .. total : k = Len(routes) + j
    BY <2>1
  <2>3. \A j \in 1 .. total : Len(routes) + j \in DOMAIN routes'
    BY <1>3, <1>4, <1>10
  <2>4. \A k \in DOMAIN routes : k \in DOMAIN routes'
    BY <1>3, <1>4, <1>10
  <2>5. QED
    BY <2>2, <2>3, <2>4
<1>12. Kept
  <2>1. \A k \in DOMAIN routes : routes[k].middlewares <= routes[k].middlewares
    <3>1. \A k \in DOMAIN routes : routes[k] \in Instance
      BY <1>3
    <3>2. QED
      BY <3>1 DEF Instance
  <2>2. QED
    BY <1>10, <1>11, <2>1 DEF Kept
<1> HIDE DEF at
<1>13. ASSUME NEW n \in Made
       PROVE  services'[n].is = "proxied" /\ services'[n].instance = Len(routes) + at(n)
  BY <1>1b, <1>1c, <1>6
<1>14. ASSUME NEW n \in Names
       PROVE  services'[n] \in Entry
  <2>1. CASE n \notin Missing
    BY <1>1b, <1>3, <2>1
  <2>2. CASE n \in Missing /\ n \notin Made
    BY <1>1b, <1>1c, <2>2
  <2>3. CASE n \in Made
    <3>1. Len(routes) + at(n) \in Nat
      BY <1>3, <1>4, <1>6, <2>3
    <3>2. QED
      BY <1>1b, <1>1c, <2>3, <3>1
  <2>4. QED
    BY <2>1, <2>2, <2>3
<1>15. services' \in [Names -> Entry]
  BY <1>1a, <1>14
<1>16. ToSet(order') = {n \in Names : services'[n].is # "absent"}
  <2>1. \A n \in Names : services'[n].is # "absent" <=> services[n].is # "absent"
    BY <1>1b, <1>1c
  <2>2. QED
    BY <1>2, <1>3, <2>1 DEF TypeOK
<1>17. \A n \in Names : services'[n].is = "proxied" => services'[n].instance \in DOMAIN routes'
  <2>1. \A n \in Made : Len(routes) + at(n) \in DOMAIN routes'
    BY <1>6, <1>11
  <2>2. QED
    BY <1>1b, <1>1c, <1>3, <1>11, <1>13, <2>1
<1>18. ASSUME NEW n \in Names \ dropped', services'[n].is = "proxied"
       PROVE  Serves(n, services[n].instance)'
  <2>1. CASE n \notin Made
    <3>1. services'[n] = services[n] /\ Serves(n, services[n].instance)
      BY <1>1b, <1>1c, <1>2, <1>3, <1>18, <2>1
    <3>2. services[n].instance \in DOMAIN routes
      BY <1>3, <1>18, <3>1
    <3>3. \A j \in 1 .. services[n].instance - 1 : j \in DOMAIN routes
      BY <1>3, <3>2
    <3>4. QED
      BY <1>10, <3>1, <3>2, <3>3 DEF Serves
  <2>2. CASE n \in Made
    <3>1. at(n) \in 1 .. total /\ made[at(n)] = n
      BY <1>6, <2>2
    <3>2. PICK i \in Nat : i = Len(routes) + at(n)
      BY <1>3, <1>4, <3>1
    <3>3. services'[n].instance = i /\ Unrouted(n)
      BY <1>1b, <1>1c, <1>2, <1>3, <1>6, <1>13, <1>18, <2>2, <3>2
    <3>4. routes'[i].name = n
      BY <1>8, <1>10, <3>1, <3>2
    <3>5. ASSUME NEW j \in 1 .. i - 1
          PROVE  routes'[j].name # n
      <4>1. CASE j \in DOMAIN routes
        BY <1>10, <3>3, <4>1 DEF Unrouted
      <4>2. CASE j \notin DOMAIN routes
        <5>1. /\ j - Len(routes) \in 1 .. total /\ j - Len(routes) # at(n)
              /\ j = Len(routes) + (j - Len(routes))
          BY <1>3, <1>4, <3>1, <3>2, <3>5, <4>2
        <5>2. made[j - Len(routes)] # n
          BY <1>5, <3>1, <5>1
        <5>3. routes'[j] = added[j - Len(routes)]
          BY <1>10, <5>1
        <5>4. QED
          BY <1>8, <5>1, <5>2, <5>3
      <4>3. QED
        BY <4>1, <4>2
    <3>6. QED
      BY <3>3, <3>4, <3>5 DEF Serves
  <2>3. QED
    BY <2>1, <2>2
<1>19. ASSUME NEW n \in Names \ dropped', services'[n].is # "proxied"
       PROVE  Unrouted(n)'
  <2>1. n \notin Made /\ services[n].is # "proxied"
    BY <1>1b, <1>1c, <1>13, <1>19
  <2>2. Unrouted(n)
    BY <1>2, <1>3, <1>19, <2>1
  <2>3. \A j \in 1 .. total : routes'[Len(routes) + j].name # n
    BY <1>7, <1>8, <1>10, <2>1
  <2>4. QED
    BY <1>10, <1>11, <2>2, <2>3 DEF Unrouted
<1>20. RegistryInv'
  BY <1>17, <1>18, <1>19 DEF RegistryInv, RegisteredServes
<1>21. QED
  BY <1>2, <1>3, <1>10, <1>12, <1>15, <1>16, <1>20, RegistryKeeps

(* An instance gets one more middleware.                                   *)
LEMMA AddMiddlewareKeeps ==
    ASSUME Inv, NEW n \in Names, AddMiddleware(n), calls' \in 0 .. MaxCalls, up' = up
    PROVE  Inv'
<1> DEFINE i == services[n].instance
           m == [routes[i] EXCEPT !.middlewares = @ + 1]
<1>1. /\ services' = services /\ order' = order /\ cached' = cached /\ req' = req
      /\ dropped' = dropped /\ services[n].is = "proxied"
      /\ routes' = [routes EXCEPT ![i].middlewares = @ + 1]
  BY DEF AddMiddleware
<1>2. TypeOK /\ i \in DOMAIN routes /\ routes \in Seq(Instance)
  BY <1>1 DEF Inv, TypeOK, RegistryInv
<1>3. routes' = [routes EXCEPT ![i] = m]
  BY <1>1, <1>2
<1>4. /\ m \in Instance /\ m.name = routes[i].name /\ m.options = routes[i].options
      /\ routes[i].middlewares <= m.middlewares
  <2>1. routes[i] \in Instance
    BY <1>2
  <2>2. QED
    BY <2>1 DEF Instance
<1> HIDE DEF m, i
<1>5. routes' \in Seq(Instance) /\ DOMAIN routes' = DOMAIN routes
  BY <1>2, <1>3, <1>4
<1>6. \A k \in DOMAIN routes : routes'[k] = IF k = i THEN m ELSE routes[k]
  BY <1>2, <1>3
<1>7. \A k \in DOMAIN routes : routes[k].middlewares <= routes[k].middlewares
  <2>1. \A k \in DOMAIN routes : routes[k] \in Instance
    BY <1>2
  <2>2. QED
    BY <2>1 DEF Instance
<1>8. \A k \in DOMAIN routes : routes'[k].name = routes[k].name
  BY <1>4, <1>6
<1>9. Kept
  BY <1>4, <1>5, <1>6, <1>7 DEF Kept
<1>10. \A k \in DOMAIN routes : \A j \in 1 .. k - 1 : j \in DOMAIN routes
  <2>1. DOMAIN routes = 1 .. Len(routes) /\ Len(routes) \in Nat
    BY <1>2
  <2>2. QED
    BY <2>1
<1>11. RegistryInv'
  BY <1>1, <1>5, <1>8, <1>10 DEF Inv, RegistryInv, RegisteredServes, Serves, Unrouted
<1>12. QED
  BY <1>1, <1>2, <1>5, <1>9, <1>11, RegistryKeeps DEF TypeOK

-----------------------------------------------------------------------------

(* There is nothing at first.                                              *)
LEMMA InitInv == Init => Inv
<1> SUFFICES ASSUME Init
             PROVE  Inv
  OBVIOUS
<1>1. services \in [Names -> Entry] /\ \A n \in Names : services[n].is = "absent"
  BY DEF Init, Entry
<1>2. order = <<>> /\ order \in Seq(Names) /\ IsInjective(order) /\ ToSet(order) = {}
  BY DEF Init, IsInjective, ToSet
<1>3. /\ routes = <<>> /\ routes \in Seq(Instance) /\ dropped = {}
      /\ calls \in 0 .. MaxCalls /\ up \in BOOLEAN
  BY BoundAssumption DEF Init
<1>4. \A u \in Urls : cached[u] = {} /\ Cardinality(cached[u]) <= 1
  BY FS_EmptySet DEF Init
<1>5. /\ req \in [Requests -> Request]
      /\ \A r \in Requests : req[r].at = "free" /\ req[r].hit = {}
  BY FreeFacts DEF Init
<1>6. cached \in [Urls -> SUBSET Answer]
  BY DEF Init
<1>7. TypeOK
  BY <1>1, <1>2, <1>3, <1>4, <1>5, <1>6 DEF TypeOK
<1>8. RegistryInv
  BY <1>1, <1>3 DEF RegistryInv, RegisteredServes, Unrouted
<1>9. RequestsInv /\ AnswersInv
  BY <1>4, <1>5 DEF RequestsInv, OnItsWay, AnswersInv
<1>10. QED
  BY <1>7, <1>8, <1>9 DEF Inv

(* Every step keeps the invariant.                                         *)
LEMMA InvStep == Inv /\ [Next]_vars => Inv'
<1> SUFFICES ASSUME Inv, [Next]_vars
             PROVE  Inv'
  OBVIOUS
<1>1. CASE Call
  <2>1. calls' \in 0 .. MaxCalls /\ up' = up
    BY <1>1, BoundAssumption DEF Call, Inv, TypeOK
  <2>2. CASE CreateProxy
    BY <2>1, <2>2, CreateProxyKeeps
  <2>3. ASSUME NEW n \in Names, NEW o \in Options \cup {"wrong"},
               CreateProxyInstance(n, o) \/ AddProxiedServices(n, o)
        PROVE  Inv'
    BY <2>1, <2>3, CreateProxyInstanceKeeps, AddProxiedServicesKeeps
  <2>4. ASSUME NEW n \in Names, RemoveProxiedService(n) \/ AddMiddleware(n)
        PROVE  Inv'
    BY <2>1, <2>4, RemoveProxiedServiceKeeps, AddMiddlewareKeeps
  <2>5. QED
    BY <1>1, <2>2, <2>3, <2>4 DEF Call
<1>2. ASSUME NEW r \in Requests, NEW n \in Names, NEW m \in Methods, NEW u \in Urls,
             NEW authorized \in BOOLEAN, Receive(r, n, m, u, authorized)
      PROVE  Inv'
  BY <1>2, ReceiveKeeps
<1>3. ASSUME NEW r \in Requests, NEW authorized \in BOOLEAN,
             MiddlewareFails(r) \/ MiddlewareDone(r, authorized)
      PROVE  Inv'
  BY <1>3, MiddlewareKeeps
<1>4. ASSUME NEW r \in Requests, Hit(r) \/ Miss(r) \/ FilterHandles(r)
      PROVE  Inv'
  BY <1>4, LookupKeeps
<1>5. ASSUME NEW r \in Requests, NEW ok \in BOOLEAN, Refuse(r) \/ Begin(r, ok) \/ BreakOff(r)
      PROVE  Inv'
  BY <1>5, ServiceKeeps
<1>6. ASSUME NEW r \in Requests, End(r)
      PROVE  Inv'
  BY <1>6, EndKeeps
<1>7. ASSUME NEW u \in Urls, Expire(u)
      PROVE  Inv'
  BY <1>7, ExpireKeeps
<1>8. CASE UNCHANGED vars
  BY <1>8 DEF vars, Inv, TypeOK, RegistryInv, RegisteredServes, Serves, Unrouted, RequestsInv,
              OnItsWay, AnswersInv, Proper, CachingInstances, Passes, Caches
<1>9. ASSUME NEW r \in Requests, BeginAgain(r)
      PROVE  Inv'
  <2>1. /\ services' = services /\ order' = order /\ routes' = routes /\ cached' = cached
        /\ req' = req /\ dropped' = dropped /\ calls' = calls /\ up' \in BOOLEAN
    BY <1>9 DEF BeginAgain
  <2>2. TypeOK'
    BY <2>1 DEF Inv, TypeOK
  <2>3. RegistryInv' /\ RequestsInv' /\ AnswersInv'
    BY <2>1 DEF Inv, RegistryInv, RegisteredServes, Serves, Unrouted, RequestsInv, OnItsWay,
                AnswersInv, Proper, CachingInstances, Passes, Caches
  <2>4. QED
    BY <2>2, <2>3 DEF Inv
<1>10. QED
  BY <1>1, <1>2, <1>3, <1>4, <1>5, <1>6, <1>7, <1>8, <1>9 DEF Next

(* Every reachable state satisfies the inductive invariant.                *)
LEMMA Invariance == Spec => []Inv
BY InitInv, InvStep, PTL DEF Spec

(* Every reachable state is of its type.                                   *)
THEOREM TypeCorrect == Spec => []TypeOK
BY Invariance, PTL DEF Inv

(* Whatever is created, described and removed, and in whatever order:      *)
(* unless an instance of the service was dropped, the one that             *)
(* getProxyInstance() gives is the one that requests reach.                *)
THEOREM RegisteredInstanceServes == Spec => []RegisteredServes
<1>1. Inv => RegisteredServes
  BY DEF Inv, RegistryInv
<1>2. QED
  BY <1>1, Invariance, PTL

(* No request gets past a middleware that its instance had when it came,   *)
(* however many addMiddleware() adds while it is on its way.               *)
THEOREM MiddlewaresPassed == Spec => []PassedAll
<1>1. Inv => PassedAll
  BY DEF Inv, RequestsInv, OnItsWay, PassedAll
<1>2. QED
  BY <1>1, Invariance, PTL

(* One filtered service in the cache gets nothing but its own answers to   *)
(* GETs from it.                                                           *)
THEOREM AnswersOwn == Spec => []OwnAnswers
<1>1. Inv => OwnAnswers
  <2> SUFFICES ASSUME Inv,
                      \A j, k \in CachingInstances :
                          routes[j].name = routes[k].name /\ routes[k].options = "others",
                      NEW r \in Requests, NEW a \in req[r].hit
               PROVE  /\ a.ok /\ a.method = "GET"
                      /\ \A k \in CachingInstances : a.name = routes[k].name
    BY DEF OwnAnswers
  <2>1. Proper(a)
    BY DEF Inv, AnswersInv
  <2>2. PICK k \in CachingInstances : a.name = routes[k].name /\ Passes(k, a.method)
    BY <2>1 DEF Proper
  <2>3. a.method = "GET"
    BY <2>2 DEF Passes
  <2>4. QED
    BY <2>1, <2>2, <2>3 DEF Proper
<1>2. QED
  BY <1>1, Invariance, PTL
=============================================================================
