----------------------------- MODULE ServiceProxy -----------------------------
(***************************************************************************)
(* The service proxies (lib/serviceProxy/serviceProxy.js): the registry of *)
(* services, the routes their instances have in the application, and the   *)
(* way of a request through middlewares, authorization and cache to the    *)
(* service.  The routes of an instance stay when its service is removed.   *)
(*                                                                         *)
(* Services have their default base paths, so that the first instance ever *)
(* made for a name answers the requests for that name.                     *)
(***************************************************************************)
EXTENDS Naturals, FiniteSets, Sequences, SequencesExt

CONSTANTS
    Names,          \* services
    Requests,       \* requests that may be under way at once
    Urls,           \* req.url as _processRequest leaves it: without the service
    Filters,        \* what a cached service may filter: nothing, or all but GETs
    MaxCalls        \* bound: calls that change the registry or its instances

ASSUME UrlsAssumption == Urls # {}
ASSUME FiltersAssumption == Filters \subseteq {"nothing", "others"}
ASSUME BoundAssumption == MaxCalls \in Nat

Methods == {"GET", "POST"}

(* The options of a service: not cached, or cached with a filter.  A ttl   *)
(* that is no number, or a filter that is no function, are wrong.          *)
Options == {"plain"} \cup Filters

Instance == [name : Names, options : Options, middlewares : Nat]

(* proxiedServices[name]: bare is the {} of a creation that failed. *)
Entry == [is : {"absent", "bare"}]
         \cup [is : {"described"}, options : Options \cup {"wrong"}]
         \cup [is : {"proxied"}, instance : Nat]

(* An answer that the cache has under a URL. *)
Answer == [name : Names, method : Methods, ok : BOOLEAN]

(* at: what a request is at; had: the middlewares its instance had when it *)
(* came; next: the one that runs; ok: the service's answer has status 200; *)
(* hit: the answers it got from the cache, at most one; itself: the filter *)
(* has used res or next, and the service is asked nevertheless.            *)
Request == [at : {"free", "middleware", "lookup", "service", "answer"},
            instance : Nat, method : Methods, url : Urls,
            had : Nat, next : Nat,
            ok : BOOLEAN, hit : SUBSET Answer, itself : BOOLEAN]

VARIABLES
    services,       \* proxiedServices
    order,          \* its keys, oldest first
    routes,         \* the instances, in the order of their routes
    cached,         \* the answers in the cache by URL: at most one each
    req,            \* state of each request
    up,             \* whether the process runs
    dropped,        \* history: services that lost a registered instance
    calls           \* history: calls so far

vars == <<services, order, routes, cached, req, up, dropped, calls>>

registryVars == <<services, order, routes, up, dropped, calls>>

TypeOK ==
    /\ services \in [Names -> Entry]
    /\ order \in Seq(Names)
    /\ ToSet(order) = {n \in Names : services[n].is # "absent"}
    /\ IsInjective(order)
    /\ routes \in Seq(Instance)
    /\ cached \in [Urls -> SUBSET Answer]
    /\ \A u \in Urls : Cardinality(cached[u]) <= 1
    /\ req \in [Requests -> Request]
    /\ up \in BOOLEAN
    /\ dropped \subseteq Names
    /\ calls \in 0 .. MaxCalls

Free == [at |-> "free", instance |-> 0, method |-> "GET",
         url |-> CHOOSE u \in Urls : TRUE, had |-> 0, next |-> 0, ok |-> FALSE, hit |-> {},
         itself |-> FALSE]

Init ==
    /\ services = [n \in Names |-> [is |-> "absent"]]
    /\ order = <<>>
    /\ routes = <<>>
    /\ cached = [u \in Urls |-> {}]
    /\ req = [r \in Requests |-> Free]
    /\ up = TRUE
    /\ dropped = {}
    /\ calls = 0

-----------------------------------------------------------------------------

New(n, o) == [name |-> n, options |-> o, middlewares |-> 0]

Known(n) == order' = IF n \in ToSet(order) THEN order ELSE Append(order, n)

(* createProxyInstance(), of a service that has no instance.  It replaces  *)
(* the entry by {} before it looks at the options.                         *)
AlwaysCreate(n) == TRUE

MayCreate(n) == services[n].is # "proxied"

CreateProxyInstance(n, o) ==
    /\ MayCreate(n)
    /\ IF o = "wrong"
       THEN /\ services' = [services EXCEPT ![n] = [is |-> "bare"]]
            /\ UNCHANGED routes
       ELSE /\ services' = [services EXCEPT ![n] = [is |-> "proxied", instance |-> Len(routes) + 1]]
            /\ routes' = Append(routes, New(n, o))
    /\ Known(n)
    /\ UNCHANGED <<cached, req, dropped>>

(* createProxy() makes those that are missing, in order, up to the first   *)
(* that throws: one that is {}, without a host, or has wrong options.      *)
Throws(n) ==
    \/ services[n].is = "bare"
    \/ services[n].is = "described" /\ services[n].options = "wrong"

Reached(n) ==
    \E k \in DOMAIN order : order[k] = n /\ \A j \in 1 .. k - 1 : ~Throws(order[j])

Missing == {n \in Names : services[n].is = "described" /\ Reached(n)}

Older(m, n) == \E j, k \in DOMAIN order : j < k /\ order[j] = m /\ order[k] = n

CreateProxy ==
    \E total \in 0 .. Len(order) : \E made \in [1 .. total -> Names] :
        /\ ToSet(made) = {n \in Missing : ~Throws(n)}
        /\ \A j, k \in 1 .. total : j < k => Older(made[j], made[k])
        /\ routes' = routes \o [k \in 1 .. total |-> New(made[k], services[made[k]].options)]
        /\ services' = [n \in Names |->
              IF n \notin Missing THEN services[n]
              ELSE IF Throws(n) THEN [is |-> "bare"]
              ELSE [is |-> "proxied",
                    instance |-> Len(routes) + CHOOSE k \in 1 .. total : made[k] = n]]
        /\ UNCHANGED <<order, cached, req, dropped>>

Drop(n) == dropped' = IF services[n].is = "proxied" THEN dropped \cup {n} ELSE dropped

AddProxiedServices(n, o) ==
    /\ services' = [services EXCEPT ![n] = [is |-> "described", options |-> o]]
    /\ Known(n)
    /\ Drop(n)
    /\ UNCHANGED <<routes, cached, req>>

RemoveProxiedService(n) ==
    /\ services' = [services EXCEPT ![n] = [is |-> "absent"]]
    /\ \/ n \notin ToSet(order) /\ UNCHANGED order
       \/ \E k \in DOMAIN order : order[k] = n /\ order' = RemoveAt(order, k)
    /\ Drop(n)
    /\ UNCHANGED <<routes, cached, req>>

(* addMiddleware(); without an instance it throws. *)
AddMiddleware(n) ==
    /\ services[n].is = "proxied"
    /\ LET k == services[n].instance IN
       routes' = [routes EXCEPT ![k].middlewares = @ + 1]
    /\ UNCHANGED <<services, order, cached, req, dropped>>

-----------------------------------------------------------------------------

(* ServiceProxy.cache, and requestCacheFilterFunction, where an instance has one. *)
Caches(instance) == instance.options # "plain"

Passes(k, method) == routes[k].options = "nothing" \/ method = "GET"

(* _processRequest() and _checkCache(), which follow the last middleware:  *)
(* 401, the cache, or the service.                                         *)
Looks(q) == /\ q.method = "GET"
            /\ Caches(routes[q.instance])
            /\ Passes(q.instance, q.method)

Processed(q, authorized) ==
    IF ~authorized THEN Free
    ELSE [q EXCEPT !.at = IF Looks(q) THEN "lookup" ELSE "service"]

(* walkStack(i) reads the middlewares of that moment. *)
AllButLast(q, i) == i + 1 < routes[q.instance].middlewares

More(q, i) == i < routes[q.instance].middlewares

Walk(q, i, authorized) ==
    IF More(q, i) THEN [q EXCEPT !.next = i] ELSE Processed([q EXCEPT !.next = i], authorized)

Serves(n, k) == /\ routes[k].name = n
                /\ \A j \in 1 .. k - 1 : routes[j].name # n

Receive(r, n, method, url, authorized) ==
    /\ req[r].at = "free"
    /\ \E k \in DOMAIN routes :
          /\ Serves(n, k)
          /\ LET q == [Free EXCEPT !.at = "middleware", !.instance = k, !.method = method,
                                   !.url = url, !.had = routes[k].middlewares]
             IN  req' = [req EXCEPT ![r] = Walk(q, 0, authorized)]
    /\ UNCHANGED <<registryVars, cached>>

(* A middleware calls its next(): with an error, or with none.  One that   *)
(* answers the request calls none, and the request is over as well.        *)
MiddlewareFails(r) ==
    /\ req[r].at = "middleware"
    /\ req' = [req EXCEPT ![r] = Free]
    /\ UNCHANGED <<registryVars, cached>>

MiddlewareDone(r, authorized) ==
    /\ req[r].at = "middleware"
    /\ req' = [req EXCEPT ![r] = Walk(@, @.next + 1, authorized)]
    /\ UNCHANGED <<registryVars, cached>>

(* cache.get() has an answer, or none, or an error. *)
Hit(r) ==
    /\ req[r].at = "lookup"
    /\ cached[req[r].url] # {}
    /\ req' = [req EXCEPT ![r] = [Free EXCEPT !.hit = cached[req[r].url]]]
    /\ UNCHANGED <<registryVars, cached>>

Miss(r) ==
    /\ req[r].at = "lookup"
    /\ req' = [req EXCEPT ![r].at = "service"]
    /\ UNCHANGED <<registryVars, cached>>

(* A filter may handle a GET by res or next itself and return nothing; it  *)
(* does not keep it from the service, as _checkCache() then calls next().  *)
FilterHandles(r) ==
    /\ req[r].at = "lookup"
    /\ routes[req[r].instance].options = "others"
    /\ req' = [req EXCEPT ![r].at = "service", ![r].itself = TRUE]
    /\ UNCHANGED <<registryVars, cached>>

(* _proxyRequest(): the service refuses (503), or its answer begins, ... *)
Refuse(r) ==
    /\ req[r].at = "service"
    /\ req' = [req EXCEPT ![r] = Free]
    /\ UNCHANGED <<registryVars, cached>>

Begin(r, ok) ==
    /\ req[r].at = "service"
    /\ ~req[r].itself
    /\ req' = [req EXCEPT ![r].at = "answer", ![r].ok = ok]
    /\ UNCHANGED <<registryVars, cached>>

(* ... where the filter is called again, without next, or the headers have *)
(* been sent already: that throws, and the process ends.                   *)
BeginAgain(r) ==
    /\ req[r].at = "service"
    /\ req[r].itself
    /\ up' = FALSE
    /\ UNCHANGED <<services, order, routes, cached, req, dropped, calls>>

(* The answer breaks off, or ends and goes to the cache.  One that node    *)
(* emits 'end' of although it was broken off ends and is kept like another *)
(* (how much of it there is, is left out).                                 *)
BreakOff(r) ==
    /\ req[r].at = "answer"
    /\ req' = [req EXCEPT ![r] = Free]
    /\ UNCHANGED <<registryVars, cached>>

KeepsErrors(q) == Caches(routes[q.instance]) /\ Passes(q.instance, q.method)

Keeps(q) == /\ Caches(routes[q.instance])
            /\ Passes(q.instance, q.method)
            /\ q.ok

End(r) ==
    LET q == req[r]
        a == [name |-> routes[q.instance].name, method |-> q.method, ok |-> q.ok]
    IN  /\ q.at = "answer"
        /\ cached' = IF Keeps(q) THEN [cached EXCEPT ![q.url] = {a}] ELSE cached
        /\ req' = [req EXCEPT ![r] = Free]
        /\ UNCHANGED registryVars

(* The cache forgets an answer, its time to live over. *)
Expire(u) ==
    /\ cached[u] # {}
    /\ cached' = [cached EXCEPT ![u] = {}]
    /\ UNCHANGED <<registryVars, req>>

Call ==
    /\ calls < MaxCalls
    /\ calls' = calls + 1
    /\ UNCHANGED up
    /\ \/ CreateProxy
       \/ \E n \in Names :
             \/ \E o \in Options \cup {"wrong"} :
                   CreateProxyInstance(n, o) \/ AddProxiedServices(n, o)
             \/ RemoveProxiedService(n)
             \/ AddMiddleware(n)

Next ==
    /\ up
    /\ \/ Call
       \/ \E r \in Requests :
             \/ \E n \in Names, m \in Methods, u \in Urls, authorized \in BOOLEAN :
                   Receive(r, n, m, u, authorized)
             \/ MiddlewareFails(r)
             \/ \E authorized \in BOOLEAN : MiddlewareDone(r, authorized)
             \/ Hit(r)
             \/ Miss(r)
             \/ FilterHandles(r)
             \/ Refuse(r)
             \/ \E ok \in BOOLEAN : Begin(r, ok)
             \/ BeginAgain(r)
             \/ BreakOff(r)
             \/ End(r)
       \/ \E u \in Urls : Expire(u)

Spec == Init /\ [][Next]_vars

-----------------------------------------------------------------------------

(* getProxyInstance(name) is the instance that answers the requests for    *)
(* the service, unless an earlier one was removed or described anew: the   *)
(* middlewares given to it are those that requests go through.             *)
RegisteredServes ==
    \A n \in Names \ dropped :
        services[n].is = "proxied" => Serves(n, services[n].instance)

(* A request that is past the middlewares went through all that its        *)
(* instance had when it came, though more may be added on its way.         *)
PassedAll ==
    \A r \in Requests :
        req[r].at \in {"lookup", "service", "answer"} => req[r].next >= req[r].had

(* When only one service is cached, with a filter that lets GETs pass, a   *)
(* request that the cache answers gets what the service answered, with     *)
(* status 200, to a GET.                                                   *)
CachingInstances == {k \in DOMAIN routes : Caches(routes[k])}

OwnAnswers ==
    (\A j, k \in CachingInstances : routes[j].name = routes[k].name /\ routes[k].options = "others")
    => \A r \in Requests : \A a \in req[r].hit :
          a.ok /\ a.method = "GET" /\ \A k \in CachingInstances : a.name = routes[k].name

(* lib/serviceProxy/serviceProxy.js:185, "cache only if cache is enabled   *)
(* param and only GET requests": the cache has answers to GETs only.       *)
OnlyGets == \A u \in Urls : \A a \in cached[u] : a.method = "GET"
=============================================================================
