----------------------------- MODULE ApiGateway -----------------------------
(***************************************************************************)
(* How a request passes mini-gateway-proxy: the middleware chain, and the  *)
(* routes and plugins of the API gateway.  They share no state.            *)
(***************************************************************************)
EXTENDS Integers, Sequences, SequencesExt

-----------------------------------------------------------------------------
(***************************************************************************)
(* The middleware chain of mini-gateway-proxy (middleware_chain.c): nodes   *)
(* are added and removed between requests, and a request runs through them  *)
(* one handler per step.                                                    *)
(***************************************************************************)

CONSTANTS Handlers,      \* the built-in ones that are used
          MaxChain, MaxStore

ASSUME ChainAssumption ==
  Handlers \subseteq {"auth", "logger", "cors", "compressor", "timeout"}

VARIABLES chain,         \* names of the nodes in order
          ctx,           \* the MiddlewareContext, or None between requests
          index,         \* position of the node that runs next
          ran            \* handlers that ran for this request

chainVars == <<chain, ctx, index, ran>>

None == [request |-> "none"]

(* What the handlers look at in a request.                                   *)
ChainRequests == [token: BOOLEAN, origin: BOOLEAN, options: BOOLEAN, gzip: BOOLEAN]

ChainInit == chain = <<>> /\ ctx = None /\ index = 0 /\ ran = <<>>

mw_chain_use(h) ==
  /\ ctx = None /\ Len(chain) < MaxChain
  /\ chain' = Append(chain, h)
  /\ UNCHANGED <<ctx, index, ran>>

mw_chain_remove(h) ==
  /\ ctx = None
  /\ \E i \in DOMAIN chain :
       /\ chain[i] = h /\ \A j \in 1 .. i - 1 : chain[j] # h
       /\ chain' = RemoveAt(chain, i)
  /\ UNCHANGED <<ctx, index, ran>>

(* mw_context_init and the beginning of mw_chain_run                         *)
mw_chain_run(req) ==
  /\ ctx = None /\ chain # <<>>
  /\ ctx' = [request |-> req, aborted |-> FALSE, error_code |-> 0, status |-> 0, store |-> <<>>]
  /\ index' = 1
  /\ ran' = <<>>
  /\ UNCHANGED chain

(* mw_context_set appends, mw_context_get finds the oldest value of a key.   *)
mw_context_set(c, k, v) ==
  IF Len(c.store) >= MaxStore THEN c ELSE [c EXCEPT !.store = Append(@, <<k, v>>)]

mw_context_get(c, k) ==
  LET at == {i \in DOMAIN c.store : c.store[i][1] = k}
  IN  IF at = {} THEN "" ELSE c.store[CHOOSE i \in at : \A j \in at : i <= j][2]

(* A handler: the context it leaves and what it returns.                     *)
mw_builtin_auth(c) ==
  IF c.request.token
  THEN [ctx |-> mw_context_set(c, "auth.validated", "true"), ret |-> 0]
  ELSE [ctx |-> [c EXCEPT !.aborted = TRUE, !.error_code = 401], ret |-> -1]

mw_builtin_logger(c) == [ctx |-> mw_context_set(c, "log.timestamp", "<current>"), ret |-> 0]

mw_builtin_cors(c) ==
  [ctx |-> IF c.request.origin /\ c.request.options
           THEN [c EXCEPT !.aborted = TRUE, !.status = 204] ELSE c,
   ret |-> 0]

mw_builtin_compressor(c) ==
  [ctx |-> IF c.request.gzip THEN mw_context_set(c, "compress.algorithm", "gzip") ELSE c,
   ret |-> 0]

mw_builtin_timeout(c) ==
  [ctx |-> IF mw_context_get(c, "timeout.ms") = "" THEN mw_context_set(c, "timeout.ms", "30000")
           ELSE c,
   ret |-> 0]

Handled(h, c) ==
  CASE h = "auth"       -> mw_builtin_auth(c)
    [] h = "logger"     -> mw_builtin_logger(c)
    [] h = "cors"       -> mw_builtin_cors(c)
    [] h = "compressor" -> mw_builtin_compressor(c)
    [] h = "timeout"    -> mw_builtin_timeout(c)

(* The recursion of mw_chain_run_internal, one level per step; a negative    *)
(* result replaces the handler's error_code.                                 *)
mw_chain_run_internal ==
  LET r == Handled(chain[index], ctx) IN
  /\ ctx # None /\ index > 0
  /\ ctx' = IF r.ret < 0 THEN [r.ctx EXCEPT !.aborted = TRUE, !.error_code = r.ret] ELSE r.ctx
  /\ ran' = Append(ran, chain[index])
  /\ index' = IF ctx'.aborted \/ index = Len(chain) THEN 0 ELSE index + 1
  /\ UNCHANGED chain

mw_context_free ==
  /\ ctx # None /\ index = 0
  /\ ctx' = None /\ ran' = <<>>
  /\ UNCHANGED <<chain, index>>

ChainNext ==
  \/ \E h \in Handlers : mw_chain_use(h) \/ mw_chain_remove(h)
  \/ \E r \in ChainRequests : mw_chain_run(r)
  \/ mw_chain_run_internal
  \/ mw_context_free

ChainSpec == ChainInit /\ [][ChainNext]_chainVars

-----------------------------------------------------------------------------
(* When a request has passed, either every handler of the chain ran, in the  *)
(* order they were added, or the last one that ran refused the request or    *)
(* answered a preflight, and nothing behind it ran.                          *)
ChainPasses ==
  ctx # None /\ index = 0 =>
    /\ IsPrefix(ran, chain)
    /\ ~ctx.aborted => ran = chain
    /\ "auth" \in {ran[i] : i \in 1 .. Len(ran) - 1} => ctx.request.token
    /\ "cors" \in {ran[i] : i \in 1 .. Len(ran) - 1} => ~(ctx.request.origin /\ ctx.request.options)

-----------------------------------------------------------------------------
(***************************************************************************)
(* The API gateway of mini-gateway-proxy (api_gateway.c): a request is      *)
(* matched to a route and goes through plugins, authentication, the route's *)
(* rate limiter and its circuit breaker, which are the ones of RateLimiter  *)
(* and CircuitBreaker.  A path is a sequence of characters.                 *)
(***************************************************************************)

CONSTANTS RoutePaths,    \* paths of routes and requests, none empty
          Methods, Plugins,
          Protections,   \* <<auth_required, rate_limit_rps > 0>> of routes
          MaxRoutes, MaxPlugins, RouteCost, RouteRate, MaxGatewayTime

ASSUME RoutesAssumption == RoutePaths \subseteq Seq(STRING) \ {<<>>}

VARIABLES routes, global_plugins,
          outcome,       \* of the request handled last
          gtime

gatewayVars == <<routes, global_plugins, outcome, gtime>>

(* The breaker c of a route, and its limiter.                                *)
Guard(c) == INSTANCE Admission WITH
  Callers <- {}, failure_threshold <- 5, success_threshold <- 3,
  half_open_max_requests <- 3, timeout_ms <- 10, cb <- c, inside <- {},
  Clients <- {}, Nobody <- "", MaxClients <- 0, Cost <- RouteCost, Rate <- RouteRate,
  Burst <- 2 * RouteCost * RouteRate, Window <- 1, max_requests <- 0, RL_MAX_TIMESTAMPS <- 1,
  Start <- 0, MaxClock <- MaxGatewayTime, MaxLog <- 0,
  algorithm <- "TOKEN_BUCKET", rl <- <<>>, clients <- <<>>, log <- <<>>, clock <- gtime

Requests == [path: RoutePaths, method: Methods, token: BOOLEAN]

GatewayInit == routes = <<>> /\ global_plugins = <<>> /\ outcome = "none" /\ gtime = 0

(* limited: rate_limit_rps > 0, then the route has a rate limiter            *)
gateway_register_route(path, method, auth, limited) ==
  /\ Len(routes) < MaxRoutes
  /\ routes' = Append(routes,
       [path |-> path, methods |-> {method}, auth_required |-> auth, plugins |-> <<>>,
        limited |-> limited, rate_limiter |-> Guard({})!Limiter(gtime),
        circuit_breaker |-> Guard({})!cb_init])
  /\ UNCHANGED <<global_plugins, outcome, gtime>>

gateway_add_plugin(p) ==
  /\ Len(global_plugins) < MaxPlugins
  /\ global_plugins' = Append(global_plugins, p)
  /\ UNCHANGED <<routes, outcome, gtime>>

gateway_add_route_plugin(i, p) ==
  /\ Len(routes[i].plugins) < MaxPlugins
  /\ routes' = [routes EXCEPT ![i].plugins = Append(@, p)]
  /\ UNCHANGED <<global_plugins, outcome, gtime>>

method_match(r, method) == method \in r.methods \/ "ANY" \in r.methods

Exact(r, path)    == r.path = path
Wildcard(r, path) == Last(r.path) = "*" /\ IsPrefix(Front(r.path), path)
Prefix(r, path)   == IsPrefix(r.path, path)

(* What the loop keeps when it has looked at route i of rs: the route with    *)
(* path and method that it returns, meanwhile the longest one that matches   *)
(* by path alone; a plain prefix counts only when it is longer than that.    *)
Scanned(rs, i, path, method, acc) ==
  LET r == rs[i]
      longer == Len(r.path) > acc.len
  IN  IF acc.found # 0 \/ ~(Exact(r, path) \/ Wildcard(r, path) \/ (Prefix(r, path) /\ longer))
      THEN acc
      ELSE IF method_match(r, method) THEN [acc EXCEPT !.found = i]
      ELSE IF longer THEN [acc EXCEPT !.best = i, !.len = Len(r.path)]
      ELSE acc

(* 0 stands for NULL.                                                        *)
gateway_match_route(rs, path, method) ==
  LET seen[i \in 0 .. Len(rs)] ==
        IF i = 0 THEN [found |-> 0, best |-> 0, len |-> 0]
        ELSE Scanned(rs, i, path, method, seen[i - 1])
      end == seen[Len(rs)]
  IN  IF end.found # 0 THEN end.found ELSE end.best

(* gateway_plugin_run: only the authentication plugin can refuse.            *)
gateway_plugin_run(p, req) == p # "AUTH" \/ req.token

PluginsPass(ps, req) == \A k \in DOMAIN ps : gateway_plugin_run(ps[k], req)

(* What becomes of a request on route r whose bucket, refilled, is l.  The    *)
(* breaker is given NULL as the function to call: an admitted request ends   *)
(* the process, so that neither 429 nor 503 is ever reached.                 *)
Verdict(r, l, req) ==
  CASE ~PluginsPass(global_plugins \o r.plugins, req)  -> "blocked"
    [] r.auth_required /\ ~req.token                   -> "401"
    [] r.limited /\ ~Guard(r.circuit_breaker)!Room(l)  -> "429"
    [] Guard(r.circuit_breaker)!Admits                 -> "crash"
    [] OTHER                                           -> "503"

gateway_handle_request(req) ==
  /\ outcome # "crash"
  /\ LET i == gateway_match_route(routes, req.path, req.method) IN
     IF i = 0 THEN outcome' = "404" /\ UNCHANGED routes
     ELSE LET r == routes[i]
              l == Guard(r.circuit_breaker)!Refilled(r.rate_limiter)
              v == Verdict(r, l, req)
          IN  /\ outcome' = v
              /\ routes' = [routes EXCEPT ![i].rate_limiter =
                   CASE v \in {"blocked", "401"} \/ ~r.limited -> @
                     [] v = "429" -> l
                     [] OTHER     -> Guard(r.circuit_breaker)!Take(l)]
  /\ UNCHANGED <<global_plugins, gtime>>

GatewayTick == gtime < MaxGatewayTime /\ gtime' = gtime + 1 /\ UNCHANGED <<routes, global_plugins, outcome>>

Configure ==
  \/ \E p \in RoutePaths, m \in Methods, g \in Protections : gateway_register_route(p, m, g[1], g[2])
  \/ \E p \in Plugins : gateway_add_plugin(p)
  \/ \E i \in DOMAIN routes, p \in Plugins : gateway_add_route_plugin(i, p)

GatewayNext ==
  \/ outcome # "crash" /\ Configure
  \/ \E req \in Requests : gateway_handle_request(req)
  \/ GatewayTick

GatewaySpec == GatewayInit /\ [][GatewayNext]_gatewayVars

-----------------------------------------------------------------------------
(* Routing finds a route whenever the path fits one, and only such a route;  *)
(* if it is one of another method, none of the paths fit exactly or by a     *)
(* wildcard with the right method.                                           *)
RouteSound ==
  \A req \in Requests :
    LET i == gateway_match_route(routes, req.path, req.method)
        Fits(k)  == Exact(routes[k], req.path) \/ Wildcard(routes[k], req.path)
        Meant(k) == method_match(routes[k], req.method)
    IN  /\ i = 0 <=> \A k \in DOMAIN routes : ~Fits(k) /\ ~Prefix(routes[k], req.path)
        /\ i # 0 => /\ Fits(i) \/ Prefix(routes[i], req.path)
                    /\ ~Meant(i) => ~\E k \in DOMAIN routes : Fits(k) /\ Meant(k)

(* "Demo 2: Successful Request Flow": a request that passes the checks is    *)
(* answered.  It does not hold: a breaker that admits it calls the function   *)
(* it was given, which is NULL.                                              *)
RequestsReturn == outcome # "crash"
=============================================================================
