------------------------------ MODULE MCGateway -----------------------------
(***************************************************************************)
(* The parts of mini-gateway-proxy for TLC.  They share no state, except    *)
(* that the API gateway uses the definitions of the rate limiter and the    *)
(* circuit breaker, so a behaviour exercises one of them, named by part.    *)
(***************************************************************************)
EXTENDS Backends, Admission, ReverseProxy

VARIABLES
  part,
  lb, hash, waited             \* LoadBalancer

varsBalancer  == <<lb, hash, waited>>
allVars == <<part, cbVars, poolVars, rlVars, varsBalancer, sdVars,
             chainVars, gatewayVars, proxyVars>>

(* Three servers, and two with different weights for the weighted rotation.  *)
BALANCER == INSTANCE LoadBalancer WITH
              Algorithms <- {"ROUND_ROBIN", "LEAST_CONNECTIONS", "CONSISTENT_HASH", "RANDOM"},
              Addresses <- {"a", "b", "c"}, Weights <- {1}, MaxServers <- 3, VirtualNodes <- 2,
              MaxHash <- 2, Overload <- 2, RRPeriod <- 6, MaxWeight <- 1, MaxWait <- 0

WEIGHTED == INSTANCE LoadBalancer WITH
              Algorithms <- {"WEIGHTED_ROUND_ROBIN"}, Addresses <- {"a", "b"},
              Weights <- {1, 3}, MaxServers <- 2, VirtualNodes <- 1, MaxHash <- 0,
              Overload <- 2, RRPeriod <- 2, MaxWeight <- 20, MaxWait <- 6

(* Paths of routes and requests, and of those that reach the proxy.          *)
MCRoutePaths  == {<<"a">>, <<"a", "b">>, <<"a", "*">>}
MCProtections == {<<TRUE, FALSE>>, <<FALSE, TRUE>>}
MCMessages    == {<<"request", "Host", "blank">>, <<"request", "XFF", "blank", "body">>}
MCProxyPaths  == {<<"a">>, <<"b">>}
MCRules       == {<<"a">>}

MCInit ==
  /\ part \in {"breaker", "pool", "limiter", "balancer", "weighted", "discovery", "chain",
               "gateway", "proxy"}
  /\ CbInit /\ PoolInit /\ rl_init
  /\ IF part = "weighted" THEN WEIGHTED!Init ELSE BALANCER!Init
  /\ part # "pool" => policy = "LRU"
  /\ part # "limiter" => algorithm = "TOKEN_BUCKET"
  /\ part \notin {"balancer", "weighted"} =>
       lb.algorithm = "RANDOM" /\ \A k \in DOMAIN hash : hash[k] = 0
  /\ SdInit /\ ChainInit /\ GatewayInit /\ ProxyInit

MCNext ==
  \/ /\ part = "breaker" /\ CbNext
     /\ UNCHANGED <<part, poolVars, rlVars, varsBalancer, sdVars, chainVars,
                    gatewayVars, proxyVars>>
  \/ /\ part = "pool" /\ PoolNext
     /\ UNCHANGED <<part, cbVars, rlVars, varsBalancer, sdVars, chainVars,
                    gatewayVars, proxyVars>>
  \/ /\ part = "limiter" /\ RlNext
     /\ UNCHANGED <<part, cbVars, poolVars, varsBalancer, sdVars, chainVars,
                    gatewayVars, proxyVars>>
  \/ /\ \/ part = "balancer" /\ BALANCER!Next
        \/ part = "weighted" /\ WEIGHTED!Next
     /\ UNCHANGED <<part, cbVars, poolVars, rlVars, sdVars, chainVars,
                    gatewayVars, proxyVars>>
  \/ /\ part = "discovery" /\ SdNext
     /\ UNCHANGED <<part, cbVars, poolVars, rlVars, varsBalancer, chainVars,
                    gatewayVars, proxyVars>>
  \/ /\ part = "chain" /\ ChainNext
     /\ UNCHANGED <<part, cbVars, poolVars, rlVars, varsBalancer, sdVars,
                    gatewayVars, proxyVars>>
  \/ /\ part = "gateway" /\ GatewayNext
     /\ UNCHANGED <<part, cbVars, poolVars, rlVars, varsBalancer, sdVars,
                    chainVars, proxyVars>>
  \/ /\ part = "proxy" /\ ProxyNext
     /\ UNCHANGED <<part, cbVars, poolVars, rlVars, varsBalancer, sdVars,
                    chainVars, gatewayVars>>

(* The fairness of the breaker, while it is the part that runs.              *)
Fairness ==
  /\ WF_cbVars(part = "breaker" /\ CbTick)
  /\ \A c \in Callers :
       /\ WF_cbVars(part = "breaker" /\ cb_call(c))
       /\ WF_cbVars(part = "breaker" /\ \E ok \in BOOLEAN : Returns(c, ok))

MCSpec == MCInit /\ [][MCNext]_allVars /\ Fairness

-----------------------------------------------------------------------------
(* The properties of the instances, each stated in its own module.           *)

(* Every object keeps its type and every table its capacity.                 *)
TypesOK ==
  /\ PoolTypeOK /\ CbTypeOK /\ RlTypeOK /\ SdTypeOK
  /\ part = "balancer" => BALANCER!TypeOK
  /\ part = "weighted" => WEIGHTED!TypeOK

(* Load balancer and service discovery: nobody healthy is passed over for    *)
(* long, and nobody is taken out of rotation without a reason.               *)
ServersInRotation ==
  /\ TypesOK
  /\ part = "balancer" => BALANCER!NobodyStarves
  /\ part = "weighted" => WEIGHTED!NobodyStarves
  /\ DownForAReason

(* Load balancer: servers that come and go move only the keys they must.     *)
KeysStay == [][part = "balancer" => BALANCER!KeysStay]_varsBalancer
=============================================================================
