------------------------------ MODULE Registry ------------------------------
(***************************************************************************)
(* subscriptionRegistry (internal/app/subscriptions.go): the two maps that *)
(* turn the track alias of an incoming subgroup stream into a              *)
(* subscription, and the request ID allocator.                             *)
(*                                                                         *)
(* The session creates one subscription per role, so a *trackSubscription  *)
(* is identified by its role; NoSub is the nil pointer, which is also what *)
(* a Go map returns for a key it does not hold.  Every method runs under   *)
(* reg.mu, so each one is a single step.                                   *)
(***************************************************************************)
EXTENDS Integers

CONSTANT Ids   \* the uint64 values that occur as request IDs or track aliases

(***************************************************************************)
(* Three subscriptions take the request IDs 0, 2 and 4; the allocator's    *)
(* next value, 6, is never used as a key.                                  *)
(***************************************************************************)
ASSUME IdsAssumption == Ids \subseteq Nat /\ {0, 2, 4} \subseteq Ids

Roles == {"catalog", "init", "media"}
NoSub == "nil"
NoId  == -1      \* no request ID / no alias yet

VARIABLES
  nextID,      \* the next request ID to hand out
  byRequest,   \* request ID -> subscription
  byAlias      \* track alias -> subscription

registryVars == <<nextID, byRequest, byAlias>>

RegistryTypeOK ==
  /\ nextID \in Nat
  /\ byRequest \in [Ids -> Roles \cup {NoSub}]
  /\ byAlias \in [Ids -> Roles \cup {NoSub}]

newSubscriptionRegistry ==
  /\ nextID = 0
  /\ byRequest = [i \in Ids |-> NoSub]
  /\ byAlias = [i \in Ids |-> NoSub]

\* allocRequestID: client request IDs are even.
allocRequestID(id) == id = nextID /\ nextID' = nextID + 2

register(sub, id) == byRequest' = [byRequest EXCEPT ![id] = sub]

bindAlias(sub, alias) == byAlias' = [byAlias EXCEPT ![alias] = sub]

\* Faulty variants: request IDs take precedence; no fallback.
lookupRequestFirst(trackAlias) ==
  IF byRequest[trackAlias] # NoSub THEN byRequest[trackAlias] ELSE byAlias[trackAlias]

lookupAliasOnly(trackAlias) == byAlias[trackAlias]

(***************************************************************************)
(* A bound alias wins; otherwise the alias is tried as a request ID, for   *)
(* objects that arrive before SUBSCRIBE_OK was processed.                  *)
(***************************************************************************)
lookupDelivery(trackAlias) ==
  IF byAlias[trackAlias] # NoSub THEN byAlias[trackAlias] ELSE byRequest[trackAlias]
=============================================================================
