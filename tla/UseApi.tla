------------------------------- MODULE UseApi -------------------------------
(***************************************************************************)
(* webapp/src/useApi.ts: a polled endpoint.  A hook is a record of the     *)
(* requests of its current effect and of the state it shows.  Each tick    *)
(* asks again whatever became of the requests before, so that answers      *)
(* overtake each other; refresh and unmounting cancel what was asked.      *)
(* Hooks are values: the views keep them in variables of their own.        *)
(***************************************************************************)
EXTENDS Naturals, Sequences

CONSTANTS
  None,         \* null, and no request
  MaxTroubles   \* bound on failed requests and on what others do meanwhile

ASSUME TroublesAssumption == MaxTroubles \in Nat

VARIABLE troubles

Trouble == troubles < MaxTroubles /\ troubles' = troubles + 1

NoRequest == [at |-> "none", value |-> None]
Asked == [at |-> "asked", value |-> None]

(* A component that is not mounted has no requests that are listened to.   *)
Unmounted == [asked |-> <<>>, data |-> None, error |-> FALSE]

(* An effect of a hook with at most n requests under way asks at once.     *)
FirstAsk(n) == [s \in 1..n |-> IF s = 1 THEN Asked ELSE NoRequest]

Mounted(n) == [asked |-> FirstAsk(n), data |-> None, error |-> FALSE]

Ticks(hook, s) == hook.asked[s] = NoRequest
Ticked(hook, s) == [hook EXCEPT !.asked[s] = Asked]

Awaited(hook, s) == hook.asked[s].at = "asked"
Answered(hook, s, value) ==
  [hook EXCEPT !.asked[s] = [at |-> "answered", value |-> value]]

Failed(hook, s) == [hook EXCEPT !.asked[s] = NoRequest, !.error = TRUE]

Arrives(hook, s) == hook.asked[s].at = "answered"
Arrived(hook, s) == [asked |-> [hook.asked EXCEPT ![s] = NoRequest],
                     data |-> hook.asked[s].value, error |-> FALSE]

(* Faulty variant: the requests of the effect before are still heard.      *)
RefreshedOnly(hook) ==
  [hook EXCEPT !.asked = [s \in DOMAIN @ |-> IF @[s] = NoRequest THEN Asked ELSE @[s]]]

(* refresh: a new effect; what was asked before is cancelled.              *)
Refreshed(hook) == [hook EXCEPT !.asked = FirstAsk(Len(@))]

=============================================================================
