------------------------------ MODULE MCStores ------------------------------
(* The stores below the guard: the spend limiter, the consume-once registry, *)
(* the lock of the file-backed stores, and the durable kill switch.  The     *)
(* stores share nothing, so each behaviour follows one of them, its focus.   *)
EXTENDS SpendLimiter, ConsumeStore, FileMutex, FreezeHydrate, TLC

VARIABLE focus

MCVars == <<limiterVars, consumeVars, mutexVars, freezeVars, focus>>

(* A budget with a scope-wide cap, a scope-wide count and a per-merchant     *)
(* count, and a misconfigured budget; a record of an earlier release.        *)
Window(len, cap, count, dim) ==
  [windowMs |-> len, capMinor |-> cap, maxCount |-> count, dimension |-> dim]

MCWindows ==
  ("daily" :> {Window(2, {2}, {}, "scope"), Window(2, {}, {2}, "scope"),
               Window(1, {}, {1}, "merchant")})
  @@ ("broken" :> {Window(0, {2}, {}, "scope")})

MCLegacy == {[id |-> "i3", scope |-> "daily", amount |-> 1, ms |-> 0, key |-> {}]}

(* A single-use and a two-use mandate. *)
MCMaxUses == ("single" :> 1) @@ ("double" :> 2)

(* Two payments of one guard process that restarts. *)
MCHostOf == [p \in Payment |-> "g1"]

-----------------------------------------------------------------------------
MCInit ==
  /\ focus \in {"limiter", "consume", "mutex", "freeze"}
  /\ LimiterInit /\ ConsumeInit /\ MutexInit /\ FreezeInit

MCNext ==
  /\ UNCHANGED focus
  /\ \/ focus = "limiter" /\ LimiterNext /\ UNCHANGED <<consumeVars, mutexVars, freezeVars>>
     \/ focus = "consume" /\ ConsumeNext /\ UNCHANGED <<limiterVars, mutexVars, freezeVars>>
     \/ focus = "mutex" /\ MutexNext /\ UNCHANGED <<limiterVars, consumeVars, freezeVars>>
     \/ focus = "freeze" /\ FreezeNext /\ UNCHANGED <<limiterVars, consumeVars, mutexVars>>

MCSpec == MCInit /\ [][MCNext]_MCVars /\ FreezeFairness
=============================================================================
