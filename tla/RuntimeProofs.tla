---------------------------- MODULE RuntimeProofs ----------------------------
(***************************************************************************)
(* Theorems about Runtime, for every size of the pool.                     *)
(*                                                                         *)
(* None of the three facts a caller relies on (what xbrtime_init's success *)
(* means, that there is no way back from xbrtime_close, which calls misuse *)
(* memory) is inductive: each needs to know how the configuration pointer, *)
(* the static flag and the barrier's condition variable move together,     *)
(* which is what ConfigInv says.                                           *)
(***************************************************************************)
EXTENDS Runtime, TLAPS

\* The flag is set with the first complete configuration and never cleared; a
\* configuration freed afterwards went with xbrtime_close, which destroys the
\* condition variable too.
FlagFollows ==
    /\ config = "null" => ~initialized
    /\ config = "dangling" /\ initialized => cond = "destroyed"

\* Success is reported only with the flag set.
SuccessHasFlag == initResult = "ok" => initialized

ConfigInv ==
    /\ config \in Pointer
    /\ LiveConfigComplete
    /\ FlagFollows
    /\ SuccessHasFlag
    /\ initialized /\ config = "live" => phase # "create"
    /\ phase = "create" => config = "null"

LEMMA ConfigInvInit == Init => ConfigInv
BY DEF Init, ConfigInv, Pointer, LiveConfigComplete, FlagFollows, SuccessHasFlag

----------------------------------------------------------------------------
(* Every step preserves it *)

\* What neither touches the configuration nor reports a success.
LEMMA ConfigKept ==
    ASSUME ConfigInv, UNCHANGED <<configVars, initResult>>,
           phase' = "create" => phase = "create",
           phase' = "main" => phase \in {"create", "main"}
    PROVE  ConfigInv'
BY DEF ConfigInv, configVars, Pointer, LiveConfigComplete, FlagFollows, SuccessHasFlag

LEMMA InitStepPreserves == ASSUME ConfigInv, InitStep PROVE ConfigInv'
<1> USE DEF ConfigInv, Pointer, LiveConfigComplete, FlagFollows, SuccessHasFlag, Returned,
      configVars, poolVars, Running
<1>1. CASE AlreadyInitialized
  BY <1>1 DEF AlreadyInitialized
<1>2. CASE RefuseInit
  BY <1>2 DEF RefuseInit
<1>3. CASE InitNoConfig
  BY <1>3 DEF InitNoConfig, MayInit
<1>4. CASE InitNoMmap
  BY <1>4 DEF InitNoMmap, MayInit, Released
<1>5. CASE InitWithoutPool
  BY <1>5 DEF InitWithoutPool, MayInit
<1>6. CASE InitNoMap
  BY <1>6 DEF InitNoMap, MayInit, Released
<1>7. CASE InitOk
  BY <1>7 DEF InitOk, MayInit, CondAfterInit
<1> QED
  BY <1>1, <1>2, <1>3, <1>4, <1>5, <1>6, <1>7 DEF InitStep

LEMMA ClosePreserves == ASSUME ConfigInv, Close PROVE ConfigInv'
<1>1. CASE CloseEffect
  BY <1>1 DEF Close, CloseEffect, Released, Running, ConfigInv, Pointer, LiveConfigComplete,
    FlagFollows, SuccessHasFlag, poolVars
<1>2. CASE UNCHANGED <<configVars, initResult>>
  BY <1>2, ConfigKept DEF Close, poolVars, Running
<1> QED
  BY <1>1, <1>2 DEF Close

LEMMA ConfigInvStep == ConfigInv /\ [Next]_vars => ConfigInv'
<1> SUFFICES ASSUME ConfigInv, [Next]_vars PROVE ConfigInv'
  OBVIOUS
<1>1. ASSUME CreateQueue \/ QueueAllocFails \/ QueueInitFails \/ Constructed
      PROVE  ConfigInv'
  BY <1>1, ConfigKept DEF CreateQueue, QueueAllocFails, QueueInitFails, GiveUp, Constructed
<1>2. ASSUME CallBarrier \/ BarrierSpin PROVE ConfigInv'
  BY <1>2, ConfigKept DEF CallBarrier, BarrierSpin, poolVars, Running
<1>3. ASSUME Query \/ Malloc \/ Free \/ Exit \/ ExitWithoutPool PROVE ConfigInv'
  BY <1>3, ConfigKept DEF Query, Malloc, Free, Exit, ExitWithoutPool, poolVars, Running
<1>4. CASE UNCHANGED vars
  BY <1>4, ConfigKept DEF vars, poolVars
<1> QED
  BY <1>1, <1>2, <1>3, <1>4, InitStepPreserves, ClosePreserves DEF Next

----------------------------------------------------------------------------
(* Theorems *)

\* The configuration, the static flag and the condition variable move together.
THEOREM ConfigInvariant == Spec => []ConfigInv
BY ConfigInvInit, ConfigInvStep, PTL DEF Spec

\* Whatever allocation fails, and whatever is called in between, a process in
\* main never holds half of a configuration.
THEOREM LiveComplete == Spec => []LiveConfigComplete
<1>1. ConfigInv => LiveConfigComplete
  BY DEF ConfigInv
<1> QED
  BY ConfigInvariant, <1>1, PTL

\* What xbrtime_init's 0 is worth: a configuration, except after xbrtime_close.
THEOREM SuccessMeans == Spec => []SuccessExplained
<1>1. ConfigInv => SuccessExplained
  BY DEF ConfigInv, FlagFollows, SuccessHasFlag, SuccessExplained, Pointer
<1> QED
  BY ConfigInvariant, <1>1, PTL

\* A freed configuration is never replaced.
THEOREM FreedForGood == Spec => NoWayBack
<1>1. ConfigInv /\ [Next]_vars => [config = "dangling" => config' = "dangling"]_vars
  BY DEF Next, vars, configVars, CreateQueue, QueueAllocFails, QueueInitFails, GiveUp,
    Constructed, InitStep, AlreadyInitialized, RefuseInit, InitNoConfig, InitNoMmap,
    InitWithoutPool, InitNoMap, InitOk, MayInit, CallBarrier, BarrierSpin, Close, CloseEffect,
    Released, Query, Malloc, Free, Exit, ExitWithoutPool
<1> QED
  BY ConfigInvariant, <1>1, PTL DEF Spec, NoWayBack

\* No call misuses memory while the pool exists and the configuration is live.
THEOREM MisusesListed == Spec => MisuseExplained
<1>1. ConfigInv /\ [Next]_vars =>
        [faults' # faults => \/ config = "dangling"
                             \/ PoolMissing
                             \/ config = "null" /\ cond = "destroyed"]_vars
  <2> SUFFICES ASSUME ConfigInv, Next, faults' # faults
               PROVE  config = "dangling" \/ PoolMissing \/ (config = "null" /\ cond = "destroyed")
    OBVIOUS
  <2>1. ASSUME CreateQueue \/ QueueAllocFails \/ QueueInitFails \/ Constructed \/ BarrierSpin
                 \/ Malloc \/ Free \/ Exit
        PROVE  FALSE
    BY <2>1 DEF CreateQueue, QueueAllocFails, QueueInitFails, GiveUp, Constructed, BarrierSpin,
      Malloc, Free, Exit
  <2>2. CASE InitStep
    BY <2>2 DEF InitStep, AlreadyInitialized, RefuseInit, InitNoConfig, InitNoMmap,
      InitWithoutPool, InitNoMap, InitOk
  <2>3. CASE CallBarrier
    BY <2>3 DEF CallBarrier, BarrierFaults
  <2>4. CASE Close
    <3>1. Running /\ faults' = faults \cup CloseFaults
      BY <2>4 DEF Close, CloseEffect
    <3>2. config = "live" => cond = "ready"
      BY <3>1 DEF Running, ConfigInv, LiveConfigComplete
    <3> QED
      BY <3>1, <3>2 DEF CloseFaults, BarrierFaults, ConfigInv, Pointer
  <2>5. CASE Query
    BY <2>5 DEF Query
  <2>6. CASE ExitWithoutPool
    BY <2>6 DEF ExitWithoutPool, PoolMissing
  <2> QED
    BY <2>1, <2>2, <2>3, <2>4, <2>5, <2>6 DEF Next
<1> QED
  BY <1>1, ConfigInvariant, PTL DEF Spec, MisuseExplained
=============================================================================
