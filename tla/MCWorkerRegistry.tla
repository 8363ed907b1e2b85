-------------------------- MODULE MCWorkerRegistry --------------------------
(***************************************************************************)
(* Small call graphs for WorkerRegistry: a diamond whose two middle        *)
(* instances call the same instance, one recursive call, and an instance   *)
(* nobody calls.                                                           *)
(***************************************************************************)
EXTENDS PoolInvariants, TLC

CONSTANTS kRoot, kLeft, kRight, kShared, kUnused, dRun, dMid, dShared, w1, w2

MCWorkers == {w1, w2}
MCInstances == {kRoot, kLeft, kRight, kShared, kUnused}
MCDefs == {dRun, dMid, dShared}

\* kLeft and kRight are two instances of one polymorphic definition
MCDefOf == [k \in MCInstances |->
    CASE k = kRoot -> dRun
      [] k \in {kLeft, kRight} -> dMid
      [] OTHER -> dShared]

MCCalls == [k \in MCInstances |->
    CASE k = kRoot -> {kLeft, kRight}
      [] k \in {kLeft, kRight} -> {kShared}
      [] k = kShared -> {kShared}
      [] OTHER -> {kLeft}]

AnyInstance == {kLeft, kShared}
RootOrShared == {kRoot, kShared}
AnyWorker == {w1}
None == {}
=============================================================================
