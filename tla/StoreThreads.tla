---------------------------- MODULE StoreThreads ----------------------------
(***************************************************************************)
(* The event store with some of its threads: arcdps calls mod_combat only  *)
(* where there is combat, the window procedure's thread sends an event     *)
(* only for a key bind, and defer() makes a thread only for an automatic   *)
(* prepare (mod.cpp).                                                      *)
(***************************************************************************)
EXTENDS EventStore

VARIABLE present   \* the threads that call the store

ThreadsInit == Init /\ present \in SUBSET Thread

ThreadsNext ==
  /\ \/ Tick
     \/ \E t \in present : Run(t) \/ Call(t)
     \/ \E copied \in saving : WriteLog(copied)
  /\ UNCHANGED present

ThreadsSpec == ThreadsInit /\ [][ThreadsNext]_<<vars, present>> /\ Fairness

=============================================================================
