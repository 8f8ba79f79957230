------------------------------ MODULE OnceCell ------------------------------
(***************************************************************************)
(* What the users of TestRuntimeNativeLoader.loadApi rely on: every class  *)
(* loader has one API object at most, made by the first call that succeeds *)
(* and returned by all later ones; a call that fails changes nothing, so   *)
(* that a later one may still succeed.  Each call takes effect at once.    *)
(***************************************************************************)
CONSTANTS
  Threads,   (* Callers of loadApi.                                         *)
  Loaders,   (* Class loaders; each has its own TestRuntimeNativeLoader.    *)
  LoaderOf   (* The class loader through which a thread sees the class.     *)

VARIABLES
  api,       (* The object of each class loader, named after its creator.   *)
  result     (* What the last call of each thread returned.                 *)

vars == << api, result >>

None   == "none"
Failed == "failed"

Init ==
  /\ api    = [l \in Loaders |-> None]
  /\ result = [t \in Threads |-> None]

Succeed(t) ==
  LET l == LoaderOf[t]
  IN  /\ result[t] = None
      /\ api'    = [api EXCEPT ![l] = IF @ = None THEN t ELSE @]
      /\ result' = [result EXCEPT ![t] = api'[l]]

Fail(t) ==
  /\ result[t] = None
  /\ api[LoaderOf[t]] = None
  /\ result' = [result EXCEPT ![t] = Failed]
  /\ UNCHANGED api

(* The thread is done with the result and may call again.                  *)
Again(t) ==
  /\ result[t] # None
  /\ result' = [result EXCEPT ![t] = None]
  /\ UNCHANGED api

(* The process ends; the next one begins anew.                             *)
Restart ==
  /\ api'    = [l \in Loaders |-> None]
  /\ result' = [t \in Threads |-> None]

Next == (\E t \in Threads : Succeed(t) \/ Fail(t) \/ Again(t)) \/ Restart

Spec == Init /\ [][Next]_vars

=============================================================================
