----------------------------- MODULE NativeHeap -----------------------------
(***************************************************************************)
(* NativeRuntime with the Java heap, which is outside the repository: the  *)
(* GC locker of the HotSpot VM.  While a thread is in a critical region,   *)
(* between GetPrimitiveArrayCritical and its release, there is no garbage  *)
(* collection.  A thread whose allocation needs one stalls until the last  *)
(* region ends; a thread that is in a region itself cannot, and gets       *)
(* null and an OutOfMemoryError instead.  GetStringUTFChars allocates in   *)
(* the C heap.  After a collection there is room for every object.         *)
(***************************************************************************)
EXTENDS NativeRuntime

VARIABLES
  needsGC,   (* Whether an allocation waits for a garbage collection.      *)
  stalled,   (* The threads whose allocation it is.                        *)
  failed     (* The operations in which an allocation failed, "none" for   *)
             (* Java code.                                                 *)

heapVars == << needsGC, stalled, failed >>

InRegion(t) == critical[t] > 0
RegionFree  == \A t \in Threads : ~InRegion(t)

HeapInit ==
  /\ Init
  /\ needsGC = FALSE
  /\ stalled = {}
  /\ failed  = {}

(* An allocation, which either fits or needs a collection.                 *)
Fits == UNCHANGED heapVars

NeedsGC(t) ==
  \/ RegionFree /\ Fits
  \/ /\ InRegion(t)
     /\ needsGC' = TRUE
     /\ failed'  = failed \cup {frame[t].op}
     /\ UNCHANGED stalled
  \/ /\ ~RegionFree /\ ~InRegion(t)
     /\ needsGC' = TRUE
     /\ stalled' = stalled \cup {t}
     /\ UNCHANGED failed

(* Java code allocates an object.                                          *)
AllocateInJava(t) ==
  /\ process = "running"
  /\ frame[t] = InJava /\ t \notin stalled
  /\ Fits \/ NeedsGC(t)
  /\ UNCHANGED vars

(* The string of NewStringUTF is allocated, or the thread stalls first.    *)
AllocateString(t) ==
  /\ IsAt(t, "result")
  /\ Fits \/ NeedsGC(t)
  /\ IF t \in stalled' THEN UNCHANGED vars ELSE NewStringUTF(t)

(* Mutant: nobody is woken.                                                *)
CollectUnnoticed ==
  /\ needsGC' = (needsGC /\ ~RegionFree')
  /\ UNCHANGED << stalled, failed >>

(* The end of the last region collects, and wakes the threads that wait.   *)
CollectIfFree ==
  /\ needsGC' = (needsGC /\ ~RegionFree')
  /\ stalled' = IF RegionFree' THEN {} ELSE stalled
  /\ UNCHANGED failed

(* No region begins while a collection is needed.                          *)
MustWait(t) == IsAt(t, "array") /\ needsGC /\ ~InRegion(t)

HeapAdvance(t) ==
  /\ t \notin stalled
  /\ \/ AllocateString(t)
     \/ /\ ~IsAt(t, "result") /\ ~MustWait(t)
        /\ Advance(t)
        /\ CollectIfFree

HeapFromJava(t) ==
  \/ AllocateInJava(t)
  \/ t \notin stalled /\ FromJava(t) /\ UNCHANGED heapVars

HeapNext == \E t \in Threads : HeapAdvance(t) \/ HeapFromJava(t)

HeapSpec == HeapInit /\ [][HeapNext]_<< vars, heapVars >>

(* As FairSpec: a thread in a native method runs unless the VM stops it.   *)
FairHeapSpec ==
  HeapSpec /\ \A t \in Threads : WF_<< vars, heapVars >>(HeapAdvance(t))

-----------------------------------------------------------------------------

(* The variables are well formed: who waits, waits for a collection; and   *)
(* the collection waits for a critical region that a thread which is not   *)
(* stopped is on its way through.                                          *)
HeapTypeOK ==
  /\ stalled \subseteq Threads
  /\ failed \subseteq Operations \cup {"none"}
  /\ stalled # {} => needsGC
  /\ process = "running" /\ needsGC =>
       \E t \in Threads : InRegion(t) /\ frame[t] # InJava /\ t \notin stalled

(* toLLVMAssemblyCode and toMachineAssemblyCode create their result in a   *)
(* critical region of their own, and may run out of memory though there is *)
(* garbage; nothing else does, in this thread or any other.                *)
OnlyListingsFail ==
  failed \subseteq {"toLLVMAssemblyCode", "toMachineAssemblyCode"}

(* A thread that the VM has stopped, in an allocation or at the beginning  *)
(* of a region, goes on, or the process ends.                              *)
StoppedThreadsGoOn ==
  \A t \in Threads :
     t \in stalled \/ MustWait(t)
       ~> (t \notin stalled /\ ~MustWait(t)) \/ process # "running"

=============================================================================
