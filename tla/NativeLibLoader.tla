--------------------------- MODULE NativeLibLoader ---------------------------
(***************************************************************************)
(* io.github.maropu.nvlib: TestRuntimeNativeLoader.loadApi, which is       *)
(* synchronized on its class, and NativeLibLoaderImpl, which it calls to   *)
(* extract the library from the jar to a file in /tmp and to verify the    *)
(* copy.  The class exists once in every class loader, each with a lock    *)
(* and a "testApi" of its own; the files and the native libraries that     *)
(* the VM has loaded are shared by all of them.  Any access to a file may  *)
(* fail with an IOException.  The process may end at any step, by a crash  *)
(* or an exit; the next one finds the files that it left in /tmp.          *)
(***************************************************************************)
EXTENDS Integers

CONSTANTS
  Threads,    (* Callers of loadApi.                                        *)
  Loaders,    (* Class loaders.                                             *)
  LoaderOf,   (* The class loader through which a thread sees the class.    *)
  Chunks,     (* The size of the library in buffers of 8192 bytes.          *)
  MaxCalls,   (* A bound on the number of calls.                           *)
  MaxFiles    (* A bound on the files extracted; TLC's instances have one   *)
              (* for every call.                                            *)

None   == "none"
Failed == "failed"
Absent == -1

ASSUME ThreadAssumption == {None, Failed} \cap (Threads \cup Loaders) = {}
ASSUME LoaderAssumption == LoaderOf \in [Threads -> Loaders]
ASSUME ChunkAssumption  == Chunks \in Nat \ {0}
ASSUME BoundAssumption  == MaxCalls \in Nat /\ MaxFiles \in Nat

(* The names of the extracted files.                                       *)
Uuids == 1 .. MaxFiles
NoUuid == 0

VARIABLES
  supported, (* Whether os.name and os.arch name a supported platform.      *)
  pc,      (* The step of each thread.                                      *)
  lock,    (* The thread in loadApi or isLoaded of each class loader.       *)
  testApi, (* The field testApi: the thread that created the object.        *)
  result,  (* What the last call of a thread returned, or Failed.           *)
  uuid,    (* The name a thread drew for its file.                          *)
  drawn,   (* The number of names drawn so far.                             *)
  file,    (* Chunks in each file of /tmp, or Absent.                       *)
  loadedBy,(* The class loader that has loaded a file as a native library.  *)
  calls    (* The number of calls made so far.                              *)

envVars   == << supported, calls >>
classVars == << lock, testApi >>
fileVars  == << uuid, drawn, file, loadedBy >>
vars      == << envVars, classVars, fileVars, pc, result >>

Steps == {"idle", "entering", "testing", "opening", "copying", "verifying",
          "loading", "creating", "leaving"}

Init ==
  /\ supported \in BOOLEAN
  /\ pc       = [t \in Threads |-> "idle"]
  /\ lock     = [l \in Loaders |-> None]
  /\ testApi  = [l \in Loaders |-> None]
  /\ result   = [t \in Threads |-> None]
  /\ uuid     = [t \in Threads |-> NoUuid]
  /\ drawn    = 0
  /\ file     = [u \in Uuids |-> Absent]
  /\ loadedBy = [u \in Uuids |-> None]
  /\ calls    = 0

Goto(t, step) == pc' = [pc EXCEPT ![t] = step]

(* An exception leaves the synchronized method with no result.             *)
Throw(t) == Goto(t, "leaving") /\ result' = [result EXCEPT ![t] = Failed]

CallLoadApi(t) ==
  /\ pc[t] = "idle"
  /\ calls < MaxCalls
  /\ Goto(t, "entering")
  /\ calls'  = calls + 1
  /\ result' = [result EXCEPT ![t] = None]
  /\ UNCHANGED << classVars, fileVars, supported >>

(* Mutant: loadApi is not synchronized.                                    *)
EnterUnlocked(t) ==
  /\ pc[t] = "entering"
  /\ lock' = [lock EXCEPT ![LoaderOf[t]] = t]
  /\ Goto(t, "testing")
  /\ UNCHANGED << envVars, fileVars, testApi, result >>

Enter(t) ==
  /\ pc[t] = "entering"
  /\ lock[LoaderOf[t]] = None
  /\ lock' = [lock EXCEPT ![LoaderOf[t]] = t]
  /\ Goto(t, "testing")
  /\ UNCHANGED << envVars, fileVars, testApi, result >>

(* if (testApi != null) return testApi                                     *)
ReturnExisting(t) ==
  /\ pc[t] = "testing"
  /\ testApi[LoaderOf[t]] # None
  /\ result' = [result EXCEPT ![t] = testApi[LoaderOf[t]]]
  /\ Goto(t, "leaving")
  /\ UNCHANGED << envVars, classVars, fileVars >>

(* UUID.randomUUID() never gives the same name twice.                      *)
RandomUUID == drawn + 1

(* Mutant: the name is that of the library alone.                          *)
OutputNameFixed == 1

(* Mutant: the least number that no thread of the process has.             *)
OutputNamePerProcess ==
  LET used == {uuid[t] : t \in Threads}
  IN  CHOOSE u \in Uuids : u \notin used /\ 1 .. u - 1 \subseteq used

(* outputName, with the UUID in it.                                        *)
OutputName == RandomUUID

(* Mutant: testApi is not tested.                                          *)
NameFileAgain(t) ==
  /\ pc[t] = "testing"
  /\ supported
  /\ drawn < MaxFiles
  /\ uuid'  = [uuid EXCEPT ![t] = OutputName]
  /\ drawn' = drawn + 1
  /\ Goto(t, "opening")
  /\ UNCHANGED << envVars, classVars, result, file, loadedBy >>

(* Otherwise loadNativeLibFromJar names the file to extract.               *)
NameFile(t) ==
  /\ pc[t] = "testing"
  /\ testApi[LoaderOf[t]] = None
  /\ supported
  /\ drawn < MaxFiles
  /\ uuid'  = [uuid EXCEPT ![t] = OutputName]
  /\ drawn' = drawn + 1
  /\ Goto(t, "opening")
  /\ UNCHANGED << envVars, classVars, result, file, loadedBy >>

(* checkIfPlatformSupported throws a RuntimeException.                     *)
RefusePlatform(t) ==
  /\ pc[t] = "testing"
  /\ testApi[LoaderOf[t]] = None
  /\ ~supported
  /\ Throw(t)
  /\ UNCHANGED << envVars, classVars, fileVars >>

(* new FileOutputStream(extractedFile) creates or truncates the file.      *)
OpenFile(t) ==
  /\ pc[t] = "opening"
  /\ file' = [file EXCEPT ![uuid[t]] = 0]
  /\ Goto(t, "copying")
  /\ UNCHANGED << envVars, classVars, result, uuid, drawn, loadedBy >>

(* Mutant: the last buffer is written once more at the end of the stream.  *)
CopyChunkPastEnd(t) ==
  /\ pc[t] = "copying"
  /\ file[uuid[t]] <= Chunks
  /\ file' = [file EXCEPT ![uuid[t]] = @ + 1]
  /\ UNCHANGED << envVars, classVars, pc, result, uuid, drawn, loadedBy >>

(* One round of the loop that reads and writes a buffer, and its end.      *)
CopyChunk(t) ==
  /\ pc[t] = "copying"
  /\ file[uuid[t]] < Chunks
  /\ file' = [file EXCEPT ![uuid[t]] = @ + 1]
  /\ UNCHANGED << envVars, classVars, pc, result, uuid, drawn, loadedBy >>

EndCopy(t) ==
  /\ pc[t] = "copying"
  /\ file[uuid[t]] = Chunks
  /\ Goto(t, "verifying")
  /\ UNCHANGED << envVars, classVars, fileVars, result >>

(* An IOException is swallowed by extractFileFromJar, which returns null:  *)
(* its caller then throws a NullPointerException.  The file stays.         *)
FailToExtract(t) ==
  /\ pc[t] \in {"opening", "copying", "verifying"}
  /\ Throw(t)
  /\ UNCHANGED << envVars, classVars, fileVars >>

(* Mutant: System.load is forgotten.                                       *)
VerifyOnly(t) ==
  /\ pc[t] = "verifying"
  /\ IF file[uuid[t]] = Chunks
     THEN Goto(t, "creating") /\ UNCHANGED result
     ELSE Throw(t)
  /\ UNCHANGED << envVars, classVars, fileVars >>

(* contentsEquals; a difference is a RuntimeException.                     *)
Verify(t) ==
  /\ pc[t] = "verifying"
  /\ IF file[uuid[t]] = Chunks
     THEN Goto(t, "loading") /\ UNCHANGED result
     ELSE Throw(t)
  /\ UNCHANGED << envVars, classVars, fileVars >>

(* System.load: the VM refuses a file that another class loader has loaded *)
(* with an UnsatisfiedLinkError.                                           *)
Loadable(t) == loadedBy[uuid[t]] \in {None, LoaderOf[t]}

Load(t) ==
  /\ pc[t] = "loading"
  /\ IF Loadable(t)
     THEN /\ loadedBy' = [loadedBy EXCEPT ![uuid[t]] = LoaderOf[t]]
          /\ Goto(t, "creating")
          /\ UNCHANGED result
     ELSE Throw(t) /\ UNCHANGED loadedBy
  /\ UNCHANGED << envVars, classVars, uuid, drawn, file >>

(* Or for any other reason: a library that LLVM needs is not found.        *)
FailToLoad(t) ==
  /\ pc[t] = "loading"
  /\ Throw(t)
  /\ UNCHANGED << envVars, classVars, fileVars >>

(* "testApi = new TestRuntimeNative(); return testApi"                     *)
CreateApi(t) ==
  /\ pc[t] = "creating"
  /\ testApi' = [testApi EXCEPT ![LoaderOf[t]] = t]
  /\ result'  = [result EXCEPT ![t] = t]
  /\ Goto(t, "leaving")
  /\ UNCHANGED << envVars, fileVars, lock >>

(* Mutant: an exception leaves the lock taken.                             *)
LeaveByReturn(t) ==
  /\ pc[t] = "leaving"
  /\ lock' = IF result[t] = Failed THEN lock
             ELSE [lock EXCEPT ![LoaderOf[t]] = None]
  /\ Goto(t, "idle")
  /\ UNCHANGED << envVars, fileVars, testApi, result >>

(* The lock is released when the method returns and when it throws.        *)
Leave(t) ==
  /\ pc[t] = "leaving"
  /\ lock' = [lock EXCEPT ![LoaderOf[t]] = None]
  /\ Goto(t, "idle")
  /\ UNCHANGED << envVars, fileVars, testApi, result >>

(* The process ends and is started again: only the files of /tmp remain,   *)
(* whole or not, for nobody deletes them.                                  *)
Restart ==
  /\ pc'       = [t \in Threads |-> "idle"]
  /\ lock'     = [l \in Loaders |-> None]
  /\ testApi'  = [l \in Loaders |-> None]
  /\ result'   = [t \in Threads |-> None]
  /\ uuid'     = [t \in Threads |-> NoUuid]
  /\ loadedBy' = [u \in Uuids |-> None]
  /\ UNCHANGED << envVars, drawn, file >>

Step(t) ==
  \/ Enter(t) \/ ReturnExisting(t) \/ RefusePlatform(t) \/ NameFile(t)
  \/ OpenFile(t) \/ CopyChunk(t) \/ EndCopy(t) \/ FailToExtract(t)
  \/ Verify(t) \/ Load(t) \/ FailToLoad(t) \/ CreateApi(t) \/ Leave(t)

Next == (\E t \in Threads : CallLoadApi(t) \/ Step(t)) \/ Restart

(* A thread in loadApi keeps running; it enters a class whose lock is free.*)
Fairness == \A t \in Threads : WF_vars(Step(t))

Spec == Init /\ [][Next]_vars /\ Fairness

-----------------------------------------------------------------------------

(* The variables have their types.                                         *)
TypeOK ==
  /\ supported \in BOOLEAN
  /\ pc \in [Threads -> Steps]
  /\ lock \in [Loaders -> Threads \cup {None}]
  /\ testApi \in [Loaders -> Threads \cup {None}]
  /\ result \in [Threads -> Threads \cup {None, Failed}]
  /\ uuid \in [Threads -> Uuids \cup {NoUuid}]
  /\ drawn \in Uuids \cup {0}
  /\ file \in [Uuids -> Absent .. Chunks]
  /\ loadedBy \in [Uuids -> Loaders \cup {None}]
  /\ calls \in 0 .. MaxCalls

(* A class loader never loads the library twice, and what is loaded is the *)
(* whole library: a file left by a failed extraction is never loaded.      *)
LoadsWholeLibraryOnce ==
  /\ \A u \in Uuids : loadedBy[u] # None => file[u] = Chunks
  /\ \A u, v \in Uuids :
       loadedBy[u] # None /\ loadedBy[u] = loadedBy[v] => u = v

(* "to ensure multiple class loaders can read it multiple times": the file *)
(* to load is never one another class loader has loaded, or is writing.    *)
LoadersDoNotShareFiles ==
  \A t \in Threads :
     pc[t] \in {"copying", "verifying", "loading"} =>
        /\ Loadable(t)
        /\ \A s \in Threads \ {t} :
             pc[s] \in {"copying", "verifying", "loading"} => uuid[s] # uuid[t]

(* isLoaded() returns true only when the class loader can call the library.*)
ApiIsBacked ==
  \A l \in Loaders :
     testApi[l] # None => \E u \in Uuids : loadedBy[u] = l

(* The name that a thread draws is not that of a file which is there: not  *)
(* of one that another class loader uses, nor of one that a failed call or *)
(* an earlier process left behind, which stays as it is and unused.        *)
NamesAreFresh ==
  [][\A t \in Threads :
       uuid'[t] \notin {uuid[t], NoUuid} =>
         file[uuid'[t]] = Absent /\ \A s \in Threads : uuid[s] # uuid'[t]]_vars

(* A call of loadApi returns or throws, whatever the other threads do.     *)
CallsEnd == \A t \in Threads : pc[t] = "entering" ~> pc[t] = "idle"

Cell == INSTANCE OnceCell WITH api <- testApi

(* loadApi implements the cell that is set once: per class loader one API  *)
(* object, which every later call returns, and calls that fail without a   *)
(* trace, as the end of the process does.                                  *)
IsOnceCell == Cell!Spec

=============================================================================
