----------------------- MODULE NativeLibLoaderProofs -----------------------
(***************************************************************************)
(* For any threads, class loaders, size of the library and bounds: loadApi *)
(* loads the whole library once per class loader, from files that class    *)
(* loaders do not share, and implements OnceCell.                          *)
(*                                                                         *)
(* The argument: a thread inside loadApi holds the lock of its class       *)
(* loader (LockHeld), so that testApi is still null between the test and   *)
(* the assignment (StillNull); a file belongs to the thread that drew its  *)
(* name (FilesOwned); what has been verified is whole (Verified); and a    *)
(* class loader that has a library has an API or is about to get it        *)
(* (LoadedBacked).  The end of the process leaves nothing of this but the  *)
(* files and the names drawn for them.                                     *)
(***************************************************************************)
EXTENDS NativeLibLoader, TLAPS

Inside     == Steps \ {"idle", "entering"}
Extracting == {"opening", "copying", "verifying", "loading"}
AtWork     == Extracting \cup {"creating"}

(* The synchronized method: whoever is inside holds the lock.              *)
LockHeld == \A t \in Threads : pc[t] \in Inside => lock[LoaderOf[t]] = t

StillNull ==
  \A t \in Threads : pc[t] \in AtWork => testApi[LoaderOf[t]] = None

NoResultYet ==
  \A t \in Threads :
     pc[t] \in AtWork \cup {"entering", "testing"} => result[t] = None

FilesOwned ==
  /\ \A t \in Threads : uuid[t] <= drawn
  /\ \A t \in Threads : pc[t] \in AtWork => uuid[t] \in 1 .. drawn
  /\ \A s, t \in Threads :
       pc[s] \in AtWork /\ pc[t] \in AtWork /\ uuid[s] = uuid[t] => s = t

Verified ==
  /\ \A t \in Threads :
       /\ pc[t] \in {"copying", "verifying"} => file[uuid[t]] \in 0 .. Chunks
       /\ pc[t] \in {"loading", "creating"} => file[uuid[t]] = Chunks
       /\ pc[t] \in Extracting => loadedBy[uuid[t]] = None
       /\ pc[t] = "creating" => loadedBy[uuid[t]] = LoaderOf[t]
  /\ \A u \in Uuids :
       u > drawn => loadedBy[u] = None /\ file[u] = Absent

LoadedBacked ==
  \A u \in Uuids :
     loadedBy[u] # None =>
        \/ testApi[loadedBy[u]] # None
        \/ \E t \in Threads :
             pc[t] = "creating" /\ LoaderOf[t] = loadedBy[u] /\ uuid[t] = u

IInv ==
  /\ TypeOK
  /\ LockHeld
  /\ StillNull
  /\ NoResultYet
  /\ FilesOwned
  /\ Verified
  /\ LoadedBacked
  /\ LoadsWholeLibraryOnce
  /\ ApiIsBacked

-----------------------------------------------------------------------------

USE ThreadAssumption, LoaderAssumption, ChunkAssumption, BoundAssumption
USE DEF Steps, Inside, AtWork, Extracting, Uuids, None, Failed, Absent, NoUuid,
        Goto, Throw, envVars, classVars, fileVars

(* Initially nobody is inside and nothing is loaded.                       *)
LEMMA InitInvariant == Init => IInv
  BY DEF Init, IInv, TypeOK, LockHeld, StillNull, NoResultYet, FilesOwned,
         Verified, LoadedBacked, LoadsWholeLibraryOnce, ApiIsBacked

(* A call begins outside the lock.                                         *)
LEMMA CallLoadApiInvariant ==
  ASSUME IInv, NEW t \in Threads, CallLoadApi(t)
  PROVE  IInv'
<1>1. TypeOK'
  BY DEF IInv, TypeOK, CallLoadApi
<1>2. LockHeld'
  BY DEF IInv, TypeOK, LockHeld, CallLoadApi
<1>3. StillNull'
  BY DEF IInv, TypeOK, StillNull, CallLoadApi
<1>4. NoResultYet'
  BY DEF IInv, TypeOK, NoResultYet, CallLoadApi
<1>5. FilesOwned'
  BY DEF IInv, TypeOK, FilesOwned, CallLoadApi
<1>6. Verified'
  BY DEF IInv, TypeOK, Verified, CallLoadApi
<1>7. LoadedBacked'
  BY DEF IInv, TypeOK, LoadedBacked, CallLoadApi
<1>8. /\ LoadsWholeLibraryOnce'
      /\ ApiIsBacked'
  BY DEF IInv, LoadsWholeLibraryOnce, ApiIsBacked, CallLoadApi
<1> QED  BY <1>1, <1>2, <1>3, <1>4, <1>5, <1>6, <1>7, <1>8 DEF IInv

(* The thread that enters finds the lock free: no other is inside.         *)
LEMMA EnterInvariant ==
  ASSUME IInv, NEW t \in Threads, Enter(t)
  PROVE  IInv'
<1>1. TypeOK'
  BY DEF IInv, TypeOK, Enter
<1>2. LockHeld'
  BY DEF IInv, TypeOK, LockHeld, Enter
<1>3. StillNull'
  BY DEF IInv, TypeOK, StillNull, Enter
<1>4. NoResultYet'
  BY DEF IInv, TypeOK, NoResultYet, Enter
<1>5. FilesOwned'
  BY DEF IInv, TypeOK, FilesOwned, Enter
<1>6. Verified'
  BY DEF IInv, TypeOK, Verified, Enter
<1>7. LoadedBacked'
  BY DEF IInv, TypeOK, LoadedBacked, Enter
<1>8. /\ LoadsWholeLibraryOnce'
      /\ ApiIsBacked'
  BY DEF IInv, LoadsWholeLibraryOnce, ApiIsBacked, Enter
<1> QED  BY <1>1, <1>2, <1>3, <1>4, <1>5, <1>6, <1>7, <1>8 DEF IInv

(* The thread goes from the test to the return.                            *)
LEMMA ReturnExistingInvariant ==
  ASSUME IInv, NEW t \in Threads, ReturnExisting(t)
  PROVE  IInv'
<1>1. TypeOK'
  BY DEF IInv, TypeOK, ReturnExisting
<1>2. LockHeld'
  BY DEF IInv, TypeOK, LockHeld, ReturnExisting
<1>3. StillNull'
  BY DEF IInv, TypeOK, StillNull, ReturnExisting
<1>4. NoResultYet'
  BY DEF IInv, TypeOK, NoResultYet, ReturnExisting
<1>5. FilesOwned'
  BY DEF IInv, TypeOK, FilesOwned, ReturnExisting
<1>6. Verified'
  BY DEF IInv, TypeOK, Verified, ReturnExisting
<1>7. LoadedBacked'
  BY DEF IInv, TypeOK, LoadedBacked, ReturnExisting
<1>8. /\ LoadsWholeLibraryOnce'
      /\ ApiIsBacked'
  BY DEF IInv, LoadsWholeLibraryOnce, ApiIsBacked, ReturnExisting
<1> QED  BY <1>1, <1>2, <1>3, <1>4, <1>5, <1>6, <1>7, <1>8 DEF IInv

(* The name is beyond all names drawn so far.                              *)
LEMMA NameFileInvariant ==
  ASSUME IInv, NEW t \in Threads, NameFile(t)
  PROVE  IInv'
<1>1. TypeOK'
  BY DEF IInv, TypeOK, NameFile, OutputName, RandomUUID
<1>2. LockHeld'
  BY DEF IInv, TypeOK, LockHeld, NameFile, OutputName, RandomUUID
<1>3. StillNull'
  BY DEF IInv, TypeOK, StillNull, NameFile, OutputName, RandomUUID
<1>4. NoResultYet'
  BY DEF IInv, TypeOK, NoResultYet, NameFile, OutputName, RandomUUID
<1>5. FilesOwned'
  <2>1. /\ uuid' = [uuid EXCEPT ![t] = drawn + 1]
        /\ drawn' = drawn + 1
        /\ pc' = [pc EXCEPT ![t] = "opening"]
    BY DEF NameFile, OutputName, RandomUUID
  <2>2. drawn \in Nat /\ \A s \in Threads : uuid[s] \in Nat
    BY DEF IInv, TypeOK
  <2>3. \A s \in Threads :
          /\ uuid'[s] = IF s = t THEN drawn + 1 ELSE uuid[s]
          /\ s # t => pc'[s] = pc[s]
    BY <2>1 DEF IInv, TypeOK
  <2>4. \A s \in Threads : uuid'[s] <= drawn'
    BY <2>1, <2>2, <2>3 DEF IInv, FilesOwned
  <2>5. \A s \in Threads : pc'[s] \in AtWork => uuid'[s] \in 1 .. drawn'
    BY <2>1, <2>2, <2>3 DEF IInv, FilesOwned
  <2>6. \A r, s \in Threads :
          pc'[r] \in AtWork /\ pc'[s] \in AtWork /\ uuid'[r] = uuid'[s] => r = s
    BY <2>1, <2>2, <2>3 DEF IInv, FilesOwned
  <2> QED  BY <2>4, <2>5, <2>6 DEF FilesOwned
<1>6. Verified'
  BY DEF IInv, TypeOK, Verified, FilesOwned, NameFile, OutputName, RandomUUID
<1>7. LoadedBacked'
  BY DEF IInv, TypeOK, LoadedBacked, NameFile, OutputName, RandomUUID
<1>8. /\ LoadsWholeLibraryOnce'
      /\ ApiIsBacked'
  BY DEF IInv, LoadsWholeLibraryOnce, ApiIsBacked, NameFile
<1> QED  BY <1>1, <1>2, <1>3, <1>4, <1>5, <1>6, <1>7, <1>8 DEF IInv

(* The thread goes from the test to the return.                            *)
LEMMA RefusePlatformInvariant ==
  ASSUME IInv, NEW t \in Threads, RefusePlatform(t)
  PROVE  IInv'
<1>1. TypeOK'
  BY DEF IInv, TypeOK, RefusePlatform
<1>2. LockHeld'
  BY DEF IInv, TypeOK, LockHeld, RefusePlatform
<1>3. StillNull'
  BY DEF IInv, TypeOK, StillNull, RefusePlatform
<1>4. NoResultYet'
  BY DEF IInv, TypeOK, NoResultYet, RefusePlatform
<1>5. FilesOwned'
  BY DEF IInv, TypeOK, FilesOwned, RefusePlatform
<1>6. Verified'
  BY DEF IInv, TypeOK, Verified, RefusePlatform
<1>7. LoadedBacked'
  BY DEF IInv, TypeOK, LoadedBacked, RefusePlatform
<1>8. /\ LoadsWholeLibraryOnce'
      /\ ApiIsBacked'
  BY DEF IInv, LoadsWholeLibraryOnce, ApiIsBacked, RefusePlatform
<1> QED  BY <1>1, <1>2, <1>3, <1>4, <1>5, <1>6, <1>7, <1>8 DEF IInv

(* The file is the thread's own, and nobody has loaded it.                 *)
LEMMA OpenFileInvariant ==
  ASSUME IInv, NEW t \in Threads, OpenFile(t)
  PROVE  IInv'
<1>1. TypeOK'
  BY DEF IInv, TypeOK, FilesOwned, OpenFile
<1>2. LockHeld'
  BY DEF IInv, TypeOK, LockHeld, OpenFile
<1>3. StillNull'
  BY DEF IInv, TypeOK, StillNull, OpenFile
<1>4. NoResultYet'
  BY DEF IInv, TypeOK, NoResultYet, OpenFile
<1>5. FilesOwned'
  BY DEF IInv, TypeOK, FilesOwned, OpenFile
<1>6. Verified'
  BY DEF IInv, TypeOK, Verified, FilesOwned, OpenFile
<1>7. LoadedBacked'
  BY DEF IInv, TypeOK, LoadedBacked, OpenFile
<1>8. LoadsWholeLibraryOnce'
  BY DEF IInv, TypeOK, LoadsWholeLibraryOnce, Verified, OpenFile
<1>9. ApiIsBacked'
  BY DEF IInv, ApiIsBacked, OpenFile
<1> QED  BY <1>1, <1>2, <1>3, <1>4, <1>5, <1>6, <1>7, <1>8, <1>9 DEF IInv

(* The file is the thread's own, and nobody has loaded it.                 *)
LEMMA CopyChunkInvariant ==
  ASSUME IInv, NEW t \in Threads, CopyChunk(t)
  PROVE  IInv'
<1>1. TypeOK'
  BY DEF IInv, TypeOK, FilesOwned, Verified, CopyChunk
<1>2. Verified'
  BY DEF IInv, TypeOK, Verified, FilesOwned, CopyChunk
<1>3. LoadsWholeLibraryOnce'
  BY DEF IInv, TypeOK, LoadsWholeLibraryOnce, Verified, CopyChunk
<1>4. /\ LockHeld'
      /\ StillNull'
      /\ NoResultYet'
      /\ FilesOwned'
      /\ LoadedBacked'
      /\ ApiIsBacked'
  BY DEF IInv, LockHeld, StillNull, NoResultYet, FilesOwned, LoadedBacked,
     ApiIsBacked, CopyChunk
<1> QED  BY <1>1, <1>2, <1>3, <1>4 DEF IInv

(* The thread goes on to verify its file.                                  *)
LEMMA EndCopyInvariant ==
  ASSUME IInv, NEW t \in Threads, EndCopy(t)
  PROVE  IInv'
<1>1. TypeOK'
  BY DEF IInv, TypeOK, EndCopy
<1>2. LockHeld'
  BY DEF IInv, TypeOK, LockHeld, EndCopy
<1>3. StillNull'
  BY DEF IInv, TypeOK, StillNull, EndCopy
<1>4. NoResultYet'
  BY DEF IInv, TypeOK, NoResultYet, EndCopy
<1>5. FilesOwned'
  BY DEF IInv, TypeOK, FilesOwned, EndCopy
<1>6. Verified'
  BY DEF IInv, TypeOK, Verified, EndCopy
<1>7. LoadedBacked'
  BY DEF IInv, TypeOK, LoadedBacked, EndCopy
<1>8. /\ LoadsWholeLibraryOnce'
      /\ ApiIsBacked'
  BY DEF IInv, LoadsWholeLibraryOnce, ApiIsBacked, EndCopy
<1> QED  BY <1>1, <1>2, <1>3, <1>4, <1>5, <1>6, <1>7, <1>8 DEF IInv

(* The thread gives its file up.                                           *)
LEMMA FailToExtractInvariant ==
  ASSUME IInv, NEW t \in Threads, FailToExtract(t)
  PROVE  IInv'
<1>1. TypeOK'
  BY DEF IInv, TypeOK, FailToExtract
<1>2. LockHeld'
  BY DEF IInv, TypeOK, LockHeld, FailToExtract
<1>3. StillNull'
  BY DEF IInv, TypeOK, StillNull, FailToExtract
<1>4. NoResultYet'
  BY DEF IInv, TypeOK, NoResultYet, FailToExtract
<1>5. FilesOwned'
  BY DEF IInv, TypeOK, FilesOwned, FailToExtract
<1>6. Verified'
  BY DEF IInv, TypeOK, Verified, FailToExtract
<1>7. LoadedBacked'
  BY DEF IInv, TypeOK, LoadedBacked, FailToExtract
<1>8. /\ LoadsWholeLibraryOnce'
      /\ ApiIsBacked'
  BY DEF IInv, LoadsWholeLibraryOnce, ApiIsBacked, FailToExtract
<1> QED  BY <1>1, <1>2, <1>3, <1>4, <1>5, <1>6, <1>7, <1>8 DEF IInv

(* Only a whole file passes.                                               *)
LEMMA VerifyInvariant ==
  ASSUME IInv, NEW t \in Threads, Verify(t)
  PROVE  IInv'
<1>1. TypeOK'
  <2>1. CASE file[uuid[t]] = Chunks
    BY <2>1 DEF IInv, TypeOK, Verify
  <2>2. CASE file[uuid[t]] # Chunks
    BY <2>2 DEF IInv, TypeOK, Verify
  <2> QED  BY <2>1, <2>2
<1>2. LockHeld'
  <2>1. CASE file[uuid[t]] = Chunks
    BY <2>1 DEF IInv, TypeOK, LockHeld, Verify
  <2>2. CASE file[uuid[t]] # Chunks
    BY <2>2 DEF IInv, TypeOK, LockHeld, Verify
  <2> QED  BY <2>1, <2>2
<1>3. StillNull'
  <2>1. CASE file[uuid[t]] = Chunks
    BY <2>1 DEF IInv, TypeOK, StillNull, Verify
  <2>2. CASE file[uuid[t]] # Chunks
    BY <2>2 DEF IInv, TypeOK, StillNull, Verify
  <2> QED  BY <2>1, <2>2
<1>4. NoResultYet'
  <2>1. CASE file[uuid[t]] = Chunks
    BY <2>1 DEF IInv, TypeOK, NoResultYet, Verify
  <2>2. CASE file[uuid[t]] # Chunks
    BY <2>2 DEF IInv, TypeOK, NoResultYet, Verify
  <2> QED  BY <2>1, <2>2
<1>5. FilesOwned'
  <2>1. \A s \in Threads : pc'[s] \in AtWork => pc[s] \in AtWork
    BY DEF IInv, TypeOK, Verify
  <2>2. uuid' = uuid /\ drawn' = drawn
    BY DEF Verify
  <2> QED  BY <2>1, <2>2 DEF IInv, FilesOwned
<1>6. Verified'
  <2>1. CASE file[uuid[t]] = Chunks
    BY <2>1 DEF IInv, TypeOK, Verified, Verify
  <2>2. CASE file[uuid[t]] # Chunks
    BY <2>2 DEF IInv, TypeOK, Verified, Verify
  <2> QED  BY <2>1, <2>2
<1>7. LoadedBacked'
  <2>1. CASE file[uuid[t]] = Chunks
    BY <2>1 DEF IInv, TypeOK, LoadedBacked, Verify
  <2>2. CASE file[uuid[t]] # Chunks
    BY <2>2 DEF IInv, TypeOK, LoadedBacked, Verify
  <2> QED  BY <2>1, <2>2
<1>8. /\ LoadsWholeLibraryOnce'
      /\ ApiIsBacked'
  BY DEF IInv, LoadsWholeLibraryOnce, ApiIsBacked, Verify
<1> QED  BY <1>1, <1>2, <1>3, <1>4, <1>5, <1>6, <1>7, <1>8 DEF IInv

(* The class loader has loaded nothing before: it would have an API, or    *)
(* a thread about to create it, and that thread would hold the lock.       *)
LEMMA LoadInvariant ==
  ASSUME IInv, NEW t \in Threads, Load(t)
  PROVE  IInv'
<1>1. TypeOK'
  <2>1. CASE Loadable(t)
    BY <2>1 DEF IInv, TypeOK, Load
  <2>2. CASE ~Loadable(t)
    BY <2>2 DEF IInv, TypeOK, Load
  <2> QED  BY <2>1, <2>2
<1>2. LockHeld'
  <2>1. CASE Loadable(t)
    BY <2>1 DEF IInv, TypeOK, LockHeld, Load
  <2>2. CASE ~Loadable(t)
    BY <2>2 DEF IInv, TypeOK, LockHeld, Load
  <2> QED  BY <2>1, <2>2
<1>3. StillNull'
  <2>1. CASE Loadable(t)
    BY <2>1 DEF IInv, TypeOK, StillNull, Load
  <2>2. CASE ~Loadable(t)
    BY <2>2 DEF IInv, TypeOK, StillNull, Load
  <2> QED  BY <2>1, <2>2
<1>4. NoResultYet'
  <2>1. CASE Loadable(t)
    BY <2>1 DEF IInv, TypeOK, NoResultYet, Load
  <2>2. CASE ~Loadable(t)
    BY <2>2 DEF IInv, TypeOK, NoResultYet, Load
  <2> QED  BY <2>1, <2>2
<1>5. FilesOwned'
  <2>1. CASE Loadable(t)
    BY <2>1 DEF IInv, TypeOK, FilesOwned, Load
  <2>2. CASE ~Loadable(t)
    BY <2>2 DEF IInv, TypeOK, FilesOwned, Load
  <2> QED  BY <2>1, <2>2
<1>6. Verified'
  <2>1. CASE Loadable(t)
    BY <2>1 DEF IInv, TypeOK, Verified, FilesOwned, Load
  <2>2. CASE ~Loadable(t)
    BY <2>2 DEF IInv, TypeOK, Verified, FilesOwned, Load
  <2> QED  BY <2>1, <2>2
<1>7. LoadedBacked'
  <2>1. CASE Loadable(t)
    <3>1. /\ loadedBy' = [loadedBy EXCEPT ![uuid[t]] = LoaderOf[t]]
          /\ pc' = [pc EXCEPT ![t] = "creating"]
      BY <2>1 DEF Load
    <3>2. uuid[t] \in Uuids /\ pc'[t] = "creating" /\ UNCHANGED uuid
      BY <3>1 DEF IInv, TypeOK, FilesOwned, Load
    <3>3. ASSUME NEW u \in Uuids, loadedBy'[u] # None, u # uuid[t]
          PROVE  \/ testApi'[loadedBy'[u]] # None
                 \/ \E s \in Threads : /\ pc'[s] = "creating"
                                      /\ LoaderOf[s] = loadedBy'[u]
                                      /\ uuid'[s] = u
      BY <3>1, <3>3 DEF IInv, TypeOK, LoadedBacked, Load
    <3>4. loadedBy'[uuid[t]] = LoaderOf[t]
      BY <3>1, <3>2 DEF IInv, TypeOK
    <3> QED  BY <3>2, <3>3, <3>4 DEF LoadedBacked
  <2>2. CASE ~Loadable(t)
    BY <2>2 DEF IInv, TypeOK, LoadedBacked, Load
  <2> QED  BY <2>1, <2>2
<1>8. LoadsWholeLibraryOnce'
  <2>1. CASE Loadable(t)
    <3>1. loadedBy' = [loadedBy EXCEPT ![uuid[t]] = LoaderOf[t]]
      BY <2>1 DEF Load
    <3>2. ASSUME NEW u \in Uuids PROVE loadedBy[u] # LoaderOf[t]
      <4>1. testApi[LoaderOf[t]] = None /\ LoaderOf[t] # None
        BY DEF IInv, StillNull, Load
      <4>2. ASSUME NEW s \in Threads, LoaderOf[s] = LoaderOf[t]
            PROVE  pc[s] # "creating"
        BY <4>2 DEF IInv, LockHeld, Load
      <4> QED  BY <4>1, <4>2 DEF IInv, LoadedBacked
    <3>3. uuid[t] \in Uuids /\ file[uuid[t]] = Chunks
      BY DEF IInv, TypeOK, FilesOwned, Verified, Load
    <3> QED  BY <3>1, <3>2, <3>3 DEF IInv, TypeOK, LoadsWholeLibraryOnce, Load
  <2>2. CASE ~Loadable(t)
    BY <2>2 DEF IInv, LoadsWholeLibraryOnce, Load
  <2> QED  BY <2>1, <2>2
<1>9. ApiIsBacked'
  <2>1. CASE Loadable(t)
    <3>1. loadedBy' = [loadedBy EXCEPT ![uuid[t]] = LoaderOf[t]]
      BY <2>1 DEF Load
    <3>2. loadedBy[uuid[t]] = None /\ \A l \in Loaders : l # None
      BY DEF IInv, Verified, Load
    <3> QED  BY <3>1, <3>2 DEF IInv, TypeOK, ApiIsBacked, Load
  <2>2. CASE ~Loadable(t)
    BY <2>2 DEF IInv, ApiIsBacked, Load
  <2> QED  BY <2>1, <2>2
<1> QED  BY <1>1, <1>2, <1>3, <1>4, <1>5, <1>6, <1>7, <1>8, <1>9 DEF IInv

(* The thread gives its file up.                                           *)
LEMMA FailToLoadInvariant ==
  ASSUME IInv, NEW t \in Threads, FailToLoad(t)
  PROVE  IInv'
<1>1. TypeOK'
  BY DEF IInv, TypeOK, FailToLoad
<1>2. LockHeld'
  BY DEF IInv, TypeOK, LockHeld, FailToLoad
<1>3. StillNull'
  BY DEF IInv, TypeOK, StillNull, FailToLoad
<1>4. NoResultYet'
  BY DEF IInv, TypeOK, NoResultYet, FailToLoad
<1>5. FilesOwned'
  BY DEF IInv, TypeOK, FilesOwned, FailToLoad
<1>6. Verified'
  BY DEF IInv, TypeOK, Verified, FailToLoad
<1>7. LoadedBacked'
  BY DEF IInv, TypeOK, LoadedBacked, FailToLoad
<1>8. /\ LoadsWholeLibraryOnce'
      /\ ApiIsBacked'
  BY DEF IInv, LoadsWholeLibraryOnce, ApiIsBacked, FailToLoad
<1> QED  BY <1>1, <1>2, <1>3, <1>4, <1>5, <1>6, <1>7, <1>8 DEF IInv

(* The thread that creates the API is the only one inside.                 *)
LEMMA CreateApiInvariant ==
  ASSUME IInv, NEW t \in Threads, CreateApi(t)
  PROVE  IInv'
<1>1. TypeOK'
  BY DEF IInv, TypeOK, CreateApi
<1>2. LockHeld'
  BY DEF IInv, TypeOK, LockHeld, CreateApi
<1>3. StillNull'
  <2> SUFFICES ASSUME NEW s \in Threads, pc'[s] \in AtWork
               PROVE  testApi'[LoaderOf[s]] = None
    BY DEF StillNull
  <2>1. pc[s] \in AtWork /\ s # t
    BY DEF IInv, TypeOK, CreateApi
  <2>2. LoaderOf[s] # LoaderOf[t]
    BY <2>1 DEF IInv, LockHeld, CreateApi
  <2> QED  BY <2>1, <2>2 DEF IInv, TypeOK, StillNull, CreateApi
<1>4. NoResultYet'
  BY DEF IInv, TypeOK, NoResultYet, CreateApi
<1>5. FilesOwned'
  BY DEF IInv, TypeOK, FilesOwned, CreateApi
<1>6. Verified'
  BY DEF IInv, TypeOK, Verified, CreateApi
<1>7. LoadedBacked'
  BY DEF IInv, TypeOK, LoadedBacked, Verified, FilesOwned, CreateApi
<1>8. ApiIsBacked'
  BY DEF IInv, TypeOK, ApiIsBacked, Verified, FilesOwned, CreateApi
<1>9. LoadsWholeLibraryOnce'
  BY DEF IInv, LoadsWholeLibraryOnce, CreateApi
<1> QED  BY <1>1, <1>2, <1>3, <1>4, <1>5, <1>6, <1>7, <1>8, <1>9 DEF IInv

(* The thread that leaves was the only one inside.                         *)
LEMMA LeaveInvariant ==
  ASSUME IInv, NEW t \in Threads, Leave(t)
  PROVE  IInv'
<1>1. TypeOK'
  BY DEF IInv, TypeOK, Leave
<1>2. LockHeld'
  <2> SUFFICES ASSUME NEW s \in Threads, pc'[s] \in Inside
               PROVE  lock'[LoaderOf[s]] = s
    BY DEF LockHeld
  <2>1. pc[s] \in Inside /\ s # t
    BY DEF IInv, TypeOK, Leave
  <2>2. LoaderOf[s] # LoaderOf[t]
    BY <2>1 DEF IInv, LockHeld, Leave
  <2> QED  BY <2>1, <2>2 DEF IInv, TypeOK, LockHeld, Leave
<1>3. StillNull'
  BY DEF IInv, TypeOK, StillNull, Leave
<1>4. NoResultYet'
  BY DEF IInv, TypeOK, NoResultYet, Leave
<1>5. FilesOwned'
  BY DEF IInv, TypeOK, FilesOwned, Leave
<1>6. Verified'
  BY DEF IInv, TypeOK, Verified, Leave
<1>7. LoadedBacked'
  BY DEF IInv, TypeOK, LoadedBacked, Leave
<1>8. /\ LoadsWholeLibraryOnce'
      /\ ApiIsBacked'
  BY DEF IInv, LoadsWholeLibraryOnce, ApiIsBacked, Leave
<1> QED  BY <1>1, <1>2, <1>3, <1>4, <1>5, <1>6, <1>7, <1>8 DEF IInv

(* All threads are outside, and nothing is loaded.                         *)
LEMMA RestartInvariant == IInv /\ Restart => IInv'
<1> SUFFICES ASSUME IInv, Restart PROVE IInv'
  OBVIOUS
<1>1. TypeOK'
  BY DEF IInv, TypeOK, Restart
<1>2. /\ LockHeld'
      /\ StillNull'
      /\ NoResultYet'
      /\ FilesOwned'
  BY DEF IInv, TypeOK, LockHeld, StillNull, NoResultYet, FilesOwned, Restart
<1>3. Verified'
  BY DEF IInv, Verified, Restart
<1>4. /\ LoadedBacked'
      /\ LoadsWholeLibraryOnce'
      /\ ApiIsBacked'
  BY DEF LoadedBacked, LoadsWholeLibraryOnce, ApiIsBacked, Restart
<1> QED  BY <1>1, <1>2, <1>3, <1>4 DEF IInv

-----------------------------------------------------------------------------

(* Every step keeps the inductive invariant.                               *)
LEMMA NextInvariant == IInv /\ [Next]_vars => IInv'
<1> SUFFICES ASSUME IInv, [Next]_vars PROVE IInv'
  OBVIOUS
<1>1. ASSUME NEW t \in Threads, CallLoadApi(t) PROVE IInv'
  BY <1>1, CallLoadApiInvariant
<1>2. ASSUME NEW t \in Threads, Step(t) PROVE IInv'
  BY <1>2, EnterInvariant, ReturnExistingInvariant, RefusePlatformInvariant,
     NameFileInvariant, OpenFileInvariant, CopyChunkInvariant,
     EndCopyInvariant, FailToExtractInvariant, VerifyInvariant,
     LoadInvariant, FailToLoadInvariant, CreateApiInvariant, LeaveInvariant
  DEF Step
<1>3. ASSUME UNCHANGED vars PROVE IInv'
  BY <1>3 DEF vars, IInv, TypeOK, LockHeld, StillNull, NoResultYet, FilesOwned,
              Verified, LoadedBacked, LoadsWholeLibraryOnce, ApiIsBacked
<1>4. ASSUME Restart PROVE IInv'
  BY <1>4, RestartInvariant
<1> QED  BY <1>1, <1>2, <1>3, <1>4 DEF Next

(* The inductive invariant holds in every reachable state.                 *)
THEOREM Invariance == Spec => []IInv
<1> QED  BY InitInvariant, NextInvariant, PTL DEF Spec

(* The variables have their types, for any threads and class loaders.      *)
THEOREM TypeCorrect == Spec => []TypeOK
<1>1. IInv => TypeOK
  BY DEF IInv
<1> QED  BY <1>1, Invariance, PTL

(* A class loader loads the library once at most, and only a whole one.    *)
THEOREM LoadsOnce == Spec => []LoadsWholeLibraryOnce
<1>1. IInv => LoadsWholeLibraryOnce
  BY DEF IInv
<1> QED  BY <1>1, Invariance, PTL

(* No two threads are at work on one file, and the VM never refuses a file *)
(* because another class loader has loaded it.                             *)
THEOREM FilesNotShared == Spec => []LoadersDoNotShareFiles
<1>1. IInv => LoadersDoNotShareFiles
  BY DEF IInv, TypeOK, FilesOwned, Verified, LoadersDoNotShareFiles, Loadable
<1> QED  BY <1>1, Invariance, PTL

(* Where isLoaded() is true there is a library to call.                    *)
THEOREM LoadedIsBacked == Spec => []ApiIsBacked
<1>1. IInv => ApiIsBacked
  BY DEF IInv
<1> QED  BY <1>1, Invariance, PTL

(* Only NameFile changes uuid[t], and the name is beyond those drawn.      *)
LEMMA StepDrawsFresh ==
  ASSUME IInv, [Next]_vars, NEW t \in Threads,
         uuid'[t] \notin {uuid[t], NoUuid}
  PROVE  file[uuid'[t]] = Absent /\ \A s \in Threads : uuid[s] # uuid'[t]
<1>1. ASSUME NEW s \in Threads, NameFile(s)
      PROVE  file[uuid'[t]] = Absent /\ \A r \in Threads : uuid[r] # uuid'[t]
  <2>1. uuid'[t] = drawn + 1
    BY <1>1 DEF IInv, TypeOK, NameFile, OutputName, RandomUUID
  <2>2. drawn + 1 \in Uuids
    BY <1>1 DEF IInv, TypeOK, NameFile
  <2> QED  BY <2>1, <2>2 DEF IInv, TypeOK, Verified, FilesOwned
<1>2. UNCHANGED uuid \/ Restart \/ \E s \in Threads : NameFile(s)
  BY DEF Next, Step, vars, CallLoadApi, Enter, ReturnExisting, RefusePlatform,
         OpenFile, CopyChunk, EndCopy, FailToExtract, Verify, Load,
         FailToLoad, CreateApi, Leave
<1>3. ~Restart
  BY DEF Restart
<1> QED  BY <1>1, <1>2, <1>3

(* A name is never drawn that an earlier call or process left a file by.   *)
THEOREM NamesFresh == Spec => NamesAreFresh
<1>1. IInv /\ [Next]_vars =>
        [\A t \in Threads :
           uuid'[t] \notin {uuid[t], NoUuid} =>
             file[uuid'[t]] = Absent
               /\ \A s \in Threads : uuid[s] # uuid'[t]]_vars
  BY StepDrawsFresh
<1> QED  BY <1>1, Invariance, PTL DEF Spec, NamesAreFresh

-----------------------------------------------------------------------------
(* Refinement: the call takes effect when testApi is read, or set, or an   *)
(* exception thrown.                                                       *)

LEMMA InitRefines == Init => Cell!Init
  BY DEF Init, Cell!Init, Cell!None

LEMMA StepRefines ==
  ASSUME IInv, NEW t \in Threads, CallLoadApi(t) \/ Step(t)
  PROVE  Cell!Next \/ UNCHANGED Cell!vars
<1> USE DEF Cell!None, Cell!Failed, Cell!vars
<1>1. CASE CallLoadApi(t)
  <2>1. CASE result[t] = None
    BY <1>1, <2>1 DEF IInv, TypeOK, CallLoadApi
  <2>2. CASE result[t] # None
    BY <1>1, <2>2 DEF CallLoadApi, Cell!Again, Cell!Next
  <2> QED  BY <2>1, <2>2
<1>2. CASE ReturnExisting(t)
  <2>1. Cell!Succeed(t)
    BY <1>2 DEF IInv, TypeOK, NoResultYet, ReturnExisting, Cell!Succeed
  <2> QED  BY <2>1 DEF Cell!Next
<1>3. CASE CreateApi(t)
  <2>1. Cell!Succeed(t)
    BY <1>3 DEF IInv, TypeOK, NoResultYet, StillNull, CreateApi, Cell!Succeed
  <2> QED  BY <2>1 DEF Cell!Next
<1>4. ASSUME pc[t] \in AtWork \cup {"testing"},
             testApi[LoaderOf[t]] = None, Throw(t), UNCHANGED testApi
      PROVE  Cell!Next
  <2>1. Cell!Fail(t)
    BY <1>4 DEF IInv, TypeOK, NoResultYet, Cell!Fail
  <2> QED  BY <2>1 DEF Cell!Next
<1>5. CASE \/ RefusePlatform(t) \/ FailToExtract(t) \/ FailToLoad(t)
  BY <1>4, <1>5 DEF IInv, StillNull, RefusePlatform, FailToExtract, FailToLoad
<1>6. CASE Verify(t) \/ Load(t)
  <2>1. testApi[LoaderOf[t]] = None /\ UNCHANGED testApi /\ pc[t] \in AtWork
    BY <1>6 DEF IInv, StillNull, Verify, Load
  <2>2. Throw(t) \/ UNCHANGED result
    BY <1>6 DEF Verify, Load
  <2> QED  BY <1>4, <2>1, <2>2
<1>7. CASE \/ Enter(t) \/ NameFile(t) \/ OpenFile(t) \/ CopyChunk(t)
           \/ EndCopy(t) \/ Leave(t)
  BY <1>7 DEF Enter, NameFile, OpenFile, CopyChunk, EndCopy, Leave
<1> QED  BY <1>1, <1>2, <1>3, <1>5, <1>6, <1>7 DEF Step

(* loadApi, with its lock, its files and its failures, implements a cell   *)
(* that is set once per class loader.                                      *)
THEOREM LoaderImplementsCell == Spec => IsOnceCell
<1>1. IInv /\ [Next]_vars => [Cell!Next]_Cell!vars
  <2> SUFFICES ASSUME IInv, [Next]_vars
               PROVE  Cell!Next \/ UNCHANGED Cell!vars
    BY DEF Cell!vars
  <2>1. CASE UNCHANGED vars
    BY <2>1 DEF vars, Cell!vars
  <2>2. CASE \E t \in Threads : CallLoadApi(t) \/ Step(t)
    BY <2>2, StepRefines
  <2>3. CASE Restart
    BY <2>3 DEF Restart, Cell!Restart, Cell!Next, Cell!None
  <2> QED  BY <2>1, <2>2, <2>3 DEF Next
<1> QED  BY <1>1, InitRefines, Invariance, PTL DEF Spec, IsOnceCell, Cell!Spec

=============================================================================
