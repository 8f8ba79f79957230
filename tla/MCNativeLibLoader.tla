------------------------- MODULE MCNativeLibLoader -------------------------
(***************************************************************************)
(* Two threads that share a class loader and one that has its own.         *)
(***************************************************************************)
EXTENDS NativeLibLoader, TLC

CONSTANTS t1, t2, t3, app, other

MCThreads  == {t1, t2, t3}
MCLoaders  == {app, other}
MCLoaderOf == t1 :> app @@ t2 :> app @@ t3 :> other

=============================================================================
