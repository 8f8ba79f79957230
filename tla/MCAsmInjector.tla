--------------------------- MODULE MCAsmInjector ---------------------------
(***************************************************************************)
(* The two kinds of methods the repository injects code in: the static     *)
(* IntAddJVMCITest.nativeAdd and binaryIntOp of a generated class.         *)
(***************************************************************************)
EXTENDS AsmInjector

CONSTANTS nativeAdd, binaryIntOp, first, second

MCMethods       == {nativeAdd, binaryIntOp}
MCStaticMethods == {nativeAdd}
MCInjectors     == {first, second}

=============================================================================
