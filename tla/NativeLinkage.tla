--------------------------- MODULE NativeLinkage ---------------------------
(***************************************************************************)
(* How the VM finds the C++ function of a native method of                 *)
(* TestRuntimeNative.  The method is declared in Java, and the header that *)
(* javac made of the declarations gives C linkage to the functions it      *)
(* names; one that test-rt.cc defines with other parameters is another     *)
(* function to C++, whose name is mangled.                                 *)
(***************************************************************************)
EXTENDS Naturals, Sequences

Method(returns, params) == [returns |-> returns, params |-> params]

(* TestRuntimeNative.java                                                  *)
JavaMethods ==
  [ initialize            |-> Method("V", << >>),
    finalize              |-> Method("V", << >>),
    getIntFuncAddr        |-> Method("J", << "I" >>),
    callIntFuncFromAddr   |-> Method("I", << "J", "I", "I" >>),
    compileToFunc         |-> Method("J", << "ByteArray", "String", "Z" >>),
    getFuncAddrFromCompileState |-> Method("J", << "J" >>),
    releaseCompileState   |-> Method("V", << "J" >>),
    toLLVMAssemblyCode    |-> Method("String", << "ByteArray", "I", "I" >>),
    toMachineAssemblyCode |->
      Method("String", << "String", "ByteArray", "I", "I" >>) ]

Natives == DOMAIN JavaMethods

(* Mutant: a header from before compileToFunc had its third parameter.     *)
StaleDeclarations ==
  [ initialize            |-> Method("void", << >>),
    finalize              |-> Method("void", << >>),
    getIntFuncAddr        |-> Method("jlong", << "jint" >>),
    callIntFuncFromAddr   |-> Method("jint", << "jlong", "jint", "jint" >>),
    compileToFunc         |-> Method("jlong", << "jbyteArray", "jstring" >>),
    getFuncAddrFromCompileState |-> Method("jlong", << "jlong" >>),
    releaseCompileState   |-> Method("void", << "jlong" >>),
    toLLVMAssemblyCode    |->
      Method("jstring", << "jbyteArray", "jint", "jint" >>),
    toMachineAssemblyCode |->
      Method("jstring", << "jstring", "jbyteArray", "jint", "jint" >>) ]

(* io_github_maropu_nvlib_TestRuntimeNative.h                              *)
Declarations ==
  [ initialize            |-> Method("void", << >>),
    finalize              |-> Method("void", << >>),
    getIntFuncAddr        |-> Method("jlong", << "jint" >>),
    callIntFuncFromAddr   |-> Method("jint", << "jlong", "jint", "jint" >>),
    compileToFunc         |->
      Method("jlong", << "jbyteArray", "jstring", "jboolean" >>),
    getFuncAddrFromCompileState |-> Method("jlong", << "jlong" >>),
    releaseCompileState   |-> Method("void", << "jlong" >>),
    toLLVMAssemblyCode    |->
      Method("jstring", << "jbyteArray", "jint", "jint" >>),
    toMachineAssemblyCode |->
      Method("jstring", << "jstring", "jbyteArray", "jint", "jint" >>) ]

(* test-rt.cc                                                              *)
Definitions ==
  [ initialize            |-> Method("void", << >>),
    finalize              |-> Method("void", << >>),
    getIntFuncAddr        |-> Method("jlong", << "jint" >>),
    callIntFuncFromAddr   |-> Method("jint", << "jlong", "jint", "jint" >>),
    compileToFunc         |->
      Method("jlong", << "jbyteArray", "jstring", "jboolean" >>),
    getFuncAddrFromCompileState |-> Method("jlong", << "jlong" >>),
    releaseCompileState   |-> Method("void", << "jlong" >>),
    toLLVMAssemblyCode    |->
      Method("jstring", << "jbyteArray", "jint", "jint" >>),
    toMachineAssemblyCode |->
      Method("jstring", << "jstring", "jbyteArray", "jint", "jint" >>) ]

(* The C type that the VM passes a value of a Java type as.                *)
CType ==
  [ V |-> "void", I |-> "jint", J |-> "jlong", Z |-> "jboolean",
    String |-> "jstring", ByteArray |-> "jbyteArray" ]

Passed(m) ==
  Method(CType[JavaMethods[m].returns],
         [i \in DOMAIN JavaMethods[m].params |->
            CType[JavaMethods[m].params[i]]])

(* The definition has the name that the VM looks for if it repeats the     *)
(* declaration of the header; otherwise a new function is defined, which   *)
(* overloads the one declared.  C linkage carries no parameter types, so   *)
(* the VM cannot tell whether they are those of the Java method.           *)
IsExported(m) ==
  m \in DOMAIN Declarations /\ Declarations[m].params = Definitions[m].params

=============================================================================
