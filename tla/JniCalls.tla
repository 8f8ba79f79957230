------------------------------ MODULE JniCalls ------------------------------
(***************************************************************************)
(* One thread of the VM and the native code of lib/test-rt-native: Java    *)
(* calls the native methods, native code calls the VM through the member   *)
(* functions of JNIEnv_, and a function of the VM that runs Java code may  *)
(* call native methods again before it returns.                            *)
(*                                                                         *)
(* The VM was built from its own list of functions, which here is VMTable: *)
(* a call through jni.h is a call to the VM's function with the number     *)
(* that jni.h gives the entry.                                             *)
(***************************************************************************)
EXTENDS JNI, NativeLinkage, FiniteSets

CONSTANT MaxDepth       (* A bound on the frames of native code.           *)

ASSUME DepthAssumption == MaxDepth \in Nat \ {0}

VARIABLES
  loaded,   (* Whether the library is loaded.                              *)
  failed,   (* The method whose call just failed to link, or "none".       *)
  stack,    (* The frames of native code, the youngest last.               *)
  lists     (* The frames, by depth, with a va_list started and not ended. *)

vars == << loaded, failed, stack, lists >>

-----------------------------------------------------------------------------
(* The VM's functions by number, from the JNI specification.               *)

Numbered(first, functions) ==
  [i \in first .. first + Len(functions) - 1 |-> functions[i - first + 1]]

NumberedPlain(first, names) ==
  Numbered(first, [i \in DOMAIN names |-> << names[i] >>])

(* Three functions for each kind of result.                                *)
NumberedCalls(first, prefix) ==
  [i \in first .. first + 29 |->
     << prefix, Results[((i - first) \div 3) + 1], "Method",
        << "...", "V", "A" >>[((i - first) % 3) + 1] >>]

NumberedFamily(first, prefix, kinds, suffix) ==
  [i \in first .. first + Len(kinds) - 1 |->
     << prefix, kinds[i - first + 1], suffix >>]

VMSections ==
  << NumberedPlain(0, << "reserved", "reserved", "reserved", "reserved",
       "GetVersion", "DefineClass", "FindClass", "FromReflectedMethod",
       "FromReflectedField", "ToReflectedMethod", "GetSuperclass",
       "IsAssignableFrom", "ToReflectedField", "Throw", "ThrowNew",
       "ExceptionOccurred", "ExceptionDescribe", "ExceptionClear",
       "FatalError", "PushLocalFrame", "PopLocalFrame", "NewGlobalRef",
       "DeleteGlobalRef", "DeleteLocalRef", "IsSameObject", "NewLocalRef",
       "EnsureLocalCapacity", "AllocObject" >>),
     Numbered(28, << << "NewObject", "..." >>, << "NewObject", "V" >>,
                     << "NewObject", "A" >> >>),
     NumberedPlain(31, << "GetObjectClass", "IsInstanceOf", "GetMethodID" >>),
     NumberedCalls(34, "Call"),
     NumberedCalls(64, "CallNonvirtual"),
     NumberedPlain(94, << "GetFieldID" >>),
     NumberedFamily(95, "Get", Values, "Field"),
     NumberedFamily(104, "Set", Values, "Field"),
     NumberedPlain(113, << "GetStaticMethodID" >>),
     NumberedCalls(114, "CallStatic"),
     NumberedPlain(144, << "GetStaticFieldID" >>),
     NumberedFamily(145, "GetStatic", Values, "Field"),
     NumberedFamily(154, "SetStatic", Values, "Field"),
     NumberedPlain(163, << "NewString", "GetStringLength", "GetStringChars",
       "ReleaseStringChars", "NewStringUTF", "GetStringUTFLength",
       "GetStringUTFChars", "ReleaseStringUTFChars", "GetArrayLength",
       "NewObjectArray", "GetObjectArrayElement", "SetObjectArrayElement" >>),
     NumberedFamily(175, "New", Primitives, "Array"),
     NumberedFamily(183, "Get", Primitives, "ArrayElements"),
     NumberedFamily(191, "Release", Primitives, "ArrayElements"),
     NumberedFamily(199, "Get", Primitives, "ArrayRegion"),
     NumberedFamily(207, "Set", Primitives, "ArrayRegion"),
     NumberedPlain(215, << "RegisterNatives", "UnregisterNatives",
       "MonitorEnter", "MonitorExit", "GetJavaVM", "GetStringRegion",
       "GetStringUTFRegion", "GetPrimitiveArrayCritical",
       "ReleasePrimitiveArrayCritical", "GetStringCritical",
       "ReleaseStringCritical", "NewWeakGlobalRef", "DeleteWeakGlobalRef",
       "ExceptionCheck", "NewDirectByteBuffer", "GetDirectBufferAddress",
       "GetDirectBufferCapacity", "GetObjectRefType", "GetModule" >>) >>

SectionOf(i) ==
  CHOOSE k \in DOMAIN VMSections : i \in DOMAIN VMSections[k]

VMTable ==
  [i \in UNION {DOMAIN VMSections[k] : k \in DOMAIN VMSections} |->
     VMSections[SectionOf(i)][i]]

VMInvokeTable ==
  NumberedPlain(0, << "reserved", "reserved", "reserved", "DestroyJavaVM",
    "AttachCurrentThread", "DetachCurrentThread", "GetEnv",
    "AttachCurrentThreadAsDaemon" >>)

(* Functions that run a method of Java, or the initialiser of a class.     *)
RunsJava(name) ==
  \/ Last(name) \in {"...", "V", "A"}
  \/ name \in { << "FindClass" >>, << "AllocObject" >>, << "GetMethodID" >>,
                << "GetStaticMethodID" >>, << "GetFieldID" >>,
                << "GetStaticFieldID" >> }

-----------------------------------------------------------------------------

(* A frame of a native method: what its parameters arrived as, until the   *)
(* method goes on to its body.                                             *)
NativeFrame(m, passed, step) ==
  [of |-> "native", function |-> m, gets |-> passed, step |-> step]

Body == NativeFrame("any", << >>, "body")

(* A frame of a member function, and the VM's function that it runs.       *)
MemberFrame(m) ==
  [of |-> "member", function |-> m, gets |-> << >>, step |-> "begun"]

Top   == stack[Len(stack)]
AtTop(of, step) == stack # << >> /\ Top.of = of /\ Top.step = step

InvokeNames == {f.name : f \in ToSet(InvokeFunctions)}

(* The number that jni.h gives an entry of a table.                        *)
NumberIn(table) ==
  [name \in {table[i].name : i \in DOMAIN table} |->
     (CHOOSE i \in DOMAIN table : table[i].name = name) - 1]

EnvNumber    == NumberIn(JNINativeInterface)
InvokeNumber == NumberIn(JNIInvokeInterface)

(* The VM's function behind an entry that a member calls.                  *)
Reached(name) ==
  IF name \in InvokeNames THEN VMInvokeTable[InvokeNumber[name]]
                          ELSE VMTable[EnvNumber[name]]

Init ==
  /\ loaded = FALSE
  /\ failed = "none"
  /\ stack  = << >>
  /\ lists  = {}

(* Java code runs if no native code does, or in a function of the VM.      *)
JavaRuns ==
  \/ stack = << >>
  \/ AtTop("member", "in VM") /\ RunsJava(Reached(Top.function.calls))

(* System.load                                                             *)
Load ==
  /\ JavaRuns /\ ~loaded
  /\ loaded' = TRUE
  /\ failed' = "none"
  /\ UNCHANGED << stack, lists >>

(* Java calls a native method, and gets an UnsatisfiedLinkError if the VM  *)
(* finds no function of its name in the library.                           *)
CallNative(m) ==
  /\ JavaRuns /\ Len(stack) < MaxDepth
  /\ IF loaded /\ IsExported(m)
     THEN /\ stack'  = Append(stack, NativeFrame(m, Passed(m), "entered"))
          /\ failed' = "none"
     ELSE failed' = m /\ UNCHANGED stack
  /\ UNCHANGED << loaded, lists >>

(* Mutant: the body gets a frame of its own.                               *)
EnterBeside ==
  /\ AtTop("native", "entered")
  /\ stack' = Append(stack, Body)
  /\ failed' = "none"
  /\ UNCHANGED << loaded, lists >>

(* The method has read its parameters.                                     *)
Enter ==
  /\ AtTop("native", "entered")
  /\ stack' = Append(Front(stack), Body)
  /\ failed' = "none"
  /\ UNCHANGED << loaded, lists >>

(* The method calls a member function of its env, or of the JavaVM.        *)
CallMember(m) ==
  /\ AtTop("native", "body") /\ Len(stack) < MaxDepth
  /\ stack' = Append(stack, MemberFrame(m))
  /\ failed' = "none"
  /\ UNCHANGED << loaded, lists >>

(* The member function calls the VM, with a va_list of its "..." started.  *)
CallVM ==
  /\ AtTop("member", "begun")
  /\ stack' = [stack EXCEPT ![Len(stack)].step = "in VM"]
  /\ lists' = IF IsVariadic(Top.function.f)
              THEN lists \cup {Len(stack)} ELSE lists
  /\ failed' = "none"
  /\ UNCHANGED loaded

(* Mutant: the va_list is left as it is.                                   *)
ReturnFromMemberAtOnce ==
  /\ AtTop("member", "in VM")
  /\ stack' = Front(stack)
  /\ failed' = "none"
  /\ UNCHANGED << loaded, lists >>

(* The VM's function returns, and with it the member function.             *)
ReturnFromMember ==
  /\ AtTop("member", "in VM")
  /\ stack' = Front(stack)
  /\ lists' = lists \ {Len(stack)}
  /\ failed' = "none"
  /\ UNCHANGED loaded

ReturnFromNative ==
  /\ AtTop("native", "body")
  /\ stack' = Front(stack)
  /\ failed' = "none"
  /\ UNCHANGED << loaded, lists >>

Next ==
  \/ Load
  \/ \E m \in Natives : CallNative(m)
  \/ Enter
  \/ \E m \in JNIEnvMembers \cup InvokeMembers : CallMember(m)
  \/ CallVM \/ ReturnFromMember \/ ReturnFromNative

Spec == Init /\ [][Next]_vars

-----------------------------------------------------------------------------

(* Frames of native methods and of member functions alternate, and every   *)
(* member function below the youngest frame waits for the VM.              *)
TypeOK ==
  /\ loaded \in BOOLEAN
  /\ failed \in Natives \cup {"none"}
  /\ lists \subseteq 1 .. MaxDepth
  /\ Len(stack) <= MaxDepth
  /\ \A d \in DOMAIN stack :
       /\ stack[d].of = IF d % 2 = 1 THEN "native" ELSE "member"
       /\ d < Len(stack) =>
            stack[d].step = IF d % 2 = 1 THEN "body" ELSE "in VM"

(* A call ends in the VM's function that the native code named: the slots  *)
(* of jni.h, which are those of an older version, and those of the VM      *)
(* agree, and a function with "..." is reached in the form V.  Each        *)
(* argument arrives in the place of the parameter that it was given for,   *)
(* though two of the same type could change places unnoticed.              *)
CallsArrive ==
  AtTop("member", "in VM") =>
    LET f == Top.function.f
    IN  /\ Reached(Top.function.calls) =
             IF IsVariadic(f) THEN InFormV(f.name) ELSE f.name
        /\ \A i \in DOMAIN f.params : Top.function.passes[i] = i

(* While the VM reads a va_list it is started; a call that returns leaves  *)
(* none behind; and calls nested in it through Java keep to their own.     *)
ListsMatchCalls ==
  lists = {d \in DOMAIN stack :
             /\ stack[d].of = "member" /\ stack[d].step = "in VM"
             /\ IsVariadic(stack[d].function.f)}

(* Once the library is loaded no call of a native method fails to link:    *)
(* Java, the generated header and test-rt.cc declare the same methods.     *)
(* The parameters that a method of test-rt.cc reads are the ones that Java *)
(* passes, and Java reads the result that it returns.                      *)
NativesGetWhatJavaPasses ==
  /\ failed # "none" => ~loaded
  /\ AtTop("native", "entered") => Top.gets = Definitions[Top.function]

=============================================================================
