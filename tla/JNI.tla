-------------------------------- MODULE JNI --------------------------------
(***************************************************************************)
(* include/Mac/jni.h, whose declarations are those of include/Linux/jni.h: *)
(* the tables of functions through which native code calls the VM, and the *)
(* inline member functions of JNIEnv_ and JavaVM_ that call them.          *)
(*                                                                         *)
(* A function has a name, a result and its parameters after env or vm.     *)
(* Most come in families that differ in the kind of value they are about,  *)
(* and in three forms that take a method's arguments as "...", as a        *)
(* va_list ("V") or as an array ("A"): a name is the tuple of its parts,   *)
(* CallIntMethodV being << "Call", "Int", "Method", "V" >>.  const is left *)
(* out of the types.                                                       *)
(***************************************************************************)
EXTENDS Naturals, Sequences, SequencesExt

Primitives ==
  << "Boolean", "Byte", "Char", "Short", "Int", "Long", "Float", "Double" >>
Values     == << "Object" >> \o Primitives
Results    == Values \o << "Void" >>

(* The type of a value of each kind, of a pointer to one, and of an array. *)
Type ==
  [ Object  |-> "jobject",  Boolean |-> "jboolean", Byte   |-> "jbyte",
    Char    |-> "jchar",    Short   |-> "jshort",   Int    |-> "jint",
    Long    |-> "jlong",    Float   |-> "jfloat",   Double |-> "jdouble",
    Void    |-> "void" ]

Pointer ==
  [ Boolean |-> "jboolean*", Byte  |-> "jbyte*", Char   |-> "jchar*",
    Short   |-> "jshort*",   Int   |-> "jint*",  Long   |-> "jlong*",
    Float   |-> "jfloat*",   Double |-> "jdouble*" ]

Array ==
  [ Boolean |-> "jbooleanArray", Byte  |-> "jbyteArray",
    Char    |-> "jcharArray",    Short |-> "jshortArray",
    Int     |-> "jintArray",     Long  |-> "jlongArray",
    Float   |-> "jfloatArray",   Double |-> "jdoubleArray" ]

Function(name, result, params) ==
  [name |-> name, result |-> result, params |-> params]

Plain(name, result, params) == Function(<< name >>, result, params)

(* The three forms of a function that calls a Java method.                 *)
Forms(name, result, target) ==
  << Function(name \o << "..." >>, result,
              target \o << "jmethodID", "..." >>),
     Function(name \o << "V" >>, result,
              target \o << "jmethodID", "va_list" >>),
     Function(name \o << "A" >>, result,
              target \o << "jmethodID", "jvalue*" >>) >>

ForEach(kinds, Functions(_)) ==
  FlattenSeq([i \in DOMAIN kinds |-> Functions(kinds[i])])

-----------------------------------------------------------------------------
(* struct JNINativeInterface_, section by section.                         *)

Reserved(n) == [i \in 1 .. n |-> Plain("reserved", "void*", << >>)]

ClassFunctions ==
  << Plain("GetVersion", "jint", << >>),
     Plain("DefineClass", "jclass",
           << "char*", "jobject", "jbyte*", "jsize" >>),
     Plain("FindClass", "jclass", << "char*" >>),
     Plain("FromReflectedMethod", "jmethodID", << "jobject" >>),
     Plain("FromReflectedField", "jfieldID", << "jobject" >>),
     Plain("ToReflectedMethod", "jobject",
           << "jclass", "jmethodID", "jboolean" >>),
     Plain("GetSuperclass", "jclass", << "jclass" >>),
     Plain("IsAssignableFrom", "jboolean", << "jclass", "jclass" >>),
     Plain("ToReflectedField", "jobject",
           << "jclass", "jfieldID", "jboolean" >>) >>

ExceptionFunctions ==
  << Plain("Throw", "jint", << "jthrowable" >>),
     Plain("ThrowNew", "jint", << "jclass", "char*" >>),
     Plain("ExceptionOccurred", "jthrowable", << >>),
     Plain("ExceptionDescribe", "void", << >>),
     Plain("ExceptionClear", "void", << >>),
     Plain("FatalError", "void", << "char*" >>) >>

ReferenceFunctions ==
  << Plain("PushLocalFrame", "jint", << "jint" >>),
     Plain("PopLocalFrame", "jobject", << "jobject" >>),
     Plain("NewGlobalRef", "jobject", << "jobject" >>),
     Plain("DeleteGlobalRef", "void", << "jobject" >>),
     Plain("DeleteLocalRef", "void", << "jobject" >>),
     Plain("IsSameObject", "jboolean", << "jobject", "jobject" >>),
     Plain("NewLocalRef", "jobject", << "jobject" >>),
     Plain("EnsureLocalCapacity", "jint", << "jint" >>) >>

ObjectFunctions ==
  << Plain("AllocObject", "jobject", << "jclass" >>) >>
  \o Forms(<< "NewObject" >>, "jobject", << "jclass" >>)
  \o << Plain("GetObjectClass", "jclass", << "jobject" >>),
        Plain("IsInstanceOf", "jboolean", << "jobject", "jclass" >>),
        Plain("GetMethodID", "jmethodID", << "jclass", "char*", "char*" >>) >>

Calls(prefix, target) ==
  ForEach(Results,
          LAMBDA k : Forms(<< prefix, k, "Method" >>, Type[k], target))

CallFunctions           == Calls("Call", << "jobject" >>)
CallNonvirtualFunctions == Calls("CallNonvirtual", << "jobject", "jclass" >>)
CallStaticFunctions     == Calls("CallStatic", << "jclass" >>)

Getters(prefix, target) ==
  ForEach(Values, LAMBDA k :
    << Function(<< prefix, k, "Field" >>, Type[k], << target, "jfieldID" >>) >>)

Setters(prefix, target) ==
  ForEach(Values, LAMBDA k :
    << Function(<< prefix, k, "Field" >>, "void",
                << target, "jfieldID", Type[k] >>) >>)

FieldFunctions ==
  << Plain("GetFieldID", "jfieldID", << "jclass", "char*", "char*" >>) >>
  \o Getters("Get", "jobject") \o Setters("Set", "jobject")

StaticMethodFunctions ==
  << Plain("GetStaticMethodID", "jmethodID",
           << "jclass", "char*", "char*" >>) >>

StaticFieldFunctions ==
  << Plain("GetStaticFieldID", "jfieldID", << "jclass", "char*", "char*" >>) >>
  \o Getters("GetStatic", "jclass") \o Setters("SetStatic", "jclass")

(* Mutant: one function is left out.                                       *)
StringFunctionsButOne ==
  << Plain("NewString", "jstring", << "jchar*", "jsize" >>),
     Plain("GetStringLength", "jsize", << "jstring" >>),
     Plain("GetStringChars", "jchar*", << "jstring", "jboolean*" >>),
     Plain("ReleaseStringChars", "void", << "jstring", "jchar*" >>),
     Plain("NewStringUTF", "jstring", << "char*" >>),
     Plain("GetStringUTFChars", "char*", << "jstring", "jboolean*" >>),
     Plain("ReleaseStringUTFChars", "void", << "jstring", "char*" >>) >>

StringFunctions ==
  << Plain("NewString", "jstring", << "jchar*", "jsize" >>),
     Plain("GetStringLength", "jsize", << "jstring" >>),
     Plain("GetStringChars", "jchar*", << "jstring", "jboolean*" >>),
     Plain("ReleaseStringChars", "void", << "jstring", "jchar*" >>),
     Plain("NewStringUTF", "jstring", << "char*" >>),
     Plain("GetStringUTFLength", "jsize", << "jstring" >>),
     Plain("GetStringUTFChars", "char*", << "jstring", "jboolean*" >>),
     Plain("ReleaseStringUTFChars", "void", << "jstring", "char*" >>) >>

ObjectArrayFunctions ==
  << Plain("GetArrayLength", "jsize", << "jarray" >>),
     Plain("NewObjectArray", "jobjectArray",
           << "jsize", "jclass", "jobject" >>),
     Plain("GetObjectArrayElement", "jobject", << "jobjectArray", "jsize" >>),
     Plain("SetObjectArrayElement", "void",
           << "jobjectArray", "jsize", "jobject" >>) >>

NewArrayFunctions ==
  ForEach(Primitives, LAMBDA k :
    << Function(<< "New", k, "Array" >>, Array[k], << "jsize" >>) >>)

GetElementsFunctions ==
  ForEach(Primitives, LAMBDA k :
    << Function(<< "Get", k, "ArrayElements" >>, Pointer[k],
                << Array[k], "jboolean*" >>) >>)

ReleaseElementsFunctions ==
  ForEach(Primitives, LAMBDA k :
    << Function(<< "Release", k, "ArrayElements" >>, "void",
                << Array[k], Pointer[k], "jint" >>) >>)

Regions(prefix) ==
  ForEach(Primitives, LAMBDA k :
    << Function(<< prefix, k, "ArrayRegion" >>, "void",
                << Array[k], "jsize", "jsize", Pointer[k] >>) >>)

GetRegionFunctions == Regions("Get")
SetRegionFunctions == Regions("Set")

ThreadFunctions ==
  << Plain("RegisterNatives", "jint",
           << "jclass", "JNINativeMethod*", "jint" >>),
     Plain("UnregisterNatives", "jint", << "jclass" >>),
     Plain("MonitorEnter", "jint", << "jobject" >>),
     Plain("MonitorExit", "jint", << "jobject" >>),
     Plain("GetJavaVM", "jint", << "JavaVM**" >>) >>

CriticalFunctions ==
  << Plain("GetStringRegion", "void",
           << "jstring", "jsize", "jsize", "jchar*" >>),
     Plain("GetStringUTFRegion", "void",
           << "jstring", "jsize", "jsize", "char*" >>),
     Plain("GetPrimitiveArrayCritical", "void*", << "jarray", "jboolean*" >>),
     Plain("ReleasePrimitiveArrayCritical", "void",
           << "jarray", "void*", "jint" >>),
     Plain("GetStringCritical", "jchar*", << "jstring", "jboolean*" >>),
     Plain("ReleaseStringCritical", "void", << "jstring", "jchar*" >>) >>

BufferFunctions ==
  << Plain("NewWeakGlobalRef", "jweak", << "jobject" >>),
     Plain("DeleteWeakGlobalRef", "void", << "jweak" >>),
     Plain("ExceptionCheck", "jboolean", << >>),
     Plain("NewDirectByteBuffer", "jobject", << "void*", "jlong" >>),
     Plain("GetDirectBufferAddress", "void*", << "jobject" >>),
     Plain("GetDirectBufferCapacity", "jlong", << "jobject" >>),
     Plain("GetObjectRefType", "jobjectRefType", << "jobject" >>) >>

JNINativeInterface ==
  Reserved(4)
  \o ClassFunctions \o ExceptionFunctions \o ReferenceFunctions
  \o ObjectFunctions \o CallFunctions \o CallNonvirtualFunctions
  \o FieldFunctions \o StaticMethodFunctions \o CallStaticFunctions
  \o StaticFieldFunctions \o StringFunctions \o ObjectArrayFunctions
  \o NewArrayFunctions \o GetElementsFunctions \o ReleaseElementsFunctions
  \o GetRegionFunctions \o SetRegionFunctions
  \o ThreadFunctions \o CriticalFunctions \o BufferFunctions

(* struct JNIInvokeInterface_                                              *)
InvokeFunctions ==
  << Plain("DestroyJavaVM", "jint", << >>),
     Plain("AttachCurrentThread", "jint", << "void**", "void*" >>),
     Plain("DetachCurrentThread", "jint", << >>),
     Plain("GetEnv", "jint", << "void**", "jint" >>),
     Plain("AttachCurrentThreadAsDaemon", "jint", << "void**", "void*" >>) >>

JNIInvokeInterface == Reserved(3) \o InvokeFunctions

-----------------------------------------------------------------------------
(* The member functions.  One has the name and the parameters of the       *)
(* function in the table; it calls the entry "calls" of the table with the *)
(* parameters listed in "passes".                                          *)

IsVariadic(f) == f.params # << >> /\ Last(f.params) = "..."

InFormV(name) == Front(name) \o << "V" >>

(* A member with "..." makes a va_list of it and calls the form V.         *)
Member(f) ==
  [f      |-> f,
   calls  |-> IF IsVariadic(f) THEN InFormV(f.name) ELSE f.name,
   passes |-> [i \in DOMAIN f.params |-> i]]

Members(functions) == {Member(f) : f \in ToSet(functions)}

ClassMembers          == Members(ClassFunctions)
ExceptionMembers      == Members(ExceptionFunctions)
ReferenceMembers      == Members(ReferenceFunctions)
ObjectMembers         == Members(ObjectFunctions)
CallMembers           == Members(CallFunctions)
CallNonvirtualMembers == Members(CallNonvirtualFunctions)
FieldMembers          == Members(FieldFunctions)
StaticMethodMembers   == Members(StaticMethodFunctions)
CallStaticMembers     == Members(CallStaticFunctions)
StaticFieldMembers    == Members(StaticFieldFunctions)
StringMembers         == Members(StringFunctions)
ObjectArrayMembers    == Members(ObjectArrayFunctions)
NewArrayMembers       == Members(NewArrayFunctions)
ElementsMembers ==
  Members(GetElementsFunctions) \cup Members(ReleaseElementsFunctions)
RegionMembers   == Members(GetRegionFunctions) \cup Members(SetRegionFunctions)
ThreadMembers   == Members(ThreadFunctions)
CriticalMembers == Members(CriticalFunctions)
BufferMembers   == Members(BufferFunctions)
InvokeMembers   == Members(InvokeFunctions)

JNIEnvMembers ==
  UNION { ClassMembers, ExceptionMembers, ReferenceMembers, ObjectMembers,
          CallMembers, CallNonvirtualMembers, FieldMembers,
          StaticMethodMembers, CallStaticMembers, StaticFieldMembers,
          StringMembers, ObjectArrayMembers, NewArrayMembers,
          ElementsMembers, RegionMembers, ThreadMembers, CriticalMembers,
          BufferMembers }

=============================================================================
