----------------------------- MODULE ExecStack -----------------------------
(***************************************************************************)
(* DoExec's packing of the arguments and environment onto the new user    *)
(* stack (src/CVSROOT/kernel/proc/procExec.c).                            *)
(*                                                                         *)
(* DoExec copies each argument and environment string into a kernel list, *)
(* measuring it (up to the accessible length) and lowering                *)
(* userStackPointer by its aligned length; for an interpreter file ("#!") *)
(* the interpreter's argument and the file name are inserted after        *)
(* argv[0].  After SetupVM it copies the strings up from userStackPointer *)
(* in order, builds argv and envp, lowers the pointer by copyLength for    *)
(* argc, argv and envp, and on sun4 once more by the aligned length of    *)
(* realLength, and starts the process with that stack pointer             *)
(* (Mach_ExecUserProc).                                                   *)
(*                                                                         *)
(* A string is its length; opening the file, SetupInterpret's reading of *)
(* the "#!" line (abstracted to extraArgs and the interpreter argument's  *)
(* length), SetupVM, close-on-exec, set-uid and signals are not modelled  *)
(* beyond their failing, which takes DoExec to execError.                 *)
(***************************************************************************)
EXTENDS Integers, Sequences, SequencesExt

CONSTANTS
    Sun4,           \* the build: TRUE when sun4 is defined
    StackTop,       \* mach_MaxUserStackAddr, the page boundary above the stack
    WordSize,       \* sizeof(Address) = sizeof(int)
    MaxArgLength,   \* PROC_MAX_EXEC_ARG_LENGTH
    MaxEnvLength,   \* PROC_MAX_ENVIRON_LENGTH
    Calls,          \* the exec calls: [args, envs, extra, shellArg, fileName]
    NoArray,        \* a NIL argPtrArray or envPtrArray
    Garbage         \* values an int read before it is written may hold

ASSUME /\ Sun4 \in BOOLEAN
       /\ StackTop % 8 = 0
       /\ WordSize \in Nat \ {0}

VARIABLE
    stack       \* the new process's stack: status "exec" before DoExec has
                \* finished, "running" after Mach_ExecUserProc, "failed"
                \* when DoExec went to execError

NoStack == [status |-> "exec", sp |-> StackTop, argv |-> <<>>, envp |-> <<>>, strs |-> <<>>]

-----------------------------------------------------------------------------
(* Copying in.                                                            *)

\* The inner loop that finds the length of a string: it stops at the NUL or
\* at the accessible length, and counts one byte more for the NUL.
RealLength(len, max) == (IF len < max THEN len ELSE max) + 1

\* The arguments in the order they are put on argList.  With a NIL array
\* the loop runs extraArgs times over the interpreter's strings.
\* Otherwise argv[0] comes first, the interpreter argument (extraArgs = 2)
\* and the file name are taken while extraArgs > 0, and the loop stops at
\* the NIL that ends the user's array, at once when argv is empty.
ArgStrings(call) ==
    LET extras == (IF call.extra = 2 THEN <<call.shellArg + 1>> ELSE <<>>)
                  \o (IF call.extra >= 1 THEN <<call.fileName + 1>> ELSE <<>>)
        user == IF call.args = NoArray THEN <<>>
                ELSE [k \in 1..Len(call.args) |-> RealLength(call.args[k], MaxArgLength)]
    IN  IF call.args = NoArray THEN extras
        ELSE IF user = <<>> THEN <<>>
        ELSE <<Head(user)>> \o extras \o Tail(user)

\* The environment strings, up to the NIL that ends the array.
EnvStrings(call) ==
    IF call.envs = NoArray THEN <<>>
    ELSE [k \in 1..Len(call.envs) |-> RealLength(call.envs[k], MaxEnvLength)]

\* The room each string takes while copying in: 4-byte aligned, and
\* double-word aligned on sun4.
Reserve(n) == IF Sun4 THEN ((n + 7) \div 8) * 8 ELSE ((n + 3) \div 4) * 4

\* realLength after the copy-in loops: the length of the last string
\* measured, or whatever the uninitialized variable holds if there was none.
LastRealLength(strs) == IF strs = <<>> THEN Garbage ELSE {Last(strs)}

-----------------------------------------------------------------------------
(* Copying out.                                                           *)

\* The copy-out loops advance by the 4-byte aligned length in both builds.
Step(n) == ((n + 3) \div 4) * 4

\* The stack DoExec hands to Mach_ExecUserProc, given realLength.
Layout(call, realLength) ==
    LET args == ArgStrings(call)
        strs == args \o EnvStrings(call)
        usp  == StackTop - FoldLeft(LAMBDA a, n : a + Reserve(n), 0, strs)
        At(i) == usp + FoldLeft(LAMBDA a, n : a + Step(n), 0, SubSeq(strs, 1, i - 1))
        copyLength == (Len(strs) + 2) * WordSize + WordSize
        sp == usp - copyLength - (IF Sun4 THEN Reserve(realLength) ELSE 0)
    IN  [status |-> "exec",
         sp   |-> sp,
         argv |-> [i \in 1..Len(args) |-> At(i)],
         envp |-> [i \in 1..Len(strs) - Len(args) |-> At(Len(args) + i)],
         strs |-> strs]

\* Mach_ExecUserProc (sun4 machCode.c): it stores userStackPtr unchanged as
\* the frame pointer of the trap frame it returns to user mode through, so
\* the new process runs with the stack pointer DoExec computed.
Mach_ExecUserProc(st) == [st EXCEPT !.status = "running"]

-----------------------------------------------------------------------------
(* Actions.                                                               *)

\* Proc_ExecEnv (or Proc_KernExec) calls DoExec, which reaches
\* Mach_ExecUserProc.
DoExec(call) ==
    /\ stack = NoStack
    /\ \E realLength \in LastRealLength(ArgStrings(call) \o EnvStrings(call)) :
          stack' = Mach_ExecUserProc(Layout(call, realLength))

\* Opening the file, reading its header, the interpreter, an inaccessible
\* string or SetupVM fails: DoExec frees the lists and returns the status.
ExecError ==
    /\ stack = NoStack
    /\ stack' = [stack EXCEPT !.status = "failed"]

Next == (\E call \in Calls : DoExec(call)) \/ ExecError

Spec == stack = NoStack /\ [][Next]_stack

-----------------------------------------------------------------------------
(* Properties.                                                            *)

\* The stack pointer DoExec passes to Mach_ExecUserProc, which stores it
\* as the new process's frame pointer unchanged, is aligned: to a word,
\* and on sun4 to a double word, as the comments at the two copy-in loops
\* require ("I'm requiring the user stack pointer to be double-word
\* aligned") and the extra adjustment after copyLength is meant to keep.
ExecStackAligned ==
    stack.status = "running" =>
        (StackTop - stack.sp) % (IF Sun4 THEN 8 ELSE WordSize) = 0

=============================================================================
