------------------------------ MODULE MellowVM ------------------------------
(***************************************************************************)
(* The Python interpreter of Mellow (src/mellowlang/vm/interp): a stack    *)
(* machine that runs what MellowParser and MellowCompiler make of the text *)
(* of a program.  A skill handed to list.map runs on a machine of its own, *)
(* nested in the caller's, with a second implementation of the             *)
(* instructions (vm/interp/invocation.py).                                 *)
(*                                                                         *)
(* Left out: strings, maps and floats as values, keep variables, imports,  *)
(* events and system calls other than list.map.                            *)
(***************************************************************************)
EXTENDS MellowCompiler, MellowParser

CONSTANTS
    Programs,   \* a set of programs: each its text and the tree it stands for
    MaxSteps    \* max_steps of the run configuration

VARIABLES
    prog,       \* the program that runs
    bytecode,   \* its instructions and the addresses of its skills
    vms,        \* machines: the main one and, above it, the nested ones
    out,        \* lines printed
    status      \* "running", "done", "error" (an exception), "limit" or "rejected"

vars == <<prog, bytecode, vms, out, status>>

(* What each program means, and the instructions its text compiles to,     *)
(* none when it is rejected.                                               *)
Meanings == [program \in Programs |-> Meaning(program.tree)]
Means(program) == Meanings[program]
Compiled ==
    [program \in Programs |->
        LET parsed == ParseProgram(program.text)
        IN  IF parsed.i = 0 THEN None ELSE Compile(parsed.e)]

Source == INSTANCE MellowSource WITH shown <- out, ended <- status, Meaning <- Means

Code == bytecode.code
FuncTable == bytecode.funcs

-----------------------------------------------------------------------------
(* Machines.  left: steps before the limit; job: the call a nested machine *)
(* answers (CALL for one result, list.map for one per item).               *)

NoJob == [kind |-> "none", f |-> "", todo |-> << >>, results |-> << >>]

Machine(pc, stack, scopes) ==
    [pc |-> pc, stack |-> stack, variables |-> scopes, calls |-> << >>,
     left |-> MaxSteps, job |-> NoJob]

Init ==
    /\ prog \in Programs
    /\ bytecode = Compiled[prog]
    /\ status = IF bytecode = None THEN "rejected" ELSE "running"
    /\ vms = <<Machine(1, << >>, <<<< >>>>)>>
    /\ out = << >>

VM == vms[Len(vms)]
Nested == Len(vms) > 1
At(op) == status = "running" /\ VM.left > 0 /\ VM.pc \in DOMAIN Code /\ Code[VM.pc].op = op
Arg == Code[VM.pc].a

Top(n) == VM.stack[Len(VM.stack) - n]              \* Top(0) is the last pushed
Popped(n) == SubSeq(VM.stack, 1, Len(VM.stack) - n)
LastOf(n) == SubSeq(VM.stack, Len(VM.stack) - n + 1, Len(VM.stack))
Stepped == [VM EXCEPT !.pc = @ + 1, !.left = @ - 1]

Put(vm) == vms' = [vms EXCEPT ![Len(vms)] = vm]
Silent == UNCHANGED <<prog, bytecode, out, status>>
Yields(n, v) == Put([Stepped EXCEPT !.stack = Append(Popped(n), v)]) /\ Silent

(* An exception ends the main run; a nested machine ignores it and goes on *)
(* behind the instruction, whose operands are gone.                        *)
Fault(n) ==
    IF Nested
    THEN Put([Stepped EXCEPT !.stack = Popped(n)]) /\ Silent
    ELSE status' = "error" /\ UNCHANGED <<prog, bytecode, vms, out>>

Results(n, r) == IF r = << >> THEN Fault(n) ELSE Yields(n, r[1])

Scope(x) == SelectLastInSeq(VM.variables, LAMBDA s : x \in DOMAIN s)

PushConst == At("PUSH") /\ Yields(0, Arg)

LoadName ==
    /\ At("LOAD")
    /\ IF Scope(Arg) > 0 THEN Yields(0, VM.variables[Scope(Arg)][Arg])
       ELSE IF Arg \in DOMAIN FuncTable THEN Yields(0, Arg)
       ELSE Fault(0)

(* STORE, STORE_AUTO, STORE_KEEP and ARG.                                   *)
StoreName ==
    /\ At("STORE") \/ At("ARG") \/ (At("STORE_KEEP") /\ ~Nested)
    /\ Put([Stepped EXCEPT !.stack = Popped(1),
                           !.variables[Len(VM.variables)] = (Arg :> Top(0)) @@ @])
    /\ Silent

(* A nested machine passes over instructions it does not know.             *)
KeepNested == At("STORE_KEEP") /\ Nested /\ Put(Stepped) /\ Silent

(* A nested machine evaluates all six comparisons before it picks one, so  *)
(* none makes each of them fail; and it divides by zero.                   *)
StricterNested ==
    \/ Arg \notin {"and", "or"} /\ (Top(0) = None \/ Top(1) = None)
    \/ Arg = "%" /\ Top(0) = 0

BinaryOp ==
    /\ At("BINARY")
    /\ IF Nested /\ StricterNested THEN Fault(2) ELSE Results(2, Operate(Arg, Top(1), Top(0)))

BoolNot == At("BOOL_NOT") /\ Yields(1, Bit(~Truthy(Top(0))))

Length == At("LEN") /\ Yields(1, Len(Top(0)))

GetItem == At("GETITEM") /\ Results(2, ItemAt(Top(1), Top(0)))

BuildList == At("BUILD_LIST") /\ Yields(Arg, LastOf(Arg))

Pop == At("POP") /\ Put([Stepped EXCEPT !.stack = Popped(1)]) /\ Silent

ShowValues ==
    /\ At("PRINTN")
    /\ out' = Append(out, LastOf(Arg))
    /\ Put([Stepped EXCEPT !.stack = Popped(Arg)])
    /\ UNCHANGED <<prog, bytecode, status>>

(* A nested machine has advanced its pc before it executes, and sets it to *)
(* the instruction before the target.                                      *)
GoTo(vm, target) ==
    [vm EXCEPT !.pc = IF Nested THEN target - 1 ELSE target, !.left = @ - 1]

JumpTo == At("JUMP") /\ Put(GoTo(VM, Arg)) /\ Silent

JumpUnless ==
    /\ At("JIF")
    /\ LET vm == [VM EXCEPT !.stack = Popped(1)]
       IN  Put(IF Truthy(Top(0)) THEN [Stepped EXCEPT !.stack = Popped(1)] ELSE GoTo(vm, Arg))
    /\ Silent

MakeRange ==
    /\ At("CALL") /\ Arg.f = "range" /\ Arg.n = 2 /\ ~Nested
    /\ Yields(2, Numbers(Top(1), Top(0)))

(* The main machine calls in place: missing arguments are none, and the    *)
(* callee's ARG instructions take them from the stack.                     *)
CallSkill ==
    /\ At("CALL") /\ Arg.f \in DOMAIN FuncTable /\ ~Nested
    /\ LET skill == FuncTable[Arg.f]
       IN  IF Arg.n > skill.params THEN Fault(0)
           ELSE /\ Put([VM EXCEPT !.pc = skill.address, !.left = @ - 1,
                                  !.stack = @ \o [i \in 1..(skill.params - Arg.n) |-> None],
                                  !.calls = Append(@, VM.pc + 1),
                                  !.variables = Append(@, << >>)])
                /\ Silent

CallUnknown ==
    /\ At("CALL") /\ Arg.f \notin DOMAIN FuncTable
    /\ Arg.f = "range" => Nested
    /\ IF Nested THEN Yields(Arg.n, None) ELSE Fault(0)

(* _call_fn: a new machine at the skill's address, over a copy of the      *)
(* caller's outermost scope, with the first arguments the skill declares.  *)
Nest(caller, f, args) ==
    LET skill == FuncTable[f]
    IN  Machine(skill.address,
                [i \in 1..skill.params |-> IF i \in DOMAIN args THEN args[i] ELSE None],
                <<caller.variables[1], << >>>>)

(* A CALL on a nested machine nests another one.                           *)
CallNested ==
    /\ At("CALL") /\ Arg.f \in DOMAIN FuncTable /\ Nested
    /\ LET caller == [Stepped EXCEPT !.stack = Popped(Arg.n),
                                     !.job = [NoJob EXCEPT !.kind = "call", !.f = Arg.f]]
       IN  vms' = [vms EXCEPT ![Len(vms)] = caller] \o <<Nest(caller, Arg.f, LastOf(Arg.n))>>
    /\ Silent

(* list.map over the list and the skill on the stack.                      *)
StartMap ==
    /\ At("SYSCALL") /\ ~Nested
    /\ LET items == Top(1)
           caller == [Stepped EXCEPT !.stack = Popped(2),
                                     !.job = [NoJob EXCEPT !.kind = "map", !.f = Top(0),
                                                           !.todo = items]]
       IN  IF items = << >> THEN Yields(2, << >>)
           ELSE /\ vms' = [vms EXCEPT ![Len(vms)] = [caller EXCEPT !.job.todo = Tail(@)]]
                          \o <<Nest(caller, Top(0), <<Head(items)>>)>>
                /\ Silent

(* A nested machine is gone with result v, and its caller takes it up.     *)
Answer(v) ==
    LET below == SubSeq(vms, 1, Len(vms) - 2)
        caller == vms[Len(vms) - 1]
        job == caller.job
        results == Append(job.results, v)
        value == IF job.kind = "map" THEN results ELSE v
    IN  /\ vms' = IF job.todo = << >>
                  THEN Append(below, [caller EXCEPT !.stack = Append(@, value), !.job = NoJob])
                  ELSE below \o <<[caller EXCEPT !.job.todo = Tail(@), !.job.results = results],
                                  Nest(caller, job.f, <<Head(job.todo)>>)>>
        /\ Silent

ReturnNested == At("RETURN") /\ Nested /\ Answer(Top(0))

(* A return outside every skill leaves the program.                        *)
ReturnSkill ==
    /\ At("RETURN") /\ ~Nested
    /\ Put([VM EXCEPT !.variables = SubSeq(@, 1, Len(@) - 1),
                      !.pc = IF VM.calls = << >> THEN Len(Code) + 1 ELSE VM.calls[Len(VM.calls)],
                      !.calls = IF @ = << >> THEN @ ELSE SubSeq(@, 1, Len(@) - 1),
                      !.left = @ - 1])
    /\ Silent

Halt ==
    /\ At("HALT") \/ At("STOP")
    /\ IF Nested THEN Answer(None)
       ELSE status' = "done" /\ UNCHANGED <<prog, bytecode, vms, out>>

(* Behind the last instruction the run ends; out of steps, the main        *)
(* machine raises an error and a nested one answers none.                  *)
RunOut ==
    /\ status = "running"
    /\ VM.left = 0 \/ VM.pc \notin DOMAIN Code
    /\ IF Nested THEN Answer(None)
       ELSE /\ status' = IF VM.pc \in DOMAIN Code THEN "limit" ELSE "done"
            /\ UNCHANGED <<prog, bytecode, vms, out>>

Next ==
    \/ PushConst \/ LoadName \/ StoreName \/ KeepNested \/ BinaryOp \/ BoolNot \/ Length \/ GetItem \/ BuildList
    \/ Pop \/ ShowValues \/ JumpTo \/ JumpUnless
    \/ MakeRange \/ CallSkill \/ CallUnknown \/ CallNested \/ StartMap
    \/ ReturnNested \/ ReturnSkill \/ Halt \/ RunOut

(* run() is one loop: the interpreter goes on while the program has        *)
(* instructions, so its next step is never put off for ever.               *)
Spec == Init /\ [][Next]_vars /\ WF_vars(Next)

-----------------------------------------------------------------------------
(* The machines' bookkeeping agrees: every scope but the first belongs to  *)
(* one call in progress (a nested machine starts inside one), and only the *)
(* top machine is not waiting for a nested one.  A program that comes to   *)
(* its end has an empty operand stack and no call open.                    *)
TypeOK ==
    /\ status \in {"running", "done", "error", "limit", "rejected"}
    /\ vms # << >>
    /\ \A i \in DOMAIN vms :
          /\ vms[i].pc \in 1..(Len(Code) + 1)
          /\ vms[i].left \in 0..MaxSteps
          /\ vms[i].calls \in Seq(DOMAIN Code)
          /\ vms[i].pc \in DOMAIN Code =>
                Len(vms[i].variables) = Len(vms[i].calls) + (IF i = 1 THEN 1 ELSE 2)
          /\ vms[i].job.kind = "none" <=> i = Len(vms)
    /\ status = "done" /\ VM.pc \in DOMAIN Code /\ Code[VM.pc].op = "HALT" =>
          VM.stack = << >> /\ VM.calls = << >> /\ Len(vms) = 1

(* The compiled program shows, line by line, what its source means, and    *)
(* ends as it should: it neither hangs until the step limit nor fails.     *)
SourceSpec == Source!Spec
=============================================================================
