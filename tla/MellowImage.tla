----------------------------- MODULE MellowImage -----------------------------
(***************************************************************************)
(* Native images: the bytecode of the Python compiler lowered for the      *)
(* native runtime (src/mellowlang/mvi), and what the native stack machine  *)
(* makes of it.  NameOps become slots: those a skill's instructions mention  *)
(* are its own, all others the program's; parameters' ARG instructions go, *)
(* which moves every address.  The machine is native code: its             *)
(* instructions are modelled on the values the images of MCMellowVM use.   *)
(* Left out: constant and debug tables, strings, maps and floats, system   *)
(* calls other than range and printing, tasks and channels (GreenThreads). *)
(***************************************************************************)
EXTENDS MellowCompiler

(* What an image is built from: an unoptimized program, as with            *)
(* optimize=False (a truth value that is computed keeps its type).         *)
Bytecode(p) == [Compile(p) EXCEPT !.code = Assemble(LowerProgram(p))]

First(code, from, Ok(_)) ==
    LET found == {i \in from..Len(code) : Ok(code[i])}
    IN  IF found = {} THEN Len(code) + 1 ELSE CHOOSE i \in found : \A j \in found : i <= j

NameOps == {"LOAD", "STORE", "STORE_KEEP"}
Distinct(seq) == FoldLeft(LAMBDA acc, e : IF e \in ToSet(acc) THEN acc ELSE Append(acc, e), << >>, seq)
NamesIn(code, from, to) ==
    LET uses == SelectSeq(SubSeq(code, from, to), LAMBDA i : i.op \in NameOps)
    IN  [i \in DOMAIN uses |-> uses[i].a]

(* A skill owns the instructions from its address to behind its first      *)
(* RETURN and the constants and returns that follow it.  Its slots: the    *)
(* parameters, last first, and then the names its body mentions.           *)
BodyStart(code, at) == First(code, at, LAMBDA i : i.op # "ARG")
SkillEnd(code, at) ==
    LET end == First(code, BodyStart(code, at), LAMBDA i : i.op \in {"RETURN", "HALT"})
    IN  IF end > Len(code) \/ code[end].op = "HALT" THEN end
        ELSE First(code, end, LAMBDA i : i.op \notin {"PUSH", "RETURN"})

Slots(code, at) ==
    LET params == [i \in 1..(BodyStart(code, at) - at) |-> code[at + i - 1].a]
    IN  Distinct(Reverse(params) \o NamesIn(code, BodyStart(code, at), SkillEnd(code, at) - 1))

(* The skills.  A program without any is taken to have one of each name it *)
(* calls, and all of them to begin where it begins.                        *)
IsCall(ins) == ins.op = "CALL"
FuncsOf(bytecode) ==
    LET calls == SelectSeq(bytecode.code, IsCall)
        first(f) == calls[SelectInSeq(calls, LAMBDA i : i.a.f = f)]
    IN  IF DOMAIN bytecode.funcs # {} THEN bytecode.funcs
        ELSE [f \in {calls[i].a.f : i \in DOMAIN calls} |-> [address |-> 1, params |-> first(f).a.n]]

Scopes(bytecode) ==
    LET code == bytecode.code
        funcs == FuncsOf(bytecode)
    IN  {[at |-> at, end |-> SkillEnd(code, at), slots |-> Slots(code, at)] :
            at \in {funcs[f].address : f \in DOMAIN funcs}}

(* Mutant: the end of a skill is not noticed.                              *)
Owner_NeverLeft(scopes, pc) ==
    {s \in scopes : s.at <= pc /\ \A t \in scopes : t.at <= pc => t.at <= s.at}

(* The scope of the skill that owns pc, if any: the one begun last, unless *)
(* it has ended.                                                           *)
Owner(scopes, pc) ==
    {s \in scopes : s.at <= pc /\ pc < s.end /\ \A t \in scopes : t.at <= pc => t.at <= s.at}

LocalNames(scopes, pc) ==
    LET owner == Owner(scopes, pc)
    IN  IF owner = {} THEN << >> ELSE (CHOOSE s \in owner : TRUE).slots

(* The program's names get slots as the lowering meets them.               *)
Globals(code, scopes) ==
    LET met(acc, pc) ==
            IF \/ code[pc].op \notin NameOps
               \/ code[pc].a \in ToSet(acc) \cup ToSet(LocalNames(scopes, pc))
            THEN acc ELSE Append(acc, code[pc].a)
    IN  FoldLeft(met, << >>, [i \in DOMAIN code |-> i])

SlotFor(scopes, globals, x, pc) ==
    LET locals == LocalNames(scopes, pc)
    IN  SelectInSeq(IF x \in ToSet(locals) THEN locals ELSE globals, LAMBDA y : y = x) - 1

-----------------------------------------------------------------------------
(* Values of the native machine have a type.                               *)
I64(v) == [t |-> "i64", v |-> v]
Bool(b) == [t |-> "bool", v |-> Bit(b)]
Nothing == [t |-> "none", v |-> None]
ListOf(items) == [t |-> "list", v |-> items]
Const(v) == IF v = None THEN Nothing ELSE I64(v)
Skill(at, locals, params) == [t |-> "func", v |-> [at |-> at, locals |-> locals, params |-> params]]

(* The image: one instruction for each of the bytecode but ARG, which is   *)
(* consumed, and CALL, which needs the skill on the stack.  A call of a    *)
(* name unknown beside skills is refused.                                  *)
IsSkillCall(ins) == IsCall(ins) /\ ins.a.f # "range"
Refused(bytecode) ==
    \E i \in DOMAIN bytecode.code :
        IsSkillCall(bytecode.code[i]) /\ bytecode.code[i].a.f \notin DOMAIN FuncsOf(bytecode)

EmitInstruction(bytecode, scopes, globals, pc) ==
    LET ins == bytecode.code[pc]
        slot == SlotFor(scopes, globals, ins.a, pc)
        called == FuncsOf(bytecode)[ins.a.f]
        scope == CHOOSE s \in scopes : s.at = called.address
    IN  CASE ins.op = "ARG" -> << >>
          [] ins.op = "PUSH" -> <<Ins("PUSH_CONST", Const(ins.a))>>
          [] ins.op = "LOAD" -> <<Ins("LOAD_LOCAL", slot)>>
          [] ins.op \in StoreOps -> <<Ins("STORE_LOCAL", slot)>>
          [] IsSkillCall(ins) ->
                <<Ins("PUSH_CONST", Skill(called.address, Len(scope.slots), called.params)), Ins("CALL", ins.a.n)>>
          [] ins.op = "CALL" /\ ins.a.f = "range" -> <<Ins("SYSCALL", "range")>>
          [] ins.op = "PRINTN" -> <<Ins("PRINT", ins.a)>>
          [] OTHER -> <<ins>>

(* Targets of jumps and addresses of skills, which still are those of the  *)
(* bytecode, become places in the image.                                   *)
Place(code, pc) ==
    LET before == SubSeq(code, 1, pc - 1)
    IN  pc - Len(SelectSeq(before, LAMBDA i : i.op = "ARG")) + Len(SelectSeq(before, IsSkillCall))

Relocate(code, ins) ==
    CASE ins.op \in {"JUMP", "JIF"} -> [ins EXCEPT !.a = Place(code, @)]
      [] ins.op = "PUSH_CONST" -> IF ins.a.t = "func" THEN [ins EXCEPT !.a.v.at = Place(code, @)] ELSE ins
      [] OTHER -> ins

Lowered(bytecode) ==
    LET code == bytecode.code
        scopes == Scopes(bytecode)
        globals == Globals(code, scopes)
        image == FlattenSeq([pc \in DOMAIN code |-> EmitInstruction(bytecode, scopes, globals, pc)])
    IN  [i \in DOMAIN image |-> Relocate(code, image[i])]

-----------------------------------------------------------------------------
(* The native machine.  mixed: a comparison met something other than two   *)
(* numbers, for which the native runtime has rules of its own.             *)

Frame(return, base, slots, count) == [return |-> return, base |-> base, slots |-> slots, count |-> count]
NativeStart == [pc |-> 1, stack |-> << >>, locals |-> << >>, frames |-> <<Frame(0, 0, 0, 0)>>,
          out |-> << >>, end |-> "", mixed |-> FALSE]

Holds(v) == v.t # "none" /\ (IF v.t = "list" THEN v.v # << >> ELSE v.v # 0)
Numeric(a, b) == a.t = "i64" /\ b.t = "i64"
Comparisons == {"==", "!=", "<", ">", "<=", ">="}
Compare(o, a, b) ==
    CASE Numeric(a, b) -> Bool(Operate(o, a.v, b.v) = <<1>>)
      [] o = "==" /\ ~Numeric(a, b) -> Bool(a.t = b.t /\ a.t \in {"bool", "none"} /\ a.v = b.v)
      [] o = "!=" /\ ~Numeric(a, b) -> Bool(~(a.t = b.t /\ a.t \in {"bool", "none"} /\ a.v = b.v))
      [] OTHER -> Bool(FALSE)

(* A result is a sequence, empty for an error.                             *)
NativeResult(o, a, b) ==
    CASE o = "and" -> <<Bool(Holds(a) /\ Holds(b))>>
      [] o = "or" -> <<Bool(Holds(a) \/ Holds(b))>>
      [] o \in Comparisons -> <<Compare(o, a, b)>>
      [] o \in {"+", "-", "*"} -> IF Numeric(a, b) THEN <<I64(Operate(o, a.v, b.v)[1])>> ELSE << >>
      [] o = "%" -> IF Numeric(a, b) /\ b.v # 0 THEN <<I64(Modulo(a.v, b.v))>> ELSE << >>

Upto(seq, n) == SubSeq(seq, 1, n)
Cut(seq, n) == SubSeq(seq, 1, Len(seq) - n)
LastItems(seq, n) == SubSeq(seq, Len(seq) - n + 1, Len(seq))
Fails(m) == [m EXCEPT !.end = "error"]
Goes(m, n, r) ==
    IF r = << >> THEN Fails(m) ELSE [m EXCEPT !.pc = @ + 1, !.stack = Append(Cut(@, n), r[1])]

StoreLocal(m, slot, v) ==
    LET f == m.frames[Len(m.frames)]
        idx == f.slots + slot + 1
        width == IF idx > Len(m.locals) THEN idx ELSE Len(m.locals)
        held == [j \in 1..width |-> IF j = idx THEN v ELSE IF j <= Len(m.locals) THEN m.locals[j] ELSE Nothing]
    IN  [m EXCEPT !.pc = @ + 1, !.stack = Cut(@, 1), !.locals = held,
                  !.frames[Len(m.frames)].count = IF slot + 1 > @ THEN slot + 1 ELSE @]

(* The skill lies on top of its arguments, which become its first slots.   *)
CallNative(m, argc) ==
    LET skill == m.stack[Len(m.stack)].v
        base == Len(m.stack) - 1 - argc
        caller == m.frames[Len(m.frames)]
        slots == caller.slots + caller.count
        count == IF skill.locals > argc THEN skill.locals ELSE argc
        given == [i \in 1..count |-> IF i <= argc THEN m.stack[base + i] ELSE Nothing]
    IN  [m EXCEPT !.pc = skill.at, !.stack = Upto(@, base), !.locals = Upto(@, slots) \o given,
                  !.frames = Append(@, Frame(m.pc + 1, base, slots, count))]

ReturnNative(m) ==
    LET f == m.frames[Len(m.frames)]
        result == m.stack[Len(m.stack)]
    IN  IF Len(m.frames) = 1 THEN [m EXCEPT !.end = "done"]
        ELSE [m EXCEPT !.pc = f.return, !.frames = Cut(@, 1),
                       !.stack = Append(Upto(@, f.base), result),
                       !.locals = Upto(@, f.slots)]

ItemOf(list, i) ==
    LET r == ItemAt(list.v, IF i.t = "i64" THEN i.v ELSE -1)
    IN  IF list.t = "list" THEN r ELSE << >>

Step(code, m) ==
    LET ins == code[m.pc]
        top(n) == m.stack[Len(m.stack) - n]
        idx == m.frames[Len(m.frames)].slots + ins.a + 1
        range(a, b) == LET items == Numbers(a, b) IN ListOf([i \in DOMAIN items |-> I64(items[i])])
    IN  CASE ins.op = "PUSH_CONST" -> Goes(m, 0, <<ins.a>>)
          [] ins.op = "LOAD_LOCAL" -> Goes(m, 0, IF idx <= Len(m.locals) THEN <<m.locals[idx]>> ELSE << >>)
          [] ins.op = "STORE_LOCAL" -> StoreLocal(m, ins.a, top(0))
          [] ins.op = "BINARY" ->
                Goes([m EXCEPT !.mixed = @ \/ (ins.a \in Comparisons /\ ~Numeric(top(1), top(0)))],
                     2, NativeResult(ins.a, top(1), top(0)))
          [] ins.op = "BOOL_NOT" -> Goes(m, 1, <<Bool(~Holds(top(0)))>>)
          [] ins.op = "LEN" -> Goes(m, 1, IF top(0).t = "list" THEN <<I64(Len(top(0).v))>> ELSE << >>)
          [] ins.op = "GETITEM" -> Goes(m, 2, ItemOf(top(1), top(0)))
          [] ins.op = "BUILD_LIST" -> Goes(m, ins.a, <<ListOf(LastItems(m.stack, ins.a))>>)
          [] ins.op = "POP" -> [m EXCEPT !.pc = @ + 1, !.stack = Cut(@, 1)]
          [] ins.op = "PRINT" -> [m EXCEPT !.pc = @ + 1, !.stack = Cut(@, ins.a),
                                           !.out = Append(@, LastItems(m.stack, ins.a))]
          [] ins.op = "JUMP" -> [m EXCEPT !.pc = ins.a]
          [] ins.op = "JIF" -> [m EXCEPT !.pc = IF Holds(top(0)) THEN @ + 1 ELSE ins.a, !.stack = Cut(@, 1)]
          [] ins.op = "CALL" -> CallNative(m, ins.a)
          [] ins.op = "RETURN" -> ReturnNative(m)
          [] ins.op = "SYSCALL" ->
                IF ins.a = "range" /\ Numeric(top(1), top(0)) THEN Goes(m, 2, <<range(top(1).v, top(0).v)>>)
                ELSE Fails(m)                          \* list.map is not among the native calls
          [] ins.op \in {"HALT", "STOP"} -> [m EXCEPT !.end = "done"]

RECURSIVE RunNative(_, _), Untyped(_)
RunNative(code, m) == IF m.end # "" THEN m ELSE RunNative(code, Step(code, m))

Untyped(v) == IF v.t = "list" THEN [i \in DOMAIN v.v |-> Untyped(v.v[i])] ELSE v.v

NativeMeaning(image) ==
    LET m == RunNative(image, NativeStart)
    IN  [out |-> [i \in DOMAIN m.out |-> [j \in DOMAIN m.out[i] |-> Untyped(m.out[i][j])]],
         end |-> m.end, mixed |-> m.mixed]

-----------------------------------------------------------------------------
(* Programs whose skills an image keeps apart from the rest: a skill       *)
(* returns at its end alone (behind an earlier return the lowering takes   *)
(* it for ended), reads no name but its own, and is given no more          *)
(* arguments than it takes; what is called is a skill.  In front of a      *)
(* skill lies the jump around it.                                          *)
SelfContained(bytecode, f) ==
    LET code == bytecode.code
        at == bytecode.funcs[f].address
        end == code[at - 1].a
        body == SubSeq(code, at, end - 1)
    IN  /\ SkillEnd(code, at) >= end
        /\ \A i \in DOMAIN body : body[i].op = "LOAD" =>
              \E j \in 1..(i - 1) : body[j].op \in StoreOps \cup {"ARG"} /\ body[j].a = body[i].a

Portable(bytecode) ==
    /\ ~Refused(bytecode)
    /\ \A f \in DOMAIN bytecode.funcs : SelfContained(bytecode, f)
    /\ \A i \in DOMAIN bytecode.code :
          LET call == bytecode.code[i].a
          IN  IsSkillCall(bytecode.code[i]) =>
                  call.f \in DOMAIN bytecode.funcs /\ call.n <= bytecode.funcs[call.f].params
=============================================================================
