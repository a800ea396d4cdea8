------------------------------- MODULE MetaVM -------------------------------
(***************************************************************************)
(* The virtual machine that executes instructions inside the compiler      *)
(* (metalir_vm_execute and its vm_eval functions), and the three that      *)
(* drive it: the interactive prompt (run_repl), the runner of files        *)
(* (run_file) and the @meta blocks of the generator.  What is typed is     *)
(* lowered into a function of its own and executed; names that last are    *)
(* globals of the machine.  Integers are kept in Width values and are      *)
(* loaded without their sign.  Whatever the code an item is lowered to,    *)
(* the machine executes it: MetaMeaning gives it that of DataLowering, and *)
(* compares what is printed with what the items mean.                      *)
(***************************************************************************)
EXTENDS DataValues, FiniteSets, SequencesExt

CONSTANTS Sessions,   \* what is given to the machine: mode, items
          Library,    \* the functions of the language: params, body
          Compiled(_), \* the code an item is lowered to: vals, blocks
          Width       \* the number of values of an integer in memory

ASSUME WidthAssumption == Width \in Nat \ {0}

(***************************************************************************)
(* What the machine asks of the code: blocks of instructions, jumps to     *)
(* blocks that are there, and a temporary that holds the address of an     *)
(* allocation assigned by allocations only.                                *)
(***************************************************************************)
Arithmetic == {"add", "sub", "mul", "div", "mod", "xor", "eq", "lt", "gt"}
Assigns    == {"load", "get_ptr", "cast", "bitcast", "call"} \cup Arithmetic
Instruction == [op : STRING, dest : Nat, op1 : Nat, op2 : Nat, args : Seq(Nat),
                yes : Nat, no : Nat]

Insts(c) == UNION {Range(c.blocks[b]) : b \in DOMAIN c.blocks}
Made(c)  == {c.vals[inst.dest].n : inst \in {inst \in Insts(c) : inst.op = "alloca"}}

WellFormed(c) ==
  /\ c.blocks \in Seq(Seq(Instruction)) /\ c.blocks # <<>>
  /\ \A inst \in Insts(c) :
       /\ inst.op \in {"jump", "condi"} => inst.yes \in DOMAIN c.blocks
       /\ inst.op = "condi" => inst.no \in DOMAIN c.blocks
       /\ inst.op \in Assigns => c.vals[inst.dest].n \notin Made(c)

ASSUME SessionAssumption ==
  \A s \in Sessions :
    /\ DOMAIN s.items = 1..Len(s.items) /\ Len(s.items) \in Nat
    /\ \A k \in DOMAIN s.items : WellFormed(Compiled(s.items[k]))

\* Functions of C that dlsym finds.
Foreign == {"poke", "abs"}

VARIABLES session,    \* mode and items
          todo,       \* the items still to be run
          code,       \* what each item is lowered to
          funcs,      \* the functions of the module: the item whose code they have
          store,      \* names of globals, memory, number of allocations
          frames,     \* functions being executed, the innermost last
          result,     \* what the function started last returned
          status,     \* of the machine
          errors,     \* reported, since the prompt
          failed,     \* items for which errors were reported
          printed     \* by each item

vars == <<session, todo, code, funcs, store, frames, result, status, errors,
          failed, printed>>

Define(f)   == <<"func", f>>
Meta(body)  == <<"meta", body>>
Main(body)  == <<"main", body>>
IsVoid(e)   == e[1] = "call" /\ e[3] \in {"out", "poke"}
Current     == session.items[Head(todo)]
Repl        == session.mode = "repl"

-----------------------------------------------------------------------------
(***************************************************************************)
(* Functions and globals.                                                  *)
(***************************************************************************)
NameOf(item) ==
  CASE item[1] = "let"  -> "__init"
    [] item[1] = "do"   -> "__expr"
    [] item[1] = "main" -> "main"
    [] item[1] = "meta" -> "meta_compile_time"
    [] item[1] = "func" -> item[2]

\* A function with parameters that is there already keeps the blocks it has:
\* new ones are put behind them.
AddFunction(fs, items, k) ==
  LET f == NameOf(items[k])
  IN  IF f \in DOMAIN fs /\ items[k][1] = "func" /\ Library[f].params # <<>> THEN fs
      ELSE Bound(fs, f, k)

FunctionsOf(items) ==
  LET known[n \in 0..Len(items)] ==
        IF n = 0 THEN <<>>
        ELSE IF items[n][1] \in {"func", "main"} THEN AddFunction(known[n - 1], items, n)
        ELSE known[n - 1]
  IN  known[Len(items)]

Allocated(st)     == [st EXCEPT !.heap = @ + 1]
Object(st)        == PtrTo(st.heap, 0)

\* A new global in front of the others.
Declare(st, x, v) ==
  LET a == Allocated(st)
  IN  [a EXCEPT !.names = Bound(@, x, Object(a)), !.mem = Bound(@, Object(a), v)]

\* The global found first; nothing, or else a new one.
Update(st, x, v) ==
  IF x \in DOMAIN st.names THEN [st EXCEPT !.mem = Bound(@, st.names[x], v)] ELSE st
Put(st, x, v) == IF x \in DOMAIN st.names THEN Update(st, x, v) ELSE Declare(st, x, v)

\* A null pointer is 0.
AddressIn(st, x) == IF x \in DOMAIN st.names THEN st.names[x] ELSE IntOf(0)

\* What is in memory as it comes back: an integer without its sign.
Unsigned(v) == IF v[1] = "int" THEN IntOf(v[2] % Width) ELSE v
Contents(st, p) == IF p \in DOMAIN st.mem THEN Unsigned(st.mem[p]) ELSE IntOf(0)

-----------------------------------------------------------------------------
(***************************************************************************)
(* What is run of a session, and in which order.  A file runs its          *)
(* declarations first, and then either main or all its items.              *)
(***************************************************************************)
Only(items, kinds) ==
  LET chosen[n \in 0..Len(items)] ==
        IF n = 0 THEN <<>>
        ELSE IF items[n][1] \in kinds THEN Append(chosen[n - 1], n)
        ELSE chosen[n - 1]
  IN  chosen[Len(items)]

Steps(s) ==
  LET all  == [i \in DOMAIN s.items |-> i]
      main == Only(s.items, {"main"})
  IN  IF s.mode # "file" THEN all
      ELSE Only(s.items, {"let", "func"}) \o (IF main # <<>> THEN main ELSE all)

Init ==
  /\ session \in Sessions
  /\ todo = Steps(session)
  /\ code = [k \in DOMAIN session.items |-> Compiled(session.items[k])]
  /\ funcs = IF session.mode = "file" THEN FunctionsOf(session.items) ELSE <<>>
  /\ store = [names |-> <<>>, mem |-> <<>>, heap |-> 0]
  /\ frames = <<>> /\ result = <<>> /\ status = 0 /\ errors = 0 /\ failed = {}
  /\ printed = [i \in DOMAIN session.items |-> <<>>]

Idle == frames = <<>> /\ result = <<>> /\ todo # <<>>

Call(f, args, dest) ==
  [fn |-> f, args |-> args, dest |-> dest, b |-> 1, i |-> 1, next |-> 2, regs |-> <<>>]

\* metalir_vm_execute starts with an empty status.
Start(st) ==
  /\ Idle
  /\ funcs' = AddFunction(funcs, session.items, Head(todo))
  /\ frames' = <<Call(NameOf(Current), <<>>, 0)>>
  /\ store' = st
  /\ status' = 0
  /\ errors' = IF Repl THEN 0 ELSE errors
  /\ UNCHANGED <<session, code, todo, result, failed, printed>>

StartItem == Idle /\ Current[1] \in {"let", "do", "main"} /\ Start(store)

\* A @meta block has a machine of its own.
StartMeta == Idle /\ Current[1] = "meta" /\ Start([names |-> <<>>, mem |-> <<>>, heap |-> 0])

DefineFunction ==
  /\ Idle /\ Current[1] = "func"
  /\ funcs' = AddFunction(funcs, session.items, Head(todo))
  /\ todo' = Tail(todo)
  /\ UNCHANGED <<session, code, store, frames, result, status, errors, failed, printed>>

-----------------------------------------------------------------------------
(***************************************************************************)
(* One instruction of the innermost function.                              *)
(***************************************************************************)
Top       == Last(frames)
CodeAt(fn) == code[funcs[fn]]
Code      == CodeAt(Top.fn)
InBlock   == Top.i <= Len(Code.blocks[Top.b])
Instr     == Code.blocks[Top.b][Top.i]
At(ops)   == frames # <<>> /\ InBlock /\ Instr.op \in ops

Operand(v) ==
  LET x == Code.vals[v]
  IN  CASE x.kind = "const" -> IntOf(x.n)
        [] x.kind = "temp"  -> IF x.n \in DOMAIN Top.regs THEN Top.regs[x.n] ELSE IntOf(0)
        [] x.kind = "var" /\ x.n \in DOMAIN Top.args -> Top.args[x.n]
        [] OTHER            -> AddressIn(store, x.name)

Proceed(fs) == [fs EXCEPT ![Len(fs)].i = @ + 1]
Assigned(fs, dest, v) == [fs EXCEPT ![Len(fs)].regs = Bound(@, Code.vals[dest].n, v)]

Gives(v) ==
  /\ frames' = Proceed(Assigned(frames, Instr.dest, v))
  /\ UNCHANGED <<session, code, todo, funcs, result, status, errors, failed, printed>>

\* Mutant of Returned: the registers are not those of the caller again.
Returned_KeepsRegisters(v) ==
  IF Len(frames) = 1 THEN frames' = <<>> /\ result' = <<v>>
  ELSE LET callers == Front(frames)
           n       == CodeAt(Last(callers).fn).vals[Top.dest].n
       IN  /\ frames' = Proceed([callers EXCEPT ![Len(callers)].regs = Bound(Top.regs, n, v)])
           /\ UNCHANGED result

\* The innermost function ends with the value v.
Returned(v) ==
  IF Len(frames) = 1 THEN frames' = <<>> /\ result' = <<v>>
  ELSE LET callers == Front(frames)
           n       == CodeAt(Last(callers).fn).vals[Top.dest].n
       IN  /\ frames' = Proceed([callers EXCEPT ![Len(callers)].regs = Bound(@, n, v)])
           /\ UNCHANGED result

\* An error is reported, and the innermost function returns rc; its caller
\* goes on.
Failed(rc) ==
  /\ status' = rc
  /\ errors' = errors + 1
  /\ failed' = failed \cup {Head(todo)}
  /\ Returned(IntOf(rc))
  /\ UNCHANGED <<session, code, todo, funcs, store, printed>>

EvalAlloca ==
  /\ At({"alloca"})
  /\ store' = Allocated(store)
  /\ Gives(Object(store'))

EvalLoad ==
  /\ At({"load"})
  /\ UNCHANGED store
  /\ LET p == Operand(Instr.op1)
     IN  IF IsZero(p)
         THEN /\ frames' = Proceed(frames)
              /\ UNCHANGED <<session, code, todo, funcs, result, status, errors,
                             failed, printed>>
         ELSE Gives(Contents(store, p))

\* A store to a global that is not there makes it.
EvalStore ==
  /\ At({"store"})
  /\ LET v == Operand(Instr.op1)
         p == Operand(Instr.op2)
         x == Code.vals[Instr.op2]
     IN  store' = IF x.kind = "global" THEN Put(store, x.name, v)
                  ELSE IF IsZero(p) THEN store
                  ELSE [store EXCEPT !.mem = Bound(@, p, v)]
  /\ frames' = Proceed(frames)
  /\ UNCHANGED <<session, code, todo, funcs, result, status, errors, failed, printed>>

EvalGetPtr ==
  /\ At({"get_ptr"})
  /\ UNCHANGED store
  /\ LET p == Operand(Instr.op1)
     IN  IF IsZero(p)
         THEN /\ frames' = Proceed(frames)
              /\ UNCHANGED <<session, code, todo, funcs, result, status, errors,
                             failed, printed>>
         ELSE Gives(Compute("add", p, Operand(Instr.op2)))

EvalMisc ==
  At({"cast", "bitcast"}) /\ UNCHANGED store /\ Gives(Operand(Instr.op1))

EvalMath ==
  /\ At(Arithmetic)
  /\ LET x == Operand(Instr.op1)
         y == Operand(Instr.op2)
     IN  IF Instr.op \in {"div", "mod"} /\ IsZero(y) THEN Failed(-1)
         ELSE /\ UNCHANGED store
              /\ Gives(IF Instr.op = "xor" THEN IntOf(-x[2] - 1)
                         ELSE Compute(Instr.op, x, y))

\* Mutant of EvalNot: the instruction is not left.
EvalNot_Stays ==
  /\ At({"not"})
  /\ UNCHANGED vars

\* NOT has one operand, and arithmetic asks for two: nothing is computed.
EvalNot ==
  /\ At({"not"})
  /\ frames' = Proceed(frames)
  /\ UNCHANGED <<session, code, todo, funcs, store, result, status, errors, failed, printed>>

\* Jumps choose the block that follows this one.
EvalJump ==
  /\ At({"jump", "condi"})
  /\ LET kind  == Code.vals[Instr.op1].kind
         taken == kind \in {"temp", "const"} /\ ~IsZero(Operand(Instr.op1))
         next  == IF Instr.op = "jump" \/ taken THEN Instr.yes ELSE Instr.no
     IN  frames' = Proceed([frames EXCEPT ![Len(frames)].next = next])
  /\ UNCHANGED <<session, code, todo, funcs, store, result, status, errors, failed, printed>>

NextBlock ==
  /\ frames # <<>> /\ ~InBlock /\ Top.next <= Len(Code.blocks)
  /\ frames' = [frames EXCEPT ![Len(frames)].b = Top.next, ![Len(frames)].i = 1,
                              ![Len(frames)].next = Top.next + 1]
  /\ UNCHANGED <<session, code, todo, funcs, store, result, status, errors, failed, printed>>

\* A function that is left at its end returns the status.
EndOfBlocks ==
  /\ frames # <<>> /\ ~InBlock /\ Top.next > Len(Code.blocks)
  /\ Returned(IntOf(status))
  /\ UNCHANGED <<session, code, todo, funcs, store, status, errors, failed, printed>>

EvalRet ==
  /\ At({"ret"})
  /\ Returned(IF Instr.op1 = 0 \/ Code.vals[Instr.op1].kind = "var" THEN IntOf(0)
              ELSE Operand(Instr.op1))
  /\ UNCHANGED <<session, code, todo, funcs, store, status, errors, failed, printed>>

-----------------------------------------------------------------------------
Callee   == Code.vals[Instr.op1].name
CallArgs == [a \in DOMAIN Instr.args |-> Operand(Instr.args[a])]

\* "out" is the machine's own print; it gives nothing.
CallPrint ==
  /\ At({"call"}) /\ Callee = "out"
  /\ printed' = [printed EXCEPT ![Head(todo)] = @ \o CallArgs]
  /\ frames' = Proceed(frames)
  /\ UNCHANGED <<session, code, todo, funcs, store, result, status, errors, failed>>

CallFunction ==
  /\ At({"call"}) /\ Callee \in DOMAIN funcs
  /\ frames' = Append(frames, Call(Callee, CallArgs, Instr.dest))
  /\ status' = 0
  /\ UNCHANGED <<session, code, todo, funcs, store, result, errors, failed, printed>>

CallForeign ==
  /\ At({"call"}) /\ Callee \notin DOMAIN funcs /\ Callee \in Foreign
  /\ LET r == Invoke(Callee, CallArgs, [mem |-> store.mem, out |-> <<>>])
     IN  store' = [store EXCEPT !.mem = r.s.mem] /\ Gives(r.v)

CallMissing ==
  At({"call"}) /\ Callee \notin DOMAIN funcs \cup Foreign \cup {"out"} /\ Failed(1)

-----------------------------------------------------------------------------
(***************************************************************************)
(* What is done with the value.                                            *)
(***************************************************************************)
HasValue == frames = <<>> /\ result # <<>>
TheValue == result[1]

Ending(shown) ==
  /\ printed' = [printed EXCEPT ![Head(todo)] = @ \o shown]
  /\ result' = <<>>
  /\ todo' = Tail(todo)
  /\ UNCHANGED <<session, code, funcs, frames, status, errors, failed>>

\* Mutant of Keep: the name keeps the first value it was given.
Keep_First(st, v) ==
  IF Repl /\ "res" \notin DOMAIN st.names THEN Declare(st, "res", v) ELSE st

\* At the prompt the value gets a name.
Keep(st, v) == IF Repl THEN Put(st, "res", v) ELSE st

\* Nothing is declared when there was an error.
EndLet ==
  /\ HasValue /\ Current[1] = "let"
  /\ LET v == IF errors > 0 THEN IntOf(0) ELSE TheValue
     IN  /\ store' = Keep(IF errors > 0 THEN store ELSE Declare(store, Current[2], v), v)
         /\ Ending(IF Repl THEN <<v>> ELSE <<>>)

\* The names that an item assigns to, and those the semantic analysis knows
\* before the item that is run.
Assignee(e) == IF e[1] = "assign" /\ e[3][1] = "ref" THEN {e[3][2]} ELSE {}
Targets(item) ==
  CASE item[1] = "let" -> {item[2]}
    [] item[1] = "do"  -> Assignee(item[2])
    [] OTHER           -> {}
KnownNames ==
  UNION {Targets(session.items[k]) : k \in 1..(Head(todo) - 1)} \cup ({"res"} \cap DOMAIN store.names)

\* An assignment to a name that is not known, or that is not made from its old
\* value, is a declaration.
ImplicitLet(e) == Assignee(e) # {} /\ (e[2] = "set" \/ Assignee(e) \cap KnownNames = {})

\* What is assigned to a name is assigned to its global once more: a declared
\* one before the value is kept, any other, if it is there, at the prompt.
EndExpr ==
  /\ HasValue /\ Current[1] = "do"
  /\ LET e     == Current[2]
         kept(st) == IF IsVoid(e) THEN st ELSE Keep(st, TheValue)
     IN  /\ store' = IF ImplicitLet(e) THEN kept(Put(store, e[3][2], TheValue))
                     ELSE IF Repl /\ Assignee(e) # {} THEN Update(kept(store), e[3][2], TheValue)
                     ELSE kept(store)
         /\ Ending(IF IsVoid(e) THEN <<>> ELSE <<TheValue>>)

EndMain == HasValue /\ Current[1] = "main" /\ UNCHANGED store /\ Ending(<<TheValue>>)
EndMeta == HasValue /\ Current[1] = "meta" /\ UNCHANGED store /\ Ending(<<>>)

Done == frames = <<>> /\ result = <<>> /\ todo = <<>> /\ UNCHANGED vars

Step ==
  \/ EvalAlloca \/ EvalLoad \/ EvalStore \/ EvalGetPtr \/ EvalMisc \/ EvalMath \/ EvalNot
  \/ EvalJump \/ NextBlock \/ EndOfBlocks \/ EvalRet
  \/ CallPrint \/ CallFunction \/ CallForeign \/ CallMissing

Drive ==
  \/ StartItem \/ StartMeta \/ DefineFunction
  \/ EndLet \/ EndExpr \/ EndMain \/ EndMeta

Next == Step \/ Drive \/ Done

Spec == Init /\ [][Next]_vars /\ WF_vars(Step \/ Drive)

-----------------------------------------------------------------------------
TypeOK ==
  /\ todo \in Seq(DOMAIN session.items)
  /\ \A k \in DOMAIN frames :
       /\ frames[k].fn \in DOMAIN funcs
       /\ frames[k].b \in DOMAIN CodeAt(frames[k].fn).blocks
       /\ frames[k].i \in 1..(Len(CodeAt(frames[k].fn).blocks[frames[k].b]) + 1)
  /\ \A x \in DOMAIN store.names : store.names[x][2] \in 1..store.heap
  /\ status \in {-1, 0, 1} /\ errors \in Nat /\ failed \subseteq DOMAIN session.items
  /\ (frames # <<>> \/ result # <<>>) => todo # <<>>

\* What a function has allocated is its own as long as it runs: no other call,
\* of the same function neither, has been given the same object, and all of it
\* is there (arena_alloc in vm_eval_mem, registers in metalir_vm_execute).
Own(k) ==
  {frames[k].regs[n] : n \in Made(CodeAt(frames[k].fn)) \cap DOMAIN frames[k].regs}

LocalsApart ==
  \A k \in DOMAIN frames :
    /\ Own(k) \subseteq {PtrTo(o, 0) : o \in 1..store.heap}
    /\ \A j \in 1..(k - 1) : Own(j) \cap Own(k) = {}

\* Every session comes to its end (the loops of run_repl and run_file).
Finishes == <>(frames = <<>> /\ todo = <<>>)
=============================================================================
