------------------------------ MODULE HookStub ------------------------------
(***************************************************************************)
(* The machine code that InstallHook writes into g_codeBlock, and the      *)
(* prologue of ShouldSynchronise that it replaces                          *)
(* (nvmp_server_hook/src/main.cpp, 271-346), as programs of a symbolic     *)
(* x86: a stack of dwords, the general registers, one instruction a step.  *)
(*                                                                         *)
(* A word is a pair: <<"eax", 0>> is what the caller had in eax,           *)
(* <<"stack", i>> the address of the stack's dword i, <<"number", n>> a    *)
(* number.  Only the flag that `cmp al, 0` sets is kept.  Bytes count in   *)
(* the code (jumps go to byte offsets) and dwords on the stack.            *)
(***************************************************************************)
EXTENDS Integers, Sequences

Registers == {"eax", "ecx", "edx", "ebx", "ebp", "esi", "edi"}
CalleeSaved == {"ebx", "ebp", "esi", "edi"}

\* Stack positions: those below Entry are free when the function is entered.
Entry == 13
Stack == 0 .. Entry + 2

\* What the registers and the stack hold when ShouldSynchronise is called:
\* `this` in ecx, the return address on top of param_2, the caller's words.
AtCall(pc) ==
  [pc |-> pc, esp |-> Entry, zero |-> FALSE,
   reg |-> [r \in Registers |-> <<r, 0>>],
   mem |-> [i \in Stack |->
              CASE i = Entry -> <<"return", 0>>
                [] i = Entry + 1 -> <<"param_2", 0>>
                [] i > Entry + 1 -> <<"caller", i>>
                [] OTHER -> <<"free", 0>>]]

----------------------------------------------------------------------------
(* Instructions.  Each takes the machine m to what it is after it.         *)

Drop(m, dwords) == [m EXCEPT !.esp = @ + dwords]
Store(m, word) == [m EXCEPT !.mem = [@ EXCEPT ![m.esp] = word]]
Push(m, word) == Store(Drop(m, -1), word)
Move(m, r, word) == [m EXCEPT !.reg = [@ EXCEPT ![r] = word]]
Compare(m, zero) == [m EXCEPT !.zero = zero]
Jump(m, pc) == [m EXCEPT !.pc = pc]

\* pushad and popad: eax is highest on the stack, edi lowest; the pushed esp is
\* not popped.
PushedOrder == <<"eax", "ecx", "edx", "ebx", "esp", "ebp", "esi", "edi">>

Pushad(m) ==
  [Drop(m, -8) EXCEPT
     !.mem = [i \in Stack |->
                IF i \notin m.esp - 8 .. m.esp - 1 THEN m.mem[i]
                ELSE IF PushedOrder[m.esp - i] = "esp" THEN <<"stack", m.esp>>
                ELSE m.reg[PushedOrder[m.esp - i]]]]

Popad(m) ==
  [Drop(m, 8) EXCEPT
     !.reg = [r \in Registers |->
                m.mem[m.esp + 8 - (CHOOSE k \in 1 .. 8 : PushedOrder[k] = r)]]]

\* The low byte of a word is zero: of the number zero, and of a register after
\* `xor al, al`.
LowByteZero(word) == word \in {<<"number", 0>>, <<"zeroed", 0>>}

----------------------------------------------------------------------------
(* The code block.  An instruction is its operation, its operand and how   *)
(* many bytes it takes.                                                    *)

\* Mutant of Parameter: the dword that is param_2 before the result slot is made.
ParameterEarly == 40

\* Byte offsets from esp at which the stub finds param_2 and ecx (300-305).
Parameter == 44
SavedECX == 36

\* Mutant of Polarity: je instead of jne.
PolarityReversed == TRUE

\* The jump at 318 is taken on this value of the zero flag.
Polarity == FALSE

Instruction(op, arg, size) == [op |-> op, arg |-> arg, size |-> size]

CodeBlock ==
  << Instruction("pushad", 0, 1),
     Instruction("sub esp", 4, 3),
     Instruction("lea eax, [esp]", 0, 3),
     Instruction("push eax", 0, 1),
     Instruction("push [esp+]", Parameter, 4),
     Instruction("push [esp+]", SavedECX, 4),
     Instruction("call", 0, 5),
     Instruction("add esp", 12, 3),
     Instruction("pop eax", 0, 1),
     Instruction("cmp al", 0, 2),
     Instruction("jcc", 6, 2),     \* no_block - (jne_pos + 1)
     Instruction("popad", 0, 1),
     Instruction("xor al, al", 0, 2),
     Instruction("ret", 4, 3),
     Instruction("popad", 0, 1),
     Instruction("push ebp", 0, 1),
     Instruction("mov ebp, esp", 0, 2),
     Instruction("push -1", 0, 2),
     Instruction("jmp return", 0, 5) >>

\* The first five bytes of ShouldSynchronise: 55 8B EC 6A FF.
Prologue ==
  << Instruction("push ebp", 0, 1),
     Instruction("mov ebp, esp", 0, 2),
     Instruction("push -1", 0, 2) >>

\* Where each instruction of a program begins, and where the program ends.
Offsets(program) ==
  LET at[i \in 1 .. Len(program) + 1] == IF i = 1 THEN 0 ELSE at[i - 1] + program[i - 1].size
  IN  at

BlockAt == Offsets(CodeBlock)
PrologueAt == Offsets(Prologue)

\* What comes after the instruction, if it does not jump.
Falls(m, inst) == Jump(m, <<m.pc[1], m.pc[2] + inst.size>>)

\* A dword of the stack a byte offset away from esp.
Operand(m, offset) == m.mem[m.esp + offset \div 4]

Astray(m) == Jump(m, <<"astray", 0>>)

Execute(m, inst) ==
  LET n == Falls(m, inst)
  IN  CASE inst.op = "pushad" -> Pushad(n)
        [] inst.op = "popad" -> Popad(n)
        [] inst.op = "sub esp" -> Drop(n, 0 - inst.arg \div 4)
        [] inst.op = "add esp" -> Drop(n, inst.arg \div 4)
        [] inst.op = "lea eax, [esp]" -> Move(n, "eax", <<"stack", m.esp>>)
        [] inst.op = "push eax" -> Push(n, m.reg["eax"])
        [] inst.op = "push ebp" -> Push(n, m.reg["ebp"])
        [] inst.op = "push -1" -> Push(n, <<"number", -1>>)
        [] inst.op = "push [esp+]" -> Push(n, Operand(m, inst.arg))
        [] inst.op = "mov ebp, esp" -> Move(n, "ebp", <<"stack", m.esp>>)
        [] inst.op = "pop eax" -> Drop(Move(n, "eax", m.mem[m.esp]), 1)
        [] inst.op = "cmp al" -> Compare(n, LowByteZero(m.reg["eax"]))
        [] inst.op = "xor al, al" -> Move(n, "eax", <<"zeroed", 0>>)
        [] inst.op = "jcc" ->
             IF m.zero = Polarity THEN Jump(n, <<n.pc[1], n.pc[2] + inst.arg>>) ELSE n
        [] inst.op = "call" -> Jump(Push(n, n.pc), <<"dll", 0>>)
        [] inst.op = "ret" -> Jump(Drop(n, 1 + inst.arg \div 4), m.mem[m.esp])
        [] inst.op = "jmp return" -> Jump(n, <<"body", 5>>)

\* One step of a program that begins at offset 0 of where the machine is.
StepIn(m, program, at) ==
  IF \E i \in 1 .. Len(program) : at[i] = m.pc[2]
    THEN Execute(m, program[CHOOSE i \in 1 .. Len(program) : at[i] = m.pc[2]])
    ELSE Astray(m)

\* What the whole prologue makes of a machine at its first byte.
AfterPrologue(m) ==
  LET pushed == Push(m, m.reg["ebp"])
      framed == Move(pushed, "ebp", <<"stack", pushed.esp>>)
  IN  Jump(Push(framed, <<"number", -1>>), <<"body", 5>>)

----------------------------------------------------------------------------
(* CheckShouldBlock: a cdecl function with three arguments.                *)

Argument(m, i) == m.mem[m.esp + i]

\* It writes its answer through resultPtr, may use eax, ecx, edx and its
\* arguments as it likes, keeps the other registers and pops nothing.
AnsweredBy(m, answer) ==
  LET result == Argument(m, 3)
      word == IF answer = "block" THEN <<"number", 0>> ELSE <<"number", 255>>
  IN  [Jump(Drop(m, 1), m.mem[m.esp]) EXCEPT
         !.reg = [r \in Registers |-> IF r \in CalleeSaved THEN m.reg[r] ELSE <<"junk", 0>>],
         !.mem = [i \in Stack |->
                    IF result = <<"stack", i>> THEN word
                    ELSE IF i \in m.esp + 1 .. m.esp + 3 THEN <<"junk", 0>>
                    ELSE m.mem[i]]]

=============================================================================
