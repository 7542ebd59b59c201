--------------------------- MODULE HookStubProofs ---------------------------
(***************************************************************************)
(* The stub, its installation and its removal implement HookedFunction,    *)
(* for any number of server threads (LifecycleImplementsFunction).         *)
(*                                                                         *)
(* The machine of a thread is followed one instruction at a time: what is  *)
(* in its registers and on its stack depends only on the byte it stands at *)
(* and on what CheckShouldBlock has answered (MachineInv).  A thread that  *)
(* nobody has overtaken stands where there is code (Standing), because the *)
(* block is filled before the bytes lead to it and freed after they have   *)
(* been restored (BlockInv).  Together they are inductive (CallsInv), and  *)
(* they say of every instruction which step of HookedFunction it is.       *)
(***************************************************************************)
EXTENDS HookLifecycleProofs

----------------------------------------------------------------------------
(* The two programs: where their instructions begin, and what they are.    *)

(* Where the instructions of the prologue and of the block begin.          *)
PrologueOffsets == <<0, 1, 3, 5>>
BlockOffsets == <<0, 1, 4, 7, 8, 12, 16, 21, 24, 25, 27, 29, 30, 32, 35, 36, 37, 39, 41, 46>>

LEMMA PrologueBegins ==
  ASSUME NEW i \in 1 .. 4 PROVE PrologueAt[i] = PrologueOffsets[i]
<1> DEFINE Step(g) == [j \in 1 .. Len(Prologue) + 1 |-> IF j = 1 THEN 0 ELSE g[j - 1] + Prologue[j - 1].size]
           f == [j \in 1 .. 4 |-> PrologueOffsets[j]]
<1>1. Len(Prologue) = 3 /\ Prologue[1].size = 1 /\ Prologue[2].size = 2 /\ Prologue[3].size = 2
  BY DEF Prologue, Instruction
<1>2. f = Step(f)
  <2>1. ASSUME NEW j \in 1 .. 4
        PROVE  f[j] = IF j = 1 THEN 0 ELSE f[j - 1] + Prologue[j - 1].size
    <3>1. j \in {1, 2, 3, 4}
      OBVIOUS
    <3>2. QED
      BY <1>1, <3>1 DEF PrologueOffsets
  <2>2. QED
    BY <1>1, <2>1
<1>3. PrologueAt = CHOOSE at : at = Step(at)
  BY DEF PrologueAt, Offsets
<1>4. PrologueAt = Step(PrologueAt)
  <2> HIDE DEF Step, f
  <2>1. QED
    BY <1>2, <1>3, Zenon
<1>5. \A j \in 1 .. 4 : PrologueAt[j] = IF j = 1 THEN 0 ELSE PrologueAt[j - 1] + Prologue[j - 1].size
  BY <1>1, <1>4
<1>6. PrologueAt[1] = 0 /\ PrologueAt[2] = 1 /\ PrologueAt[3] = 3 /\ PrologueAt[4] = 5
  BY <1>1, <1>5
<1>7. QED
  BY <1>6 DEF PrologueOffsets

(* The instructions of the block, one by one (main.cpp 283-339).           *)
LEMMA BlockOperations ==
  /\ CodeBlock[1].op = "pushad"
  /\ CodeBlock[2].op = "sub esp" /\ CodeBlock[2].arg = 4
  /\ CodeBlock[3].op = "lea eax, [esp]"
  /\ CodeBlock[4].op = "push eax"
  /\ CodeBlock[5].op = "push [esp+]" /\ CodeBlock[5].arg = 44
  /\ CodeBlock[6].op = "push [esp+]" /\ CodeBlock[6].arg = 36
  /\ CodeBlock[7].op = "call"
  /\ CodeBlock[8].op = "add esp" /\ CodeBlock[8].arg = 12
  /\ CodeBlock[9].op = "pop eax"
  /\ CodeBlock[10].op = "cmp al"
  /\ CodeBlock[11].op = "jcc" /\ CodeBlock[11].arg = 6
  /\ CodeBlock[12].op = "popad"
  /\ CodeBlock[13].op = "xor al, al"
  /\ CodeBlock[14].op = "ret" /\ CodeBlock[14].arg = 4
  /\ CodeBlock[15].op = "popad"
  /\ CodeBlock[16].op = "push ebp"
  /\ CodeBlock[17].op = "mov ebp, esp"
  /\ CodeBlock[18].op = "push -1"
  /\ CodeBlock[19].op = "jmp return"
BY DEF CodeBlock, Instruction, Parameter, SavedECX

(* How many bytes each of them takes.                                      *)
LEMMA BlockSizes ==
  /\ Len(CodeBlock) = 19
  /\ CodeBlock[1].size = 1 /\ CodeBlock[2].size = 3 /\ CodeBlock[3].size = 3
  /\ CodeBlock[4].size = 1 /\ CodeBlock[5].size = 4 /\ CodeBlock[6].size = 4
  /\ CodeBlock[7].size = 5 /\ CodeBlock[8].size = 3 /\ CodeBlock[9].size = 1
  /\ CodeBlock[10].size = 2 /\ CodeBlock[11].size = 2 /\ CodeBlock[12].size = 1
  /\ CodeBlock[13].size = 2 /\ CodeBlock[14].size = 3 /\ CodeBlock[15].size = 1
  /\ CodeBlock[16].size = 1 /\ CodeBlock[17].size = 2 /\ CodeBlock[18].size = 2
  /\ CodeBlock[19].size = 5
BY DEF CodeBlock, Instruction

(* The byte offsets that follow, among them the jump's target (main.cpp    *)
(* 318-320): no_block is where the second popad begins.                    *)
LEMMA BlockBegins ==
  /\ BlockAt[1] = 0 /\ BlockAt[2] = 1 /\ BlockAt[3] = 4 /\ BlockAt[4] = 7 /\ BlockAt[5] = 8
  /\ BlockAt[6] = 12 /\ BlockAt[7] = 16 /\ BlockAt[8] = 21 /\ BlockAt[9] = 24 /\ BlockAt[10] = 25
  /\ BlockAt[11] = 27 /\ BlockAt[12] = 29 /\ BlockAt[13] = 30 /\ BlockAt[14] = 32 /\ BlockAt[15] = 35
  /\ BlockAt[16] = 36 /\ BlockAt[17] = 37 /\ BlockAt[18] = 39 /\ BlockAt[19] = 41 /\ BlockAt[20] = 46
<1> DEFINE Step(g) == [j \in 1 .. Len(CodeBlock) + 1 |-> IF j = 1 THEN 0 ELSE g[j - 1] + CodeBlock[j - 1].size]
           f == [j \in 1 .. 20 |-> BlockOffsets[j]]
<1>1. f = Step(f)
  <2>1. ASSUME NEW j \in 1 .. 20
        PROVE  f[j] = IF j = 1 THEN 0 ELSE f[j - 1] + CodeBlock[j - 1].size
    <3>1. j \in {1, 2, 3, 4, 5, 6, 7, 8, 9, 10, 11, 12, 13, 14, 15, 16, 17, 18, 19, 20}
      OBVIOUS
    <3>2. QED
      BY <3>1, BlockSizes DEF BlockOffsets
  <2>2. QED
    BY <2>1, BlockSizes
<1>2. BlockAt = CHOOSE at : at = Step(at)
  BY DEF BlockAt, Offsets
<1>3. BlockAt = Step(BlockAt)
  <2> HIDE DEF Step, f
  <2>1. QED
    BY <1>1, <1>2, Zenon
<1>4. \A j \in 1 .. 20 : BlockAt[j] = IF j = 1 THEN 0 ELSE BlockAt[j - 1] + CodeBlock[j - 1].size
  BY <1>3, BlockSizes
<1>5. QED
  BY <1>4, BlockSizes

----------------------------------------------------------------------------
(* What an instruction does to a machine, and what it leaves.              *)

(* What each instruction does.                                             *)
LEMMA Executes ==
  ASSUME NEW m, NEW inst
  PROVE  /\ inst.op = "pushad" => Execute(m, inst) = Pushad(Falls(m, inst))
         /\ inst.op = "popad" => Execute(m, inst) = Popad(Falls(m, inst))
         /\ inst.op = "sub esp" => Execute(m, inst) = Drop(Falls(m, inst), 0 - inst.arg \div 4)
         /\ inst.op = "add esp" => Execute(m, inst) = Drop(Falls(m, inst), inst.arg \div 4)
         /\ inst.op = "lea eax, [esp]" =>
              Execute(m, inst) = Move(Falls(m, inst), "eax", <<"stack", m.esp>>)
         /\ inst.op = "push eax" => Execute(m, inst) = Push(Falls(m, inst), m.reg["eax"])
         /\ inst.op = "push ebp" => Execute(m, inst) = Push(Falls(m, inst), m.reg["ebp"])
         /\ inst.op = "push -1" => Execute(m, inst) = Push(Falls(m, inst), <<"number", -1>>)
         /\ inst.op = "push [esp+]" =>
              Execute(m, inst) = Push(Falls(m, inst), Operand(m, inst.arg))
         /\ inst.op = "mov ebp, esp" =>
              Execute(m, inst) = Move(Falls(m, inst), "ebp", <<"stack", m.esp>>)
         /\ inst.op = "pop eax" =>
              Execute(m, inst) = Drop(Move(Falls(m, inst), "eax", m.mem[m.esp]), 1)
         /\ inst.op = "cmp al" =>
              Execute(m, inst) = Compare(Falls(m, inst), LowByteZero(m.reg["eax"]))
         /\ inst.op = "xor al, al" =>
              Execute(m, inst) = Move(Falls(m, inst), "eax", <<"zeroed", 0>>)
         /\ inst.op = "jcc" =>
              Execute(m, inst) =
                IF m.zero = Polarity
                  THEN Jump(Falls(m, inst), <<Falls(m, inst).pc[1], Falls(m, inst).pc[2] + inst.arg>>)
                  ELSE Falls(m, inst)
         /\ inst.op = "call" =>
              Execute(m, inst) = Jump(Push(Falls(m, inst), Falls(m, inst).pc), <<"dll", 0>>)
         /\ inst.op = "ret" =>
              Execute(m, inst) = Jump(Drop(Falls(m, inst), 1 + inst.arg \div 4), m.mem[m.esp])
         /\ inst.op = "jmp return" => Execute(m, inst) = Jump(Falls(m, inst), <<"body", 5>>)
BY Zenon DEF Execute

\* A machine has the registers and the stack there are, whatever they hold.
Shaped(m) ==
  /\ m = [pc |-> m.pc, esp |-> m.esp, zero |-> m.zero, reg |-> m.reg, mem |-> m.mem]
  /\ m.reg = [r \in Registers |-> m.reg[r]]
  /\ m.mem = [i \in Stack |-> m.mem[i]]

\* The dwords that the caller has pushed and those above them.
CallersStack(m) ==
  /\ m.mem[Entry] = <<"return", 0>>
  /\ m.mem[Entry + 1] = <<"param_2", 0>>
  /\ m.mem[Entry + 2] = <<"caller", Entry + 2>>

\* The registers are as the caller left them.
OwnRegisters(m) == \A r \in Registers : m.reg[r] = <<r, 0>>

\* The caller's registers are where pushad has put them.
RegistersSaved(m) ==
  \A k \in 1 .. 8 : PushedOrder[k] # "esp" => m.mem[Entry - k] = <<PushedOrder[k], 0>>

\* What CheckShouldBlock writes through resultPtr.
AnswerWord(answer) == IF answer = "block" THEN <<"number", 0>> ELSE <<"number", 255>>

(* What the parts of an instruction change, and what they leave.           *)
LEMMA Jumps ==
  ASSUME NEW m, Shaped(m), NEW pc
  PROVE  /\ Shaped(Jump(m, pc)) /\ Jump(m, pc).pc = pc
         /\ Jump(m, pc).esp = m.esp /\ Jump(m, pc).zero = m.zero
         /\ Jump(m, pc).reg = m.reg /\ Jump(m, pc).mem = m.mem
BY DEF Shaped, Jump

(* A comparison sets the flag only.                                        *)
LEMMA Compares ==
  ASSUME NEW m, Shaped(m), NEW zero
  PROVE  /\ Shaped(Compare(m, zero)) /\ Compare(m, zero).zero = zero
         /\ Compare(m, zero).pc = m.pc /\ Compare(m, zero).esp = m.esp
         /\ Compare(m, zero).reg = m.reg /\ Compare(m, zero).mem = m.mem
BY DEF Shaped, Compare

(* Moving esp changes nothing else.                                        *)
LEMMA Drops ==
  ASSUME NEW m, Shaped(m), NEW dwords
  PROVE  /\ Shaped(Drop(m, dwords)) /\ Drop(m, dwords).esp = m.esp + dwords
         /\ Drop(m, dwords).pc = m.pc /\ Drop(m, dwords).zero = m.zero
         /\ Drop(m, dwords).reg = m.reg /\ Drop(m, dwords).mem = m.mem
BY DEF Shaped, Drop

(* A machine that differs in its registers, or in its stack.               *)
LEMMA NewRegisters ==
  ASSUME NEW m, Shaped(m), NEW reg, reg = [r \in Registers |-> reg[r]]
  PROVE  LET n == [m EXCEPT !.reg = reg]
         IN  /\ Shaped(n) /\ n.reg = reg
             /\ n.pc = m.pc /\ n.esp = m.esp /\ n.zero = m.zero /\ n.mem = m.mem
<1>1. [m EXCEPT !.reg = reg] = [pc |-> m.pc, esp |-> m.esp, zero |-> m.zero, reg |-> reg, mem |-> m.mem]
  BY DEF Shaped
<1>2. QED
  BY <1>1 DEF Shaped

(* The same for the stack.                                                 *)
LEMMA NewStack ==
  ASSUME NEW m, Shaped(m), NEW mem, mem = [i \in Stack |-> mem[i]]
  PROVE  LET n == [m EXCEPT !.mem = mem]
         IN  /\ Shaped(n) /\ n.mem = mem
             /\ n.pc = m.pc /\ n.esp = m.esp /\ n.zero = m.zero /\ n.reg = m.reg
<1>1. [m EXCEPT !.mem = mem] = [pc |-> m.pc, esp |-> m.esp, zero |-> m.zero, reg |-> m.reg, mem |-> mem]
  BY DEF Shaped
<1>2. QED
  BY <1>1 DEF Shaped

(* A move into a register leaves the other registers and the stack alone.  *)
LEMMA Moves ==
  ASSUME NEW m, Shaped(m), NEW r \in Registers, NEW word
  PROVE  /\ Shaped(Move(m, r, word))
         /\ Move(m, r, word).reg[r] = word
         /\ \A q \in Registers \ {r} : Move(m, r, word).reg[q] = m.reg[q]
         /\ Move(m, r, word).pc = m.pc /\ Move(m, r, word).zero = m.zero
         /\ Move(m, r, word).esp = m.esp /\ Move(m, r, word).mem = m.mem
<1> DEFINE reg == [m.reg EXCEPT ![r] = word]
<1>1. /\ reg = [q \in Registers |-> reg[q]]
      /\ reg[r] = word /\ \A q \in Registers \ {r} : reg[q] = m.reg[q]
  BY DEF Shaped
<1>2. Move(m, r, word) = [m EXCEPT !.reg = reg]
  BY Zenon DEF Move
<1> HIDE DEF reg
<1>3. QED
  BY <1>1, <1>2, NewRegisters

(* A push writes one dword below the others.                               *)
LEMMA Pushes ==
  ASSUME NEW m, Shaped(m), NEW word, m.esp \in Int, m.esp - 1 \in Stack
  PROVE  /\ Shaped(Push(m, word))
         /\ Push(m, word).esp = m.esp - 1
         /\ Push(m, word).mem[m.esp - 1] = word
         /\ \A i \in Stack \ {m.esp - 1} : Push(m, word).mem[i] = m.mem[i]
         /\ Push(m, word).pc = m.pc /\ Push(m, word).zero = m.zero
         /\ Push(m, word).reg = m.reg
<1>1. PICK n : n = Drop(m, -1)
  OBVIOUS
<1>2. /\ Shaped(n) /\ n.esp = m.esp - 1 /\ n.pc = m.pc /\ n.zero = m.zero
      /\ n.reg = m.reg /\ n.mem = m.mem
  <2>1. n.esp = m.esp + (-1)
    BY <1>1, Drops
  <2>2. QED
    BY <1>1, <2>1, Drops
<1> DEFINE mem == [n.mem EXCEPT ![n.esp] = word]
<1>3. /\ mem = [i \in Stack |-> mem[i]]
      /\ mem[m.esp - 1] = word /\ \A i \in Stack \ {m.esp - 1} : mem[i] = m.mem[i]
  BY <1>2 DEF Shaped
<1>4. Push(m, word) = [n EXCEPT !.mem = mem]
  BY <1>1, Zenon DEF Push, Store
<1> HIDE DEF mem
<1>5. QED
  BY <1>2, <1>3, <1>4, NewStack

(* Where the mnemonics' registers are in pushad's order.                   *)
LEMMA OrderOfRegisters ==
  /\ \A k \in 1 .. 8 : PushedOrder[k] \in Registers \cup {"esp"}
  /\ \A r \in Registers : \E k \in 1 .. 8 : PushedOrder[k] = r
  /\ \A j, k \in 1 .. 8 : PushedOrder[j] = PushedOrder[k] => j = k
<1>1. \A k \in 1 .. 8 : k \in {1, 2, 3, 4, 5, 6, 7, 8}
  OBVIOUS
<1>2. /\ PushedOrder[1] = "eax" /\ PushedOrder[2] = "ecx" /\ PushedOrder[3] = "edx"
      /\ PushedOrder[4] = "ebx" /\ PushedOrder[5] = "esp" /\ PushedOrder[6] = "ebp"
      /\ PushedOrder[7] = "esi" /\ PushedOrder[8] = "edi"
  BY DEF PushedOrder
<1>3. QED
  BY <1>1, <1>2 DEF Registers

(* pushad puts the caller's registers below what the caller has pushed.    *)
LEMMA PushesAll ==
  ASSUME NEW m, Shaped(m), m.esp = Entry, OwnRegisters(m), CallersStack(m)
  PROVE  /\ Shaped(Pushad(m)) /\ Pushad(m).esp = 5
         /\ RegistersSaved(Pushad(m)) /\ CallersStack(Pushad(m))
         /\ Pushad(m).pc = m.pc
<1>1. PICK n : n = Drop(m, -8)
  OBVIOUS
<1>2. Shaped(n) /\ n.esp = 5 /\ n.pc = m.pc
  <2>1. n.esp = 13 + (-8)
    BY <1>1, Drops DEF Entry
  <2>2. QED
    BY <1>1, <2>1, Drops
<1> DEFINE mem == [i \in Stack |->
                     IF i \notin m.esp - 8 .. m.esp - 1 THEN m.mem[i]
                     ELSE IF PushedOrder[m.esp - i] = "esp" THEN <<"stack", m.esp>>
                     ELSE m.reg[PushedOrder[m.esp - i]]]
<1>3. Pushad(m) = [n EXCEPT !.mem = mem]
  BY <1>1, Zenon DEF Pushad
<1>4. mem = [i \in Stack |-> mem[i]]
  OBVIOUS
<1>5. \A i \in Entry .. Entry + 2 : mem[i] = m.mem[i]
  BY DEF Entry, Stack
<1>6. ASSUME NEW k \in 1 .. 8, PushedOrder[k] # "esp" PROVE mem[Entry - k] = <<PushedOrder[k], 0>>
  <2>1. Entry - k \in Stack /\ Entry - k \in m.esp - 8 .. m.esp - 1 /\ m.esp - (Entry - k) = k
    BY DEF Entry, Stack
  <2>2. PushedOrder[k] \in Registers
    BY <1>6, OrderOfRegisters
  <2>3. QED
    BY <1>6, <2>1, <2>2 DEF OwnRegisters
<1>7. Shaped(Pushad(m)) /\ Pushad(m).mem = mem /\ Pushad(m).pc = m.pc /\ Pushad(m).esp = 5
  <2> HIDE DEF mem
  <2>1. QED
    BY <1>2, <1>3, <1>4, NewStack
<1> HIDE DEF mem
<1>8. RegistersSaved(Pushad(m))
  BY <1>6, <1>7 DEF RegistersSaved
<1>9. CallersStack(Pushad(m))
  BY <1>5, <1>7 DEF CallersStack, Entry
<1>10. QED
  BY <1>7, <1>8, <1>9

(* popad gives the caller its registers back.                              *)
LEMMA PopsAll ==
  ASSUME NEW m, Shaped(m), m.esp = 5, RegistersSaved(m)
  PROVE  /\ Shaped(Popad(m)) /\ Popad(m).esp = Entry
         /\ OwnRegisters(Popad(m))
         /\ Popad(m).mem = m.mem /\ Popad(m).pc = m.pc
<1>1. PICK n : n = Drop(m, 8)
  OBVIOUS
<1>2. Shaped(n) /\ n.esp = 13 /\ n.pc = m.pc /\ n.mem = m.mem
  <2>1. n.esp = 5 + 8
    BY <1>1, Drops
  <2>2. QED
    BY <1>1, <2>1, Drops
<1> DEFINE slot(r) == CHOOSE k \in 1 .. 8 : PushedOrder[k] = r
           reg == [r \in Registers |-> m.mem[m.esp + 8 - slot(r)]]
<1>3. Popad(m) = [n EXCEPT !.reg = reg]
  BY <1>1, Zenon DEF Popad
<1>4. reg = [r \in Registers |-> reg[r]]
  OBVIOUS
<1>5. ASSUME NEW r \in Registers PROVE reg[r] = <<r, 0>>
  <2>1. slot(r) \in 1 .. 8 /\ PushedOrder[slot(r)] = r
    BY OrderOfRegisters, Zenon
  <2> HIDE DEF slot
  <2>2. m.esp + 8 - slot(r) = Entry - slot(r) /\ r # "esp"
    BY <2>1 DEF Entry, Registers
  <2>3. QED
    BY <2>1, <2>2 DEF RegistersSaved
<1>6. Shaped(Popad(m)) /\ Popad(m).reg = reg /\ Popad(m).pc = m.pc /\ Popad(m).esp = 13
      /\ Popad(m).mem = m.mem
  <2> HIDE DEF reg
  <2>1. QED
    BY <1>2, <1>3, <1>4, NewRegisters
<1> HIDE DEF reg
<1>7. QED
  BY <1>5, <1>6 DEF OwnRegisters, Entry

----------------------------------------------------------------------------
(* Where a machine may stand, and what it then holds.                      *)

\* Between the instructions of the function's own prologue.
InPrologue(m) ==
  /\ <<m.pc[2], m.esp>> \in {<<0, Entry>>, <<1, Entry - 1>>, <<3, Entry - 1>>, <<5, Entry - 2>>}
  /\ \A r \in Registers \ {"ebp"} : m.reg[r] = <<r, 0>>
  /\ m.reg["ebp"] = IF m.pc[2] \in {0, 1} THEN <<"ebp", 0>> ELSE <<"stack", Entry - 1>>
  /\ m.pc[2] # 0 => m.mem[Entry - 1] = <<"ebp", 0>>
  /\ m.pc[2] = 5 => m.mem[Entry - 2] = <<"number", -1>>

\* From byte offset 0 to the call: esp, and what has been pushed for it.
BeforeCall(m) ==
  /\ <<m.pc[2], m.esp>> \in {<<0, 13>>, <<1, 5>>, <<4, 4>>, <<7, 4>>, <<8, 3>>, <<12, 2>>, <<16, 1>>}
  /\ m.pc[2] = 0 => OwnRegisters(m)
  /\ m.pc[2] # 0 => RegistersSaved(m)
  /\ m.pc[2] = 7 => m.reg["eax"] = <<"stack", 4>>
  /\ m.pc[2] >= 8 => m.mem[3] = <<"stack", 4>>
  /\ m.pc[2] >= 12 => m.mem[2] = <<"param_2", 0>>
  /\ m.pc[2] >= 16 => m.mem[1] = <<"ecx", 0>>

\* From the call's return to the jump.
AfterCall(m, answer) ==
  /\ <<m.pc[2], m.esp>> \in {<<21, 1>>, <<24, 4>>, <<25, 5>>, <<27, 5>>}
  /\ RegistersSaved(m)
  /\ m.pc[2] \in {21, 24} => m.mem[4] = AnswerWord(answer)
  /\ m.pc[2] = 25 => m.reg["eax"] = AnswerWord(answer)
  /\ m.pc[2] = 27 => m.zero = (answer = "block")

\* The branch that returns 0.
Withholding(m) ==
  /\ <<m.pc[2], m.esp>> \in {<<29, 5>>, <<30, 13>>, <<32, 13>>}
  /\ m.pc[2] = 29 => RegistersSaved(m)
  /\ m.pc[2] # 29 => \A r \in Registers \ {"eax"} : m.reg[r] = <<r, 0>>
  /\ m.pc[2] = 32 => LowByteZero(m.reg["eax"])

\* The branch that executes the prologue's instructions and jumps back.
Continuing(m) ==
  /\ <<m.pc[2], m.esp>> \in {<<35, 5>>, <<36, 13>>, <<37, 12>>, <<39, 12>>, <<41, 11>>}
  /\ m.pc[2] = 35 => RegistersSaved(m)
  /\ m.pc[2] # 35 => \A r \in Registers \ {"ebp"} : m.reg[r] = <<r, 0>>
  /\ m.pc[2] \in {36, 37} => m.reg["ebp"] = <<"ebp", 0>>
  /\ m.pc[2] \in {39, 41} => m.reg["ebp"] = <<"stack", 12>>
  /\ m.pc[2] \in {37, 39, 41} => m.mem[12] = <<"ebp", 0>>
  /\ m.pc[2] = 41 => m.mem[11] = <<"number", -1>>

\* On CheckShouldBlock's first instruction.
InDll(m) ==
  /\ m.pc[2] = 0 /\ m.esp = 0
  /\ RegistersSaved(m)
  /\ m.mem[0] = <<"stub", 21>> /\ m.mem[1] = <<"ecx", 0>>
  /\ m.mem[2] = <<"param_2", 0>> /\ m.mem[3] = <<"stack", 4>>

(* Each instruction of the block, as the machine executes it               *)
(* (main.cpp 283-339).                                                     *)
LEMMA BlockEffects ==
  ASSUME NEW m
  PROVE  LET F(k) == Falls(m, CodeBlock[k])
         IN  /\ Execute(m, CodeBlock[1]) = Pushad(F(1))
             /\ Execute(m, CodeBlock[2]) = Drop(F(2), -1)
             /\ Execute(m, CodeBlock[3]) = Move(F(3), "eax", <<"stack", m.esp>>)
             /\ Execute(m, CodeBlock[4]) = Push(F(4), m.reg["eax"])
             /\ Execute(m, CodeBlock[5]) = Push(F(5), m.mem[m.esp + 11])
             /\ Execute(m, CodeBlock[6]) = Push(F(6), m.mem[m.esp + 9])
             /\ Execute(m, CodeBlock[7]) = Jump(Push(F(7), F(7).pc), <<"dll", 0>>)
             /\ Execute(m, CodeBlock[8]) = Drop(F(8), 3)
             /\ Execute(m, CodeBlock[9]) = Drop(Move(F(9), "eax", m.mem[m.esp]), 1)
             /\ Execute(m, CodeBlock[10]) = Compare(F(10), LowByteZero(m.reg["eax"]))
             /\ Execute(m, CodeBlock[11]) =
                  IF m.zero = FALSE THEN Jump(F(11), <<F(11).pc[1], F(11).pc[2] + 6>>) ELSE F(11)
             /\ Execute(m, CodeBlock[12]) = Popad(F(12))
             /\ Execute(m, CodeBlock[13]) = Move(F(13), "eax", <<"zeroed", 0>>)
             /\ Execute(m, CodeBlock[14]) = Jump(Drop(F(14), 2), m.mem[m.esp])
             /\ Execute(m, CodeBlock[15]) = Popad(F(15))
             /\ Execute(m, CodeBlock[16]) = Push(F(16), m.reg["ebp"])
             /\ Execute(m, CodeBlock[17]) = Move(F(17), "ebp", <<"stack", m.esp>>)
             /\ Execute(m, CodeBlock[18]) = Push(F(18), <<"number", -1>>)
             /\ Execute(m, CodeBlock[19]) = Jump(F(19), <<"body", 5>>)
<1> DEFINE F(k) == Falls(m, CodeBlock[k])
<1>0. 0 - 4 \div 4 = -1 /\ 44 \div 4 = 11 /\ 36 \div 4 = 9 /\ 12 \div 4 = 3 /\ 1 + 4 \div 4 = 2
  OBVIOUS
<1>1. Execute(m, CodeBlock[1]) = Pushad(F(1))
  BY Executes, BlockOperations, Zenon
<1>2. Execute(m, CodeBlock[2]) = Drop(F(2), 0 - 4 \div 4)
  BY Executes, BlockOperations, Zenon
<1>3. Execute(m, CodeBlock[3]) = Move(F(3), "eax", <<"stack", m.esp>>)
  BY Executes, BlockOperations, Zenon
<1>4. Execute(m, CodeBlock[4]) = Push(F(4), m.reg["eax"])
  BY Executes, BlockOperations, Zenon
<1>5. Execute(m, CodeBlock[5]) = Push(F(5), Operand(m, 44))
  BY Executes, BlockOperations, Zenon
<1>6. Execute(m, CodeBlock[6]) = Push(F(6), Operand(m, 36))
  BY Executes, BlockOperations, Zenon
<1>7. Execute(m, CodeBlock[7]) = Jump(Push(F(7), F(7).pc), <<"dll", 0>>)
  BY Executes, BlockOperations, Zenon
<1>8. Execute(m, CodeBlock[8]) = Drop(F(8), 12 \div 4)
  BY Executes, BlockOperations, Zenon
<1>9. Execute(m, CodeBlock[9]) = Drop(Move(F(9), "eax", m.mem[m.esp]), 1)
  BY Executes, BlockOperations, Zenon
<1>10. Execute(m, CodeBlock[10]) = Compare(F(10), LowByteZero(m.reg["eax"]))
  BY Executes, BlockOperations, Zenon
<1>11. Execute(m, CodeBlock[11]) =
         IF m.zero = Polarity THEN Jump(F(11), <<F(11).pc[1], F(11).pc[2] + 6>>) ELSE F(11)
  <2>1. CodeBlock[11].op = "jcc" /\ CodeBlock[11].arg = 6
    BY BlockOperations, Zenon
  <2>2. QED
    BY Executes, <2>1, ZenonT(30)
<1>12. Execute(m, CodeBlock[12]) = Popad(F(12))
  BY Executes, BlockOperations, Zenon
<1>13. Execute(m, CodeBlock[13]) = Move(F(13), "eax", <<"zeroed", 0>>)
  BY Executes, BlockOperations, Zenon
<1>14. Execute(m, CodeBlock[14]) = Jump(Drop(F(14), 1 + 4 \div 4), m.mem[m.esp])
  BY Executes, BlockOperations, Zenon
<1>15. Execute(m, CodeBlock[15]) = Popad(F(15))
  BY Executes, BlockOperations, Zenon
<1>16. Execute(m, CodeBlock[16]) = Push(F(16), m.reg["ebp"])
  BY Executes, BlockOperations, Zenon
<1>17. Execute(m, CodeBlock[17]) = Move(F(17), "ebp", <<"stack", m.esp>>)
  BY Executes, BlockOperations, Zenon
<1>18. Execute(m, CodeBlock[18]) = Push(F(18), <<"number", -1>>)
  BY Executes, BlockOperations, Zenon
<1>19. Execute(m, CodeBlock[19]) = Jump(F(19), <<"body", 5>>)
  BY Executes, BlockOperations, Zenon
<1> HIDE DEF F
<1>20. Operand(m, 44) = m.mem[m.esp + 11] /\ Operand(m, 36) = m.mem[m.esp + 9]
  BY <1>0, Zenon DEF Operand
<1>21. /\ Execute(m, CodeBlock[2]) = Drop(F(2), -1)
       /\ Execute(m, CodeBlock[5]) = Push(F(5), m.mem[m.esp + 11])
       /\ Execute(m, CodeBlock[6]) = Push(F(6), m.mem[m.esp + 9])
       /\ Execute(m, CodeBlock[8]) = Drop(F(8), 3)
       /\ Execute(m, CodeBlock[14]) = Jump(Drop(F(14), 2), m.mem[m.esp])
  BY <1>0, <1>2, <1>5, <1>6, <1>8, <1>14, <1>20, Zenon
<1>22. Execute(m, CodeBlock[11]) =
         IF m.zero = FALSE THEN Jump(F(11), <<F(11).pc[1], F(11).pc[2] + 6>>) ELSE F(11)
  BY <1>11, Zenon DEF Polarity
<1>23. QED
  BY <1>1, <1>3, <1>4, <1>7, <1>9, <1>10, <1>12, <1>13, <1>15, <1>16, <1>17, <1>18, <1>19,
     <1>21, <1>22, Zenon DEF F

(* The next instruction is the one that begins where the machine stands.   *)
LEMMA BlockStep ==
  ASSUME NEW m, Shaped(m), NEW k \in 1 .. 19, m.pc[2] = BlockAt[k]
  PROVE  LET f == Falls(m, CodeBlock[k])
         IN  /\ StepIn(m, CodeBlock, BlockAt) = Execute(m, CodeBlock[k])
             /\ Shaped(f) /\ f.pc = <<m.pc[1], BlockAt[k + 1]>>
             /\ f.esp = m.esp /\ f.zero = m.zero /\ f.reg = m.reg /\ f.mem = m.mem
<1>1. Len(CodeBlock) = 19
  BY BlockSizes
<1>2. /\ \A i, j \in 1 .. 19 : BlockAt[i] = BlockAt[j] => i = j
      /\ \A i \in 1 .. 19 : BlockAt[i + 1] = BlockAt[i] + CodeBlock[i].size
  <2>1. \A i \in 1 .. 19 : i \in {1, 2, 3, 4, 5, 6, 7, 8, 9, 10, 11, 12, 13, 14, 15, 16, 17, 18, 19}
    OBVIOUS
  <2>2. QED
    BY <2>1, BlockBegins, BlockSizes
<1>3. (CHOOSE i \in 1 .. 19 : BlockAt[i] = m.pc[2]) = k
  BY <1>2
<1>4. StepIn(m, CodeBlock, BlockAt) = Execute(m, CodeBlock[k])
  BY <1>1, <1>3, Zenon DEF StepIn
<1>5. Falls(m, CodeBlock[k]) = Jump(m, <<m.pc[1], BlockAt[k + 1]>>)
  BY <1>2, Zenon DEF Falls
<1>6. PICK pc : pc = <<m.pc[1], BlockAt[k + 1]>>
  OBVIOUS
<1>7. Falls(m, CodeBlock[k]) = Jump(m, pc)
  BY <1>5, <1>6
<1>8. QED
  BY <1>4, <1>6, <1>7, Jumps

(* Whatever is pushed below the saved registers leaves them alone.         *)
LEMMA PushesBelow ==
  ASSUME NEW m, Shaped(m), NEW word, NEW e \in 1 .. 5, m.esp = e,
         RegistersSaved(m), CallersStack(m)
  PROVE  /\ Shaped(Push(m, word)) /\ RegistersSaved(Push(m, word)) /\ CallersStack(Push(m, word))
         /\ Push(m, word).esp = e - 1 /\ Push(m, word).mem[e - 1] = word
         /\ \A i \in e .. 3 : Push(m, word).mem[i] = m.mem[i]
         /\ Push(m, word).pc = m.pc
<1>1. /\ Shaped(Push(m, word))
      /\ Push(m, word).esp = e - 1 /\ Push(m, word).mem[e - 1] = word
      /\ \A i \in e .. Entry + 2 : Push(m, word).mem[i] = m.mem[i]
      /\ Push(m, word).pc = m.pc
  <2>1. m.esp \in Int /\ m.esp - 1 \in Stack /\ \A i \in e .. Entry + 2 : i \in Stack \ {m.esp - 1}
    BY DEF Stack, Entry
  <2>2. QED
    BY <2>1, Pushes
<1>2. RegistersSaved(Push(m, word))
  <2>1. \A k \in 1 .. 8 : Entry - k \in e .. Entry + 2
    BY DEF Entry
  <2>2. QED
    BY <1>1, <2>1 DEF RegistersSaved
<1>3. CallersStack(Push(m, word))
  BY <1>1 DEF CallersStack, Entry
<1>4. QED
  BY <1>1, <1>2, <1>3 DEF Entry

(* Only its stack matters to what the caller has left there.               *)
LEMMA SameStack ==
  ASSUME NEW m, NEW n, n.mem = m.mem
  PROVE  /\ CallersStack(m) => CallersStack(n)
         /\ RegistersSaved(m) => RegistersSaved(n)
BY DEF CallersStack, RegistersSaved

----------------------------------------------------------------------------
(* The stub, from its first instruction to either end.                     *)

(* From the first instruction of the block to the call (main.cpp 283-308). *)
LEMMA RunsToCall ==
  ASSUME NEW m, Shaped(m), m.pc[1] = "stub", CallersStack(m), BeforeCall(m)
  PROVE  LET n == StepIn(m, CodeBlock, BlockAt)
         IN  /\ Shaped(n) /\ CallersStack(n)
             /\ \/ n.pc[1] = "stub" /\ BeforeCall(n)
                \/ n.pc[1] = "dll" /\ InDll(n)
<1>0. PICK n : n = StepIn(m, CodeBlock, BlockAt)
  OBVIOUS
<1> SUFFICES /\ Shaped(n) /\ CallersStack(n)
             /\ \/ n.pc[1] = "stub" /\ BeforeCall(n)
                \/ n.pc[1] = "dll" /\ InDll(n)
    BY <1>0
<1>1. ASSUME NEW k \in 1 .. 7, m.pc[2] = BlockAt[k], NEW f, f = Falls(m, CodeBlock[k])
      PROVE  /\ n = Execute(m, CodeBlock[k])
             /\ Shaped(f) /\ CallersStack(f) /\ f.pc = <<"stub", BlockAt[k + 1]>>
             /\ f.esp = m.esp /\ f.reg = m.reg /\ f.mem = m.mem
             /\ RegistersSaved(m) => RegistersSaved(f)
  <2>1. k \in 1 .. 19
    OBVIOUS
  <2>2. QED
    BY <1>0, <1>1, <2>1, BlockStep, SameStack
<1>2. CASE m.pc[2] = 0
  <2>1. PICK f : f = Falls(m, CodeBlock[1])
    OBVIOUS
  <2>2. n = Pushad(f)
    <3>1. n = Execute(m, CodeBlock[1])
      BY <1>1, <1>2, <2>1, BlockBegins
    <3>2. QED
      BY <2>1, <3>1, BlockEffects, Zenon
  <2>3. f.pc = <<"stub", 1>> /\ f.esp = Entry /\ Shaped(f) /\ OwnRegisters(f) /\ CallersStack(f)
    BY <1>1, <1>2, <2>1, BlockBegins DEF BeforeCall, OwnRegisters, Entry
  <2>4. Shaped(n) /\ CallersStack(n) /\ n.pc = <<"stub", 1>> /\ n.esp = 5 /\ RegistersSaved(n)
    BY <2>2, <2>3, PushesAll
  <2>5. QED
    BY <2>4 DEF BeforeCall
<1>3. CASE m.pc[2] = 1
  <2>1. PICK f : f = Falls(m, CodeBlock[2])
    OBVIOUS
  <2>2. n = Drop(f, -1)
    <3>1. n = Execute(m, CodeBlock[2])
      BY <1>1, <1>3, <2>1, BlockBegins
    <3>2. QED
      BY <2>1, <3>1, BlockEffects, Zenon
  <2>3. f.pc = <<"stub", 4>> /\ f.esp = 5 /\ Shaped(f) /\ RegistersSaved(f) /\ CallersStack(f)
    BY <1>1, <1>3, <2>1, BlockBegins DEF BeforeCall
  <2>4. n.esp = 5 + (-1) /\ n.pc = <<"stub", 4>> /\ n.mem = f.mem /\ Shaped(n)
    BY <2>2, <2>3, Drops
  <2>5. n.esp = 4 /\ RegistersSaved(n) /\ CallersStack(n)
    BY <2>3, <2>4, SameStack
  <2>6. QED
    BY <2>4, <2>5 DEF BeforeCall
<1>4. CASE m.pc[2] = 4
  <2>1. PICK f : f = Falls(m, CodeBlock[3])
    OBVIOUS
  <2>2. n = Move(f, "eax", <<"stack", m.esp>>)
    <3>1. n = Execute(m, CodeBlock[3])
      BY <1>1, <1>4, <2>1, BlockBegins
    <3>2. QED
      BY <2>1, <3>1, BlockEffects, Zenon
  <2>3. /\ f.pc = <<"stub", 7>> /\ f.esp = 4 /\ m.esp = 4 /\ Shaped(f)
        /\ RegistersSaved(f) /\ CallersStack(f)
    BY <1>1, <1>4, <2>1, BlockBegins DEF BeforeCall
  <2>4. n.reg["eax"] = <<"stack", 4>> /\ n.esp = 4 /\ n.pc = <<"stub", 7>> /\ n.mem = f.mem /\ Shaped(n)
    BY <2>2, <2>3, Moves DEF Registers
  <2>5. RegistersSaved(n) /\ CallersStack(n)
    BY <2>3, <2>4, SameStack
  <2>6. QED
    BY <2>4, <2>5 DEF BeforeCall
<1>5. CASE m.pc[2] = 7
  <2>1. PICK f : f = Falls(m, CodeBlock[4])
    OBVIOUS
  <2>2. n = Push(f, m.reg["eax"])
    <3>1. n = Execute(m, CodeBlock[4])
      BY <1>1, <1>5, <2>1, BlockBegins
    <3>2. QED
      BY <2>1, <3>1, BlockEffects, Zenon
  <2>3. /\ f.pc = <<"stub", 8>> /\ f.esp = 4 /\ Shaped(f) /\ RegistersSaved(f) /\ CallersStack(f)
        /\ m.reg["eax"] = <<"stack", 4>>
    BY <1>1, <1>5, <2>1, BlockBegins DEF BeforeCall
  <2>4. /\ Shaped(n) /\ RegistersSaved(n) /\ CallersStack(n) /\ n.pc = <<"stub", 8>>
        /\ n.esp = 3 /\ n.mem[3] = <<"stack", 4>>
    BY <2>2, <2>3, PushesBelow
  <2>5. QED
    BY <2>4 DEF BeforeCall
<1>6. CASE m.pc[2] = 8
  <2>1. PICK f : f = Falls(m, CodeBlock[5])
    OBVIOUS
  <2>2. n = Push(f, m.mem[m.esp + 11])
    <3>1. n = Execute(m, CodeBlock[5])
      BY <1>1, <1>6, <2>1, BlockBegins
    <3>2. QED
      BY <2>1, <3>1, BlockEffects, Zenon
  <2>3. m.mem[m.esp + 11] = <<"param_2", 0>>
    BY <1>6 DEF BeforeCall, CallersStack, Entry
  <2>4. /\ f.pc = <<"stub", 12>> /\ f.esp = 3 /\ Shaped(f) /\ RegistersSaved(f) /\ CallersStack(f)
        /\ f.mem[3] = <<"stack", 4>>
    BY <1>1, <1>6, <2>1, BlockBegins DEF BeforeCall
  <2>5. /\ Shaped(n) /\ RegistersSaved(n) /\ CallersStack(n) /\ n.pc = <<"stub", 12>>
        /\ n.esp = 2 /\ n.mem[2] = <<"param_2", 0>> /\ n.mem[3] = <<"stack", 4>>
    BY <2>2, <2>3, <2>4, PushesBelow
  <2>6. QED
    BY <2>5 DEF BeforeCall
<1>7. CASE m.pc[2] = 12
  <2>1. PICK f : f = Falls(m, CodeBlock[6])
    OBVIOUS
  <2>2. n = Push(f, m.mem[m.esp + 9])
    <3>1. n = Execute(m, CodeBlock[6])
      BY <1>1, <1>7, <2>1, BlockBegins
    <3>2. QED
      BY <2>1, <3>1, BlockEffects, Zenon
  <2>3. m.mem[m.esp + 9] = <<"ecx", 0>>
    <3>1. m.esp + 9 = Entry - 2 /\ PushedOrder[2] = "ecx" /\ RegistersSaved(m)
      BY <1>7 DEF BeforeCall, PushedOrder, Entry
    <3>2. QED
      BY <3>1 DEF RegistersSaved
  <2>4. /\ f.pc = <<"stub", 16>> /\ f.esp = 2 /\ Shaped(f) /\ RegistersSaved(f) /\ CallersStack(f)
        /\ f.mem[2] = <<"param_2", 0>> /\ f.mem[3] = <<"stack", 4>>
    BY <1>1, <1>7, <2>1, BlockBegins DEF BeforeCall
  <2>5. /\ Shaped(n) /\ RegistersSaved(n) /\ CallersStack(n) /\ n.pc = <<"stub", 16>>
        /\ n.esp = 1 /\ n.mem[1] = <<"ecx", 0>>
        /\ n.mem[2] = <<"param_2", 0>> /\ n.mem[3] = <<"stack", 4>>
    BY <2>2, <2>3, <2>4, PushesBelow
  <2>6. QED
    BY <2>5 DEF BeforeCall
<1>8. CASE m.pc[2] = 16
  <2>1. PICK f : f = Falls(m, CodeBlock[7])
    OBVIOUS
  <2>2. n = Jump(Push(f, f.pc), <<"dll", 0>>)
    <3>1. n = Execute(m, CodeBlock[7])
      BY <1>1, <1>8, <2>1, BlockBegins
    <3>2. QED
      BY <2>1, <3>1, BlockEffects, Zenon
  <2>3. /\ f.pc = <<"stub", 21>> /\ f.esp = 1 /\ Shaped(f) /\ RegistersSaved(f) /\ CallersStack(f)
        /\ f.mem[1] = <<"ecx", 0>> /\ f.mem[2] = <<"param_2", 0>> /\ f.mem[3] = <<"stack", 4>>
    BY <1>1, <1>8, <2>1, BlockBegins DEF BeforeCall
  <2>4. PICK p : p = Push(f, <<"stub", 21>>)
    OBVIOUS
  <2>5. /\ Shaped(p) /\ RegistersSaved(p) /\ CallersStack(p)
        /\ p.esp = 0 /\ p.mem[0] = <<"stub", 21>> /\ p.mem[1] = <<"ecx", 0>>
        /\ p.mem[2] = <<"param_2", 0>> /\ p.mem[3] = <<"stack", 4>>
    BY <2>3, <2>4, PushesBelow
  <2>6. n.pc = <<"dll", 0>> /\ n.esp = 0 /\ n.mem = p.mem /\ Shaped(n)
    BY <2>2, <2>3, <2>4, <2>5, Jumps
  <2>7. RegistersSaved(n) /\ CallersStack(n)
    BY <2>5, <2>6, SameStack
  <2>8. QED
    BY <2>5, <2>6, <2>7 DEF InDll
<1>9. QED
  BY <1>2, <1>3, <1>4, <1>5, <1>6, <1>7, <1>8 DEF BeforeCall

(* What CheckShouldBlock has written is what `cmp al, 0` tells apart.      *)
LEMMA AnswerTold ==
  ASSUME NEW answer \in {"block", "pass"}
  PROVE  LowByteZero(AnswerWord(answer)) = (answer = "block")
BY DEF LowByteZero, AnswerWord

(* From the call's return to one of the two branches (main.cpp 309-319).   *)
LEMMA RunsAfterCall ==
  ASSUME NEW m, Shaped(m), m.pc[1] = "stub", CallersStack(m),
         NEW answer \in {"block", "pass"}, AfterCall(m, answer)
  PROVE  LET n == StepIn(m, CodeBlock, BlockAt)
         IN  /\ Shaped(n) /\ CallersStack(n) /\ n.pc[1] = "stub"
             /\ \/ AfterCall(n, answer)
                \/ answer = "block" /\ Withholding(n)
                \/ answer = "pass" /\ Continuing(n)
<1>0. PICK n : n = StepIn(m, CodeBlock, BlockAt)
  OBVIOUS
<1> SUFFICES /\ Shaped(n) /\ CallersStack(n) /\ n.pc[1] = "stub"
             /\ \/ AfterCall(n, answer)
                \/ answer = "block" /\ Withholding(n)
                \/ answer = "pass" /\ Continuing(n)
    BY <1>0
<1>1. ASSUME NEW k \in 8 .. 11, m.pc[2] = BlockAt[k], NEW f, f = Falls(m, CodeBlock[k])
      PROVE  /\ n = Execute(m, CodeBlock[k])
             /\ Shaped(f) /\ CallersStack(f) /\ f.pc = <<"stub", BlockAt[k + 1]>>
             /\ f.esp = m.esp /\ f.reg = m.reg /\ f.mem = m.mem
             /\ RegistersSaved(f)
  <2>1. k \in 1 .. 19 /\ RegistersSaved(m)
    BY DEF AfterCall
  <2>2. QED
    BY <1>0, <1>1, <2>1, BlockStep, SameStack
<1>2. CASE m.pc[2] = 21
  <2>1. PICK f : f = Falls(m, CodeBlock[8])
    OBVIOUS
  <2>2. n = Drop(f, 3)
    <3>1. n = Execute(m, CodeBlock[8])
      BY <1>1, <1>2, <2>1, BlockBegins
    <3>2. QED
      BY <2>1, <3>1, BlockEffects, Zenon
  <2>3. /\ f.pc = <<"stub", 24>> /\ f.esp = 1 /\ Shaped(f) /\ RegistersSaved(f) /\ CallersStack(f)
        /\ f.mem[4] = AnswerWord(answer)
    BY <1>1, <1>2, <2>1, BlockBegins DEF AfterCall
  <2>4. n.esp = 4 /\ n.pc = <<"stub", 24>> /\ n.mem = f.mem /\ Shaped(n)
    BY <2>2, <2>3, Drops
  <2>5. RegistersSaved(n) /\ CallersStack(n)
    BY <2>3, <2>4, SameStack
  <2>6. QED
    BY <2>3, <2>4, <2>5 DEF AfterCall
<1>3. CASE m.pc[2] = 24
  <2>1. PICK f : f = Falls(m, CodeBlock[9])
    OBVIOUS
  <2>2. n = Drop(Move(f, "eax", m.mem[m.esp]), 1)
    <3>1. n = Execute(m, CodeBlock[9])
      BY <1>1, <1>3, <2>1, BlockBegins
    <3>2. QED
      BY <2>1, <3>1, BlockEffects, Zenon
  <2>3. /\ f.pc = <<"stub", 25>> /\ f.esp = 4 /\ Shaped(f) /\ RegistersSaved(f) /\ CallersStack(f)
        /\ m.mem[m.esp] = AnswerWord(answer)
    BY <1>1, <1>3, <2>1, BlockBegins DEF AfterCall
  <2>4. PICK p : p = Move(f, "eax", AnswerWord(answer))
    OBVIOUS
  <2>5. /\ p.reg["eax"] = AnswerWord(answer) /\ p.esp = 4 /\ p.pc = <<"stub", 25>>
        /\ p.mem = f.mem /\ Shaped(p)
    BY <2>3, <2>4, Moves DEF Registers
  <2>6. n.reg = p.reg /\ n.esp = 5 /\ n.pc = <<"stub", 25>> /\ n.mem = f.mem /\ Shaped(n)
    BY <2>2, <2>3, <2>4, <2>5, Drops
  <2>7. RegistersSaved(n) /\ CallersStack(n)
    BY <2>3, <2>6, SameStack
  <2>8. QED
    BY <2>5, <2>6, <2>7 DEF AfterCall
<1>4. CASE m.pc[2] = 25
  <2>1. PICK f : f = Falls(m, CodeBlock[10])
    OBVIOUS
  <2>2. n = Compare(f, LowByteZero(m.reg["eax"]))
    <3>1. n = Execute(m, CodeBlock[10])
      BY <1>1, <1>4, <2>1, BlockBegins
    <3>2. QED
      BY <2>1, <3>1, BlockEffects, Zenon
  <2>3. /\ f.pc = <<"stub", 27>> /\ f.esp = 5 /\ Shaped(f) /\ RegistersSaved(f) /\ CallersStack(f)
        /\ m.reg["eax"] = AnswerWord(answer)
    BY <1>1, <1>4, <2>1, BlockBegins DEF AfterCall
  <2>4. PICK zero : zero = (answer = "block")
    OBVIOUS
  <2>5. n = Compare(f, zero)
    BY <2>2, <2>3, <2>4, AnswerTold, Zenon
  <2>6. n.zero = zero /\ n.esp = 5 /\ n.pc = <<"stub", 27>> /\ n.mem = f.mem /\ Shaped(n)
    BY <2>3, <2>5, Compares
  <2>7. RegistersSaved(n) /\ CallersStack(n)
    BY <2>3, <2>6, SameStack
  <2>8. n.zero = (answer = "block")
    BY <2>4, <2>6, Zenon
  <2>9. n.pc[2] = 27 /\ n.pc[1] = "stub"
    BY <2>6
  <2>10. AfterCall(n, answer)
    BY <2>6, <2>7, <2>8, <2>9 DEF AfterCall
  <2>11. QED
    BY <2>6, <2>7, <2>9, <2>10
<1>5. CASE m.pc[2] = 27
  <2>1. PICK f : f = Falls(m, CodeBlock[11])
    OBVIOUS
  <2>2. n = IF m.zero = FALSE THEN Jump(f, <<f.pc[1], f.pc[2] + 6>>) ELSE f
    <3>1. n = Execute(m, CodeBlock[11])
      BY <1>1, <1>5, <2>1, BlockBegins
    <3>2. QED
      BY <2>1, <3>1, BlockEffects, Zenon
  <2>3. /\ f.pc = <<"stub", 29>> /\ f.esp = 5 /\ Shaped(f) /\ RegistersSaved(f) /\ CallersStack(f)
    BY <1>1, <1>5, <2>1, BlockBegins DEF AfterCall
  <2>4. m.zero = (answer = "block")
    BY <1>5 DEF AfterCall
  <2>5. CASE answer = "block"
    <3>1. n = f
      BY <2>2, <2>4, <2>5
    <3>2. QED
      BY <2>3, <2>5, <3>1 DEF Withholding
  <2>6. CASE answer = "pass"
    <3>1. n = Jump(f, <<"stub", 35>>)
      <4>1. f.pc[1] = "stub" /\ f.pc[2] + 6 = 35
        BY <2>3
      <4>2. answer # "block"
        BY <2>6
      <4>3. m.zero = FALSE
        BY <2>4, <4>2, Zenon
      <4>4. QED
        BY <2>2, <4>1, <4>3, Zenon
    <3>2. n.pc = <<"stub", 35>> /\ n.esp = 5 /\ n.mem = f.mem /\ Shaped(n)
      BY <2>3, <3>1, Jumps
    <3>3. RegistersSaved(n) /\ CallersStack(n)
      BY <2>3, <3>2, SameStack
    <3>4. QED
      BY <2>6, <3>2, <3>3 DEF Continuing
  <2>7. QED
    BY <2>5, <2>6
<1>6. QED
  BY <1>2, <1>3, <1>4, <1>5 DEF AfterCall

(* The branch that withholds: the caller gets its registers back, eax says *)
(* zero, and param_2 is popped (main.cpp 320-327).                         *)
LEMMA RunsWithholding ==
  ASSUME NEW m, Shaped(m), m.pc[1] = "stub", CallersStack(m), Withholding(m)
  PROVE  LET n == StepIn(m, CodeBlock, BlockAt)
         IN  /\ Shaped(n)
             /\ \/ n.pc[1] = "stub" /\ CallersStack(n) /\ Withholding(n)
                \/ ReturnedZero(n)
<1>0. PICK n : n = StepIn(m, CodeBlock, BlockAt)
  OBVIOUS
<1> SUFFICES /\ Shaped(n)
             /\ \/ n.pc[1] = "stub" /\ CallersStack(n) /\ Withholding(n)
                \/ ReturnedZero(n)
    BY <1>0
<1>1. ASSUME NEW k \in 12 .. 14, m.pc[2] = BlockAt[k], NEW f, f = Falls(m, CodeBlock[k])
      PROVE  /\ n = Execute(m, CodeBlock[k])
             /\ Shaped(f) /\ CallersStack(f) /\ f.pc = <<"stub", BlockAt[k + 1]>>
             /\ f.esp = m.esp /\ f.reg = m.reg /\ f.mem = m.mem
             /\ RegistersSaved(m) => RegistersSaved(f)
  <2>1. k \in 1 .. 19
    OBVIOUS
  <2>2. QED
    BY <1>0, <1>1, <2>1, BlockStep, SameStack
<1>2. CASE m.pc[2] = 29
  <2>1. PICK f : f = Falls(m, CodeBlock[12])
    OBVIOUS
  <2>2. n = Popad(f)
    <3>1. n = Execute(m, CodeBlock[12])
      BY <1>1, <1>2, <2>1, BlockBegins
    <3>2. QED
      BY <2>1, <3>1, BlockEffects, Zenon
  <2>3. f.pc = <<"stub", 30>> /\ f.esp = 5 /\ Shaped(f) /\ RegistersSaved(f) /\ CallersStack(f)
    BY <1>1, <1>2, <2>1, BlockBegins DEF Withholding
  <2>4. n.pc = <<"stub", 30>> /\ n.esp = 13 /\ Shaped(n) /\ OwnRegisters(n) /\ n.mem = f.mem
    BY <2>2, <2>3, PopsAll DEF Entry
  <2>5. CallersStack(n)
    BY <2>3, <2>4, SameStack
  <2>6. QED
    BY <2>4, <2>5 DEF Withholding, OwnRegisters
<1>3. CASE m.pc[2] = 30
  <2>1. PICK f : f = Falls(m, CodeBlock[13])
    OBVIOUS
  <2>2. n = Move(f, "eax", <<"zeroed", 0>>)
    <3>1. n = Execute(m, CodeBlock[13])
      BY <1>1, <1>3, <2>1, BlockBegins
    <3>2. QED
      BY <2>1, <3>1, BlockEffects, Zenon
  <2>3. /\ f.pc = <<"stub", 32>> /\ f.esp = 13 /\ Shaped(f) /\ CallersStack(f)
        /\ \A r \in Registers \ {"eax"} : f.reg[r] = <<r, 0>>
    BY <1>1, <1>3, <2>1, BlockBegins DEF Withholding
  <2>4. /\ n.pc = <<"stub", 32>> /\ n.esp = 13 /\ Shaped(n) /\ n.mem = f.mem
        /\ n.reg["eax"] = <<"zeroed", 0>>
        /\ \A r \in Registers \ {"eax"} : n.reg[r] = <<r, 0>>
    BY <2>2, <2>3, Moves DEF Registers
  <2>5. LowByteZero(n.reg["eax"])
    BY <2>4 DEF LowByteZero
  <2>6. CallersStack(n)
    BY <2>3, <2>4, SameStack
  <2>7. QED
    BY <2>4, <2>5, <2>6 DEF Withholding
<1>4. CASE m.pc[2] = 32
  <2>1. PICK f : f = Falls(m, CodeBlock[14])
    OBVIOUS
  <2>2. n = Jump(Drop(f, 2), m.mem[m.esp])
    <3>1. n = Execute(m, CodeBlock[14])
      BY <1>1, <1>4, <2>1, BlockBegins
    <3>2. QED
      BY <2>1, <3>1, BlockEffects, Zenon
  <2>3. /\ f.esp = 13 /\ Shaped(f) /\ m.mem[m.esp] = <<"return", 0>> /\ f.reg = m.reg
        /\ f.mem = m.mem
    BY <1>1, <1>4, <2>1, BlockBegins DEF Withholding, CallersStack, Entry
  <2>4. n.pc = <<"return", 0>> /\ n.esp = 15 /\ n.mem = m.mem /\ n.reg = m.reg /\ Shaped(n)
    <3>1. PICK p : p = Drop(f, 2)
      OBVIOUS
    <3>2. Shaped(p) /\ p.esp = 15 /\ p.mem = m.mem /\ p.reg = m.reg
      BY <2>3, <3>1, Drops
    <3>3. QED
      BY <2>2, <2>3, <3>1, <3>2, Jumps
  <2>5. /\ LowByteZero(m.reg["eax"]) /\ \A r \in Registers \ {"eax"} : m.reg[r] = <<r, 0>>
        /\ m.mem[15] = <<"caller", 15>>
    BY <1>4 DEF Withholding, CallersStack, Entry
  <2>6. \A r \in CalleeSaved : r \in Registers \ {"eax"}
    BY DEF CalleeSaved, Registers
  <2>7. QED
    BY <2>4, <2>5, <2>6 DEF ReturnedZero, Entry
<1>5. QED
  BY <1>2, <1>3, <1>4 DEF Withholding

(* The machine with which ShouldSynchronise is called.                     *)
LEMMA Called ==
  ASSUME NEW pc
  PROVE  /\ Shaped(AtCall(pc)) /\ AtCall(pc).pc = pc /\ AtCall(pc).esp = Entry
         /\ OwnRegisters(AtCall(pc)) /\ CallersStack(AtCall(pc))
<1> DEFINE mem == [i \in Stack |->
                     CASE i = Entry -> <<"return", 0>>
                       [] i = Entry + 1 -> <<"param_2", 0>>
                       [] i > Entry + 1 -> <<"caller", i>>
                       [] OTHER -> <<"free", 0>>]
           reg == [r \in Registers |-> <<r, 0>>]
<1>1. AtCall(pc) = [pc |-> pc, esp |-> Entry, zero |-> FALSE, reg |-> reg, mem |-> mem]
  BY Zenon DEF AtCall
<1>2. /\ mem = [i \in Stack |-> mem[i]] /\ reg = [r \in Registers |-> reg[r]]
      /\ \A r \in Registers : reg[r] = <<r, 0>>
  OBVIOUS
<1>3. mem[Entry] = <<"return", 0>> /\ mem[Entry + 1] = <<"param_2", 0>>
  BY DEF Entry, Stack
<1>4. mem[Entry + 2] = <<"caller", Entry + 2>>
  BY DEF Entry, Stack
<1> HIDE DEF mem, reg
<1>5. PICK m : m = AtCall(pc)
  OBVIOUS
<1>6. m.pc = pc /\ m.esp = Entry /\ m.reg = reg /\ m.mem = mem
  BY <1>1, <1>5
<1>7. Shaped(m)
  BY <1>1, <1>2, <1>5 DEF Shaped
<1>8. OwnRegisters(m) /\ CallersStack(m)
  BY <1>2, <1>3, <1>4, <1>6 DEF OwnRegisters, CallersStack
<1>9. QED
  BY <1>5, <1>6, <1>7, <1>8

(* The prologue's two pushes, and the frame it makes.                      *)
LEMMA PushesEbp ==
  ASSUME NEW m, Shaped(m), m.esp = 13, CallersStack(m)
  PROVE  LET n == Push(m, <<"ebp", 0>>)
         IN  /\ Shaped(n) /\ CallersStack(n) /\ n.esp = 12 /\ n.mem[12] = <<"ebp", 0>>
             /\ n.pc = m.pc /\ n.reg = m.reg
<1>1. m.esp \in Int /\ m.esp - 1 \in Stack /\ {13, 14, 15} \subseteq Stack \ {m.esp - 1}
  BY DEF Stack, Entry
<1>2. PICK word : word = <<"ebp", 0>>
  OBVIOUS
<1>3. PICK n : n = Push(m, word)
  OBVIOUS
<1>4. /\ Shaped(n) /\ n.esp = 12 /\ n.mem[12] = word /\ n.pc = m.pc /\ n.reg = m.reg
      /\ n.mem[13] = m.mem[13] /\ n.mem[14] = m.mem[14] /\ n.mem[15] = m.mem[15]
  BY <1>1, <1>3, Pushes
<1>5. CallersStack(n)
  BY <1>4 DEF CallersStack, Entry
<1>6. QED
  BY <1>2, <1>3, <1>4, <1>5

(* The second push, below the first.                                       *)
LEMMA PushesMinusOne ==
  ASSUME NEW m, Shaped(m), m.esp = 12, CallersStack(m), m.mem[12] = <<"ebp", 0>>
  PROVE  LET n == Push(m, <<"number", -1>>)
         IN  /\ Shaped(n) /\ CallersStack(n) /\ n.esp = 11 /\ n.mem[11] = <<"number", -1>>
             /\ n.mem[12] = <<"ebp", 0>> /\ n.pc = m.pc /\ n.reg = m.reg
<1>1. m.esp \in Int /\ m.esp - 1 \in Stack /\ {12, 13, 14, 15} \subseteq Stack \ {m.esp - 1}
  BY DEF Stack, Entry
<1>2. PICK word : word = <<"number", -1>>
  OBVIOUS
<1>3. PICK n : n = Push(m, word)
  OBVIOUS
<1>4. /\ Shaped(n) /\ n.esp = 11 /\ n.mem[11] = word /\ n.pc = m.pc /\ n.reg = m.reg
      /\ n.mem[12] = m.mem[12]
      /\ n.mem[13] = m.mem[13] /\ n.mem[14] = m.mem[14] /\ n.mem[15] = m.mem[15]
  BY <1>1, <1>3, Pushes
<1>5. CallersStack(n)
  BY <1>4 DEF CallersStack, Entry
<1>6. QED
  BY <1>2, <1>3, <1>4, <1>5

(* The frame pointer between them.                                         *)
LEMMA MakesFrame ==
  ASSUME NEW m, Shaped(m), \A r \in Registers \ {"ebp"} : m.reg[r] = <<r, 0>>
  PROVE  LET n == Move(m, "ebp", <<"stack", 12>>)
         IN  /\ Shaped(n) /\ n.esp = m.esp /\ n.mem = m.mem /\ n.pc = m.pc
             /\ n.reg["ebp"] = <<"stack", 12>>
             /\ \A r \in Registers \ {"ebp"} : n.reg[r] = <<r, 0>>
BY Moves DEF Registers

(* A machine that has the prologue behind it: which way it came makes no   *)
(* difference to the rest of the function.                                 *)
PrologueDone(m) ==
  /\ m.pc = <<"body", 5>> /\ m.esp = 11
  /\ m.reg["ebp"] = <<"stack", 12>> /\ \A r \in Registers \ {"ebp"} : m.reg[r] = <<r, 0>>
  /\ m.mem[11] = <<"number", -1>> /\ m.mem[12] = <<"ebp", 0>> /\ CallersStack(m)

(* The function's own prologue makes such a machine of a call ...          *)
LEMMA OwnPrologue ==
  LET own == AfterPrologue(AtCall(<<"site", 0>>)) IN Shaped(own) /\ PrologueDone(own)
<1>1. PICK m : m = AtCall(<<"site", 0>>)
  OBVIOUS
<1>2. Shaped(m) /\ m.esp = 13 /\ OwnRegisters(m) /\ CallersStack(m)
  BY <1>1, Called DEF Entry
<1>3. m.reg["ebp"] = <<"ebp", 0>> /\ \A r \in Registers : m.reg[r] = <<r, 0>>
  BY <1>2 DEF OwnRegisters, Registers
<1>4. PICK pushed : pushed = Push(m, <<"ebp", 0>>)
  OBVIOUS
<1>5. /\ Shaped(pushed) /\ CallersStack(pushed) /\ pushed.esp = 12
      /\ pushed.mem[12] = <<"ebp", 0>> /\ pushed.reg = m.reg
  BY <1>2, <1>4, PushesEbp
<1>6. PICK framed : framed = Move(pushed, "ebp", <<"stack", 12>>)
  OBVIOUS
<1>7. /\ Shaped(framed) /\ framed.esp = 12 /\ framed.mem = pushed.mem
      /\ framed.reg["ebp"] = <<"stack", 12>>
      /\ \A r \in Registers \ {"ebp"} : framed.reg[r] = <<r, 0>>
  BY <1>3, <1>5, <1>6, MakesFrame
<1>8. PICK last : last = Push(framed, <<"number", -1>>)
  OBVIOUS
<1>9. /\ Shaped(last) /\ CallersStack(last) /\ last.esp = 11 /\ last.mem[11] = <<"number", -1>>
      /\ last.mem[12] = <<"ebp", 0>> /\ last.reg = framed.reg
  BY <1>5, <1>7, <1>8, SameStack, PushesMinusOne
<1>10. PICK own : own = Jump(last, <<"body", 5>>)
  OBVIOUS
<1>11. own = AfterPrologue(AtCall(<<"site", 0>>))
  BY <1>1, <1>3, <1>4, <1>5, <1>6, <1>8, <1>10, Zenon DEF AfterPrologue
<1>12. /\ Shaped(own) /\ own.pc = <<"body", 5>> /\ own.esp = 11 /\ own.reg = last.reg
       /\ own.mem = last.mem
  BY <1>9, <1>10, Jumps
<1>13. PrologueDone(own)
  BY <1>7, <1>9, <1>12, SameStack DEF PrologueDone
<1>14. QED
  BY <1>11, <1>12, <1>13

(* ... and nothing the original can see tells another one from it.         *)
LEMMA DoneIsOriginal ==
  ASSUME NEW m, Shaped(m), PrologueDone(m) PROVE LikeOriginal(m)
<1>1. PICK own : own = AfterPrologue(AtCall(<<"site", 0>>))
  OBVIOUS
<1>2. Shaped(own) /\ PrologueDone(own)
  BY <1>1, OwnPrologue
<1>3. m.pc = own.pc /\ m.esp = own.esp
  BY <1>2 DEF PrologueDone
<1>4. m.reg = own.reg
  <2>1. \A r \in Registers : m.reg[r] = own.reg[r]
    BY <1>2 DEF PrologueDone
  <2>2. m.reg = [r \in Registers |-> m.reg[r]] /\ own.reg = [r \in Registers |-> own.reg[r]]
    BY <1>2 DEF Shaped
  <2>3. QED
    BY <2>1, <2>2
<1>5. \A i \in own.esp .. Entry + 2 : m.mem[i] = own.mem[i]
  <2>1. \A i \in own.esp .. Entry + 2 : i \in {11, 12, 13, 14, 15}
    BY <1>2 DEF PrologueDone, Entry
  <2>2. QED
    BY <1>2, <2>1 DEF PrologueDone, CallersStack, Entry
<1>6. QED
  BY <1>1, <1>3, <1>4, <1>5, Zenon DEF LikeOriginal

(* The branch that goes on: the prologue that the JMP replaced, and the    *)
(* way back behind it (main.cpp 329-339).                                  *)
LEMMA RunsContinuing ==
  ASSUME NEW m, Shaped(m), m.pc[1] = "stub", CallersStack(m), Continuing(m)
  PROVE  LET n == StepIn(m, CodeBlock, BlockAt)
         IN  /\ Shaped(n)
             /\ \/ n.pc[1] = "stub" /\ CallersStack(n) /\ Continuing(n)
                \/ PrologueDone(n)
<1>0. PICK n : n = StepIn(m, CodeBlock, BlockAt)
  OBVIOUS
<1> SUFFICES /\ Shaped(n)
             /\ \/ n.pc[1] = "stub" /\ CallersStack(n) /\ Continuing(n)
                \/ PrologueDone(n)
    BY <1>0
<1>1. ASSUME NEW k \in 15 .. 19, m.pc[2] = BlockAt[k], NEW f, f = Falls(m, CodeBlock[k])
      PROVE  /\ n = Execute(m, CodeBlock[k])
             /\ Shaped(f) /\ CallersStack(f) /\ f.pc = <<"stub", BlockAt[k + 1]>>
             /\ f.esp = m.esp /\ f.reg = m.reg /\ f.mem = m.mem
             /\ RegistersSaved(m) => RegistersSaved(f)
  <2>1. k \in 1 .. 19
    OBVIOUS
  <2>2. QED
    BY <1>0, <1>1, <2>1, BlockStep, SameStack
<1>2. CASE m.pc[2] = 35
  <2>1. PICK f : f = Falls(m, CodeBlock[15])
    OBVIOUS
  <2>2. n = Popad(f)
    <3>1. n = Execute(m, CodeBlock[15])
      BY <1>1, <1>2, <2>1, BlockBegins
    <3>2. QED
      BY <2>1, <3>1, BlockEffects, Zenon
  <2>3. f.pc = <<"stub", 36>> /\ f.esp = 5 /\ Shaped(f) /\ RegistersSaved(f) /\ CallersStack(f)
    BY <1>1, <1>2, <2>1, BlockBegins DEF Continuing
  <2>4. n.pc = <<"stub", 36>> /\ n.esp = 13 /\ Shaped(n) /\ OwnRegisters(n) /\ n.mem = f.mem
    BY <2>2, <2>3, PopsAll DEF Entry
  <2>5. CallersStack(n)
    BY <2>3, <2>4, SameStack
  <2>6. n.reg["ebp"] = <<"ebp", 0>> /\ \A r \in Registers \ {"ebp"} : n.reg[r] = <<r, 0>>
    BY <2>4 DEF OwnRegisters, Registers
  <2>7. QED
    BY <2>4, <2>5, <2>6 DEF Continuing
<1>3. CASE m.pc[2] = 36
  <2>1. PICK f : f = Falls(m, CodeBlock[16])
    OBVIOUS
  <2>2. n = Push(f, m.reg["ebp"])
    <3>1. n = Execute(m, CodeBlock[16])
      BY <1>1, <1>3, <2>1, BlockBegins
    <3>2. QED
      BY <2>1, <3>1, BlockEffects, Zenon
  <2>3. /\ f.pc = <<"stub", 37>> /\ f.esp = 13 /\ Shaped(f) /\ CallersStack(f) /\ f.reg = m.reg
        /\ m.reg["ebp"] = <<"ebp", 0>> /\ \A r \in Registers \ {"ebp"} : m.reg[r] = <<r, 0>>
    BY <1>1, <1>3, <2>1, BlockBegins DEF Continuing
  <2>4. /\ Shaped(n) /\ CallersStack(n) /\ n.esp = 12 /\ n.mem[12] = <<"ebp", 0>>
        /\ n.pc = f.pc /\ n.reg = f.reg
    BY <2>2, <2>3, PushesEbp
  <2>5. QED
    BY <2>3, <2>4 DEF Continuing
<1>4. CASE m.pc[2] = 37
  <2>1. PICK f : f = Falls(m, CodeBlock[17])
    OBVIOUS
  <2>2. n = Move(f, "ebp", <<"stack", m.esp>>)
    <3>1. n = Execute(m, CodeBlock[17])
      BY <1>1, <1>4, <2>1, BlockBegins
    <3>2. QED
      BY <2>1, <3>1, BlockEffects, Zenon
  <2>3. /\ f.pc = <<"stub", 39>> /\ f.esp = 12 /\ m.esp = 12 /\ Shaped(f) /\ CallersStack(f)
        /\ f.mem[12] = <<"ebp", 0>> /\ \A r \in Registers \ {"ebp"} : f.reg[r] = <<r, 0>>
    BY <1>1, <1>4, <2>1, BlockBegins DEF Continuing
  <2>4. /\ Shaped(n) /\ n.esp = 12 /\ n.mem = f.mem /\ n.pc = f.pc
        /\ n.reg["ebp"] = <<"stack", 12>>
        /\ \A r \in Registers \ {"ebp"} : n.reg[r] = <<r, 0>>
    BY <2>2, <2>3, MakesFrame
  <2>5. CallersStack(n)
    BY <2>3, <2>4, SameStack
  <2>6. QED
    BY <2>3, <2>4, <2>5 DEF Continuing
<1>5. CASE m.pc[2] = 39
  <2>1. PICK f : f = Falls(m, CodeBlock[18])
    OBVIOUS
  <2>2. n = Push(f, <<"number", -1>>)
    <3>1. n = Execute(m, CodeBlock[18])
      BY <1>1, <1>5, <2>1, BlockBegins
    <3>2. QED
      BY <2>1, <3>1, BlockEffects, Zenon
  <2>3. /\ f.pc = <<"stub", 41>> /\ f.esp = 12 /\ Shaped(f) /\ CallersStack(f)
        /\ f.mem[12] = <<"ebp", 0>>
        /\ f.reg["ebp"] = <<"stack", 12>> /\ \A r \in Registers \ {"ebp"} : f.reg[r] = <<r, 0>>
    BY <1>1, <1>5, <2>1, BlockBegins DEF Continuing
  <2>4. /\ Shaped(n) /\ CallersStack(n) /\ n.esp = 11 /\ n.mem[11] = <<"number", -1>>
        /\ n.mem[12] = <<"ebp", 0>> /\ n.pc = f.pc /\ n.reg = f.reg
    BY <2>2, <2>3, PushesMinusOne
  <2>5. QED
    BY <2>3, <2>4 DEF Continuing
<1>6. CASE m.pc[2] = 41
  <2>1. PICK f : f = Falls(m, CodeBlock[19])
    OBVIOUS
  <2>2. n = Jump(f, <<"body", 5>>)
    <3>1. n = Execute(m, CodeBlock[19])
      BY <1>1, <1>6, <2>1, BlockBegins
    <3>2. QED
      BY <2>1, <3>1, BlockEffects, Zenon
  <2>3. /\ f.esp = 11 /\ Shaped(f) /\ CallersStack(f)
        /\ f.mem[11] = <<"number", -1>> /\ f.mem[12] = <<"ebp", 0>>
        /\ f.reg["ebp"] = <<"stack", 12>> /\ \A r \in Registers \ {"ebp"} : f.reg[r] = <<r, 0>>
    BY <1>1, <1>6, <2>1, BlockBegins DEF Continuing
  <2>4. /\ Shaped(n) /\ n.pc = <<"body", 5>> /\ n.esp = 11 /\ n.mem = f.mem /\ n.reg = f.reg
    BY <2>2, <2>3, Jumps
  <2>5. PrologueDone(n)
    BY <2>3, <2>4, SameStack DEF PrologueDone
  <2>6. QED
    BY <2>4, <2>5
<1>7. QED
  BY <1>2, <1>3, <1>4, <1>5, <1>6 DEF Continuing

(* The function's own prologue, instruction by instruction.                *)
LEMMA PrologueStep ==
  ASSUME NEW m, Shaped(m), NEW k \in 1 .. 3, m.pc[2] = PrologueOffsets[k]
  PROVE  LET f == Falls(m, Prologue[k])
         IN  /\ StepIn(m, Prologue, PrologueAt) = Execute(m, Prologue[k])
             /\ Shaped(f) /\ f.pc = <<m.pc[1], PrologueOffsets[k + 1]>>
             /\ f.esp = m.esp /\ f.zero = m.zero /\ f.reg = m.reg /\ f.mem = m.mem
<1>1. /\ Len(Prologue) = 3
      /\ Prologue[1].size = 1 /\ Prologue[2].size = 2 /\ Prologue[3].size = 2
  BY DEF Prologue, Instruction
<1>2. /\ \A i \in 1 .. 3 : PrologueAt[i] = PrologueOffsets[i]
      /\ \A i, j \in 1 .. 3 : PrologueOffsets[i] = PrologueOffsets[j] => i = j
      /\ \A i \in 1 .. 3 : PrologueOffsets[i + 1] = PrologueOffsets[i] + Prologue[i].size
  <2>1. \A i \in 1 .. 3 : i \in {1, 2, 3} /\ i \in 1 .. 4
    OBVIOUS
  <2>2. QED
    BY <1>1, <2>1, PrologueBegins DEF PrologueOffsets
<1>3. PrologueAt[k] = m.pc[2] /\ (CHOOSE i \in 1 .. 3 : PrologueAt[i] = m.pc[2]) = k
  BY <1>2
<1>4. StepIn(m, Prologue, PrologueAt) = Execute(m, Prologue[k])
  BY <1>1, <1>3, Zenon DEF StepIn
<1>5. Falls(m, Prologue[k]) = Jump(m, <<m.pc[1], PrologueOffsets[k + 1]>>)
  BY <1>2, Zenon DEF Falls
<1>6. PICK pc : pc = <<m.pc[1], PrologueOffsets[k + 1]>>
  OBVIOUS
<1>7. Falls(m, Prologue[k]) = Jump(m, pc)
  BY <1>5, <1>6
<1>8. QED
  BY <1>4, <1>6, <1>7, Jumps

(* What its three instructions do.                                         *)
LEMMA PrologueEffects ==
  ASSUME NEW m
  PROVE  /\ Execute(m, Prologue[1]) = Push(Falls(m, Prologue[1]), m.reg["ebp"])
         /\ Execute(m, Prologue[2]) = Move(Falls(m, Prologue[2]), "ebp", <<"stack", m.esp>>)
         /\ Execute(m, Prologue[3]) = Push(Falls(m, Prologue[3]), <<"number", -1>>)
<1>1. /\ Prologue[1].op = "push ebp" /\ Prologue[2].op = "mov ebp, esp"
      /\ Prologue[3].op = "push -1"
  BY DEF Prologue, Instruction
<1>2. QED
  BY <1>1, Executes, Zenon

(* Each of them takes the machine to where the next one expects it.        *)
LEMMA RunsPrologue ==
  ASSUME NEW m, Shaped(m), m.pc[1] = "site", CallersStack(m), InPrologue(m), m.pc[2] # 5
  PROVE  LET n == StepIn(m, Prologue, PrologueAt)
         IN  Shaped(n) /\ n.pc[1] = "site" /\ n.pc[2] # 0 /\ CallersStack(n) /\ InPrologue(n)
<1>0. PICK n : n = StepIn(m, Prologue, PrologueAt)
  OBVIOUS
<1> SUFFICES Shaped(n) /\ n.pc[1] = "site" /\ n.pc[2] # 0 /\ CallersStack(n) /\ InPrologue(n)
    BY <1>0
<1>1. ASSUME NEW k \in 1 .. 3, m.pc[2] = PrologueOffsets[k], NEW f, f = Falls(m, Prologue[k])
      PROVE  /\ n = Execute(m, Prologue[k])
             /\ Shaped(f) /\ CallersStack(f) /\ f.pc = <<"site", PrologueOffsets[k + 1]>>
             /\ f.esp = m.esp /\ f.reg = m.reg /\ f.mem = m.mem
  BY <1>0, <1>1, PrologueStep, SameStack
<1>2. CASE m.pc[2] = 0
  <2>1. PICK f : f = Falls(m, Prologue[1])
    OBVIOUS
  <2>2. n = Push(f, m.reg["ebp"])
    <3>1. n = Execute(m, Prologue[1])
      BY <1>1, <1>2, <2>1 DEF PrologueOffsets
    <3>2. QED
      BY <2>1, <3>1, PrologueEffects, Zenon
  <2>3. /\ f.pc = <<"site", 1>> /\ f.esp = 13 /\ Shaped(f) /\ CallersStack(f) /\ f.reg = m.reg
        /\ m.reg["ebp"] = <<"ebp", 0>> /\ \A r \in Registers \ {"ebp"} : m.reg[r] = <<r, 0>>
    BY <1>1, <1>2, <2>1 DEF PrologueOffsets, InPrologue, Entry
  <2>4. /\ Shaped(n) /\ CallersStack(n) /\ n.esp = 12 /\ n.mem[12] = <<"ebp", 0>>
        /\ n.pc = f.pc /\ n.reg = f.reg
    BY <2>2, <2>3, PushesEbp
  <2>5. QED
    BY <2>3, <2>4 DEF InPrologue, Entry
<1>3. CASE m.pc[2] = 1
  <2>1. PICK f : f = Falls(m, Prologue[2])
    OBVIOUS
  <2>2. n = Move(f, "ebp", <<"stack", m.esp>>)
    <3>1. n = Execute(m, Prologue[2])
      BY <1>1, <1>3, <2>1 DEF PrologueOffsets
    <3>2. QED
      BY <2>1, <3>1, PrologueEffects, Zenon
  <2>3. /\ f.pc = <<"site", 3>> /\ f.esp = 12 /\ m.esp = 12 /\ Shaped(f) /\ CallersStack(f)
        /\ f.mem[12] = <<"ebp", 0>> /\ \A r \in Registers \ {"ebp"} : f.reg[r] = <<r, 0>>
    BY <1>1, <1>3, <2>1 DEF PrologueOffsets, InPrologue, Entry
  <2>4. /\ Shaped(n) /\ n.esp = 12 /\ n.mem = f.mem /\ n.pc = f.pc
        /\ n.reg["ebp"] = <<"stack", 12>>
        /\ \A r \in Registers \ {"ebp"} : n.reg[r] = <<r, 0>>
    BY <2>2, <2>3, MakesFrame
  <2>5. CallersStack(n)
    BY <2>3, <2>4, SameStack
  <2>6. QED
    BY <2>3, <2>4, <2>5 DEF InPrologue, Entry
<1>4. CASE m.pc[2] = 3
  <2>1. PICK f : f = Falls(m, Prologue[3])
    OBVIOUS
  <2>2. n = Push(f, <<"number", -1>>)
    <3>1. n = Execute(m, Prologue[3])
      BY <1>1, <1>4, <2>1 DEF PrologueOffsets
    <3>2. QED
      BY <2>1, <3>1, PrologueEffects, Zenon
  <2>3. /\ f.pc = <<"site", 5>> /\ f.esp = 12 /\ Shaped(f) /\ CallersStack(f)
        /\ f.mem[12] = <<"ebp", 0>>
        /\ f.reg["ebp"] = <<"stack", 12>> /\ \A r \in Registers \ {"ebp"} : f.reg[r] = <<r, 0>>
    BY <1>1, <1>4, <2>1 DEF PrologueOffsets, InPrologue, Entry
  <2>4. /\ Shaped(n) /\ CallersStack(n) /\ n.esp = 11 /\ n.mem[11] = <<"number", -1>>
        /\ n.mem[12] = <<"ebp", 0>> /\ n.pc = f.pc /\ n.reg = f.reg
    BY <2>2, <2>3, PushesMinusOne
  <2>5. QED
    BY <2>3, <2>4 DEF InPrologue, Entry
<1>5. QED
  BY <1>2, <1>3, <1>4 DEF InPrologue

(* Behind the prologue the function goes on as its own.                    *)
LEMMA LeavesPrologue ==
  ASSUME NEW m, Shaped(m), CallersStack(m), InPrologue(m), m.pc[2] = 5
  PROVE  LET n == Jump(m, <<"body", 5>>) IN Shaped(n) /\ PrologueDone(n)
<1>1. PICK pc : pc = <<"body", 5>>
  OBVIOUS
<1>2. PICK n : n = Jump(m, pc)
  OBVIOUS
<1>3. Shaped(n) /\ n.pc = pc /\ n.esp = m.esp /\ n.reg = m.reg /\ n.mem = m.mem
  BY <1>2, Jumps
<1>4. PrologueDone(n)
  BY <1>1, <1>3, SameStack DEF PrologueDone, InPrologue, Entry
<1>5. QED
  BY <1>1, <1>2, <1>3, <1>4

----------------------------------------------------------------------------
(* The machine of a call, wherever the call is.                            *)

(* CheckShouldBlock returns to the stub with its answer in the result slot *)
(* and the caller's registers where pushad has put them.                   *)
LEMMA AnswersBack ==
  ASSUME NEW m, Shaped(m), CallersStack(m), InDll(m), NEW answer \in {"block", "pass"}
  PROVE  LET n == AnsweredBy(m, answer)
         IN  Shaped(n) /\ CallersStack(n) /\ n.pc[1] = "stub" /\ AfterCall(n, answer)
<1>1. PICK p : p = Jump(Drop(m, 1), m.mem[m.esp])
  OBVIOUS
<1>2. Shaped(p) /\ p.pc = <<"stub", 21>> /\ p.esp = 1
  <2>1. PICK d : d = Drop(m, 1)
    OBVIOUS
  <2>2. Shaped(d) /\ d.esp = 1 /\ m.mem[m.esp] = <<"stub", 21>>
    BY <2>1, Drops DEF InDll
  <2>3. QED
    BY <1>1, <2>1, <2>2, Jumps
<1> DEFINE word == AnswerWord(answer)
           reg == [r \in Registers |-> IF r \in CalleeSaved THEN m.reg[r] ELSE <<"junk", 0>>]
           mem == [i \in Stack |->
                     IF Argument(m, 3) = <<"stack", i>> THEN word
                     ELSE IF i \in m.esp + 1 .. m.esp + 3 THEN <<"junk", 0>>
                     ELSE m.mem[i]]
           n == [p EXCEPT !.reg = reg, !.mem = mem]
<1>3. AnsweredBy(m, answer) = n
  BY <1>1, Zenon DEF AnsweredBy, AnswerWord
<1>4. Argument(m, 3) = <<"stack", 4>> /\ m.esp = 0
  BY DEF Argument, InDll
<1>5. \A i \in Stack : Argument(m, 3) = <<"stack", i>> <=> i = 4
  BY <1>4
<1>6. mem[4] = word /\ \A i \in 5 .. 15 : mem[i] = m.mem[i]
  <2>1. 4 \in Stack /\ \A i \in 5 .. 15 : i \in Stack /\ i # 4 /\ i \notin m.esp + 1 .. m.esp + 3
    BY <1>4 DEF Stack, Entry
  <2> HIDE DEF word
  <2>2. QED
    BY <1>5, <2>1
<1>7. reg = [r \in Registers |-> reg[r]] /\ mem = [i \in Stack |-> mem[i]]
  OBVIOUS
<1> HIDE DEF reg, mem
<1>8. PICK q : q = [p EXCEPT !.reg = reg]
  OBVIOUS
<1>9. n = [q EXCEPT !.mem = mem]
  BY <1>8, Zenon
<1>10. Shaped(q) /\ q.pc = p.pc /\ q.esp = p.esp
  BY <1>2, <1>7, <1>8, NewRegisters
<1>11. Shaped(n) /\ n.pc = <<"stub", 21>> /\ n.esp = 1 /\ n.mem = mem
  <2> HIDE DEF n
  <2>1. QED
    BY <1>2, <1>7, <1>9, <1>10, NewStack
<1> HIDE DEF n
<1>12. RegistersSaved(n)
  <2>1. \A k \in 1 .. 8 : Entry - k \in 5 .. 15
    BY DEF Entry
  <2>2. QED
    BY <1>6, <1>11, <2>1 DEF RegistersSaved, InDll
<1>13. CallersStack(n)
  BY <1>6, <1>11 DEF CallersStack, Entry
<1>14. n.pc[1] = "stub" /\ AfterCall(n, answer)
  BY <1>6, <1>11, <1>12 DEF AfterCall
<1>15. QED
  BY <1>3, <1>11, <1>13, <1>14, Zenon

\* What a thread's machine is like, wherever its call is, when CheckShouldBlock
\* has given it this answer.
MachineInv(m, answer) ==
  /\ Shaped(m)
  /\ \/ m.pc = <<"return", 0>> /\ (m = AtCall(<<"return", 0>>) \/ ReturnedZero(m))
     \/ m.pc[1] = "site" /\ CallersStack(m) /\ InPrologue(m) /\ answer = "none"
     \/ m.pc[1] = "stub" /\ CallersStack(m) /\ BeforeCall(m) /\ answer = "none"
     \/ m.pc[1] = "dll" /\ CallersStack(m) /\ InDll(m) /\ answer = "none"
     \/ m.pc[1] = "stub" /\ CallersStack(m) /\ AfterCall(m, answer) /\ answer # "none"
     \/ m.pc[1] = "stub" /\ CallersStack(m) /\ Withholding(m) /\ answer = "block"
     \/ m.pc[1] = "stub" /\ CallersStack(m) /\ Continuing(m) /\ answer = "pass"
     \/ m.pc[1] = "body" /\ LikeOriginal(m)
     \/ m.pc[1] \in {"astray", "ended"}

(* An instruction of the block takes the call on, in the order in which    *)
(* HookedFunction takes it: to the question, and with the answer to one of *)
(* the two ends (main.cpp 283-339).                                        *)
LEMMA StubRuns ==
  ASSUME NEW m, NEW answer \in {"none", "block", "pass"}, MachineInv(m, answer), m.pc[1] = "stub"
  PROVE  LET n == StepIn(m, CodeBlock, BlockAt)
         IN  /\ MachineInv(n, answer)
             /\ \/ n.pc[1] = "stub"
                \/ n.pc[1] = "dll" /\ answer = "none"
                \/ n.pc[1] = "body" /\ answer = "pass"
                \/ ReturnedZero(n) /\ answer = "block"
<1>0. PICK n : n = StepIn(m, CodeBlock, BlockAt)
  OBVIOUS
<1> SUFFICES /\ MachineInv(n, answer)
             /\ \/ n.pc[1] = "stub"
                \/ n.pc[1] = "dll" /\ answer = "none"
                \/ n.pc[1] = "body" /\ answer = "pass"
                \/ ReturnedZero(n) /\ answer = "block"
    BY <1>0
<1>1. /\ Shaped(m) /\ CallersStack(m)
      /\ \/ BeforeCall(m) /\ answer = "none"
         \/ AfterCall(m, answer) /\ answer \in {"block", "pass"}
         \/ Withholding(m) /\ answer = "block"
         \/ Continuing(m) /\ answer = "pass"
  BY DEF MachineInv
<1>2. CASE BeforeCall(m) /\ answer = "none"
  <2>1. /\ Shaped(n) /\ CallersStack(n)
        /\ \/ n.pc[1] = "stub" /\ BeforeCall(n)
           \/ n.pc[1] = "dll" /\ InDll(n)
    BY <1>0, <1>1, <1>2, RunsToCall
  <2>2. QED
    BY <1>2, <2>1 DEF MachineInv
<1>3. CASE AfterCall(m, answer) /\ answer \in {"block", "pass"}
  <2>1. /\ Shaped(n) /\ CallersStack(n) /\ n.pc[1] = "stub"
        /\ \/ AfterCall(n, answer)
           \/ answer = "block" /\ Withholding(n)
           \/ answer = "pass" /\ Continuing(n)
    BY <1>0, <1>1, <1>3, RunsAfterCall
  <2>2. QED
    BY <1>3, <2>1 DEF MachineInv
<1>4. CASE Withholding(m) /\ answer = "block"
  <2>1. /\ Shaped(n)
        /\ \/ n.pc[1] = "stub" /\ CallersStack(n) /\ Withholding(n)
           \/ ReturnedZero(n)
    BY <1>0, <1>1, <1>4, RunsWithholding
  <2>2. ReturnedZero(n) => n.pc = <<"return", 0>>
    BY DEF ReturnedZero
  <2>3. QED
    BY <1>4, <2>1, <2>2 DEF MachineInv
<1>5. CASE Continuing(m) /\ answer = "pass"
  <2>1. /\ Shaped(n)
        /\ \/ n.pc[1] = "stub" /\ CallersStack(n) /\ Continuing(n)
           \/ PrologueDone(n)
    BY <1>0, <1>1, <1>5, RunsContinuing
  <2>2. PrologueDone(n) => n.pc[1] = "body" /\ LikeOriginal(n)
    BY <2>1, DoneIsOriginal DEF PrologueDone
  <2>3. QED
    BY <1>5, <2>1, <2>2 DEF MachineInv
<1>6. QED
  BY <1>1, <1>2, <1>3, <1>4, <1>5

(* A machine that leaves the code keeps its shape.                         *)
LEMMA Leaves ==
  ASSUME NEW m, Shaped(m), NEW answer, NEW where \in {"astray", "ended"}
  PROVE  /\ MachineInv(Jump(m, <<where, 0>>), answer)
         /\ Jump(m, <<where, 0>>).pc[1] = where
<1>1. PICK pc : pc = <<where, 0>>
  OBVIOUS
<1>2. PICK n : n = Jump(m, pc)
  OBVIOUS
<1>3. Shaped(n) /\ n.pc = pc
  BY <1>2, Jumps
<1>4. QED
  BY <1>1, <1>2, <1>3 DEF MachineInv

(* An instruction of the five bytes: the machine goes on, or astray where  *)
(* they are neither whole nor the jump.                                    *)
LEMMA SiteRuns ==
  ASSUME NEW m, MachineInv(m, "none"), m.pc[1] = "site"
  PROVE  /\ MachineInv(SiteStep(m), "none")
         /\ \/ SiteStep(m).pc[1] = "site"
            \/ SiteStep(m).pc[1] = "stub" /\ site = All("jump")
            \/ SiteStep(m).pc[1] = "body"
            \/ SiteStep(m).pc[1] = "astray"
         /\ site = All("old") => SiteStep(m).pc[1] \in {"site", "body"}
         /\ site = All("jump") /\ m.pc[2] = 0 => SiteStep(m).pc[1] = "stub"
         /\ m.pc[2] = 5 => SiteStep(m).pc[1] = "body"
         /\ SiteStep(m).pc[1] = "site" => SiteStep(m).pc[2] # 0
<1>0. PICK n : n = SiteStep(m)
  OBVIOUS
<1>1. Shaped(m) /\ CallersStack(m) /\ InPrologue(m) /\ m.pc[2] \in {0, 1, 3, 5}
  BY DEF MachineInv, InPrologue
<1>2. ~(\A i \in Pieces : All("old")[i] # "old") /\ All("old") # All("jump")
  BY DEF All, Pieces
<1>3. CASE m.pc[2] = 0 /\ site = All("jump")
  <2>1. PICK pc : pc = <<"stub", 0>>
    OBVIOUS
  <2>2. n = Jump(m, pc)
    <3>1. m.pc[2] # 5 /\ site[m.pc[2]] # "old"
      BY <1>3 DEF All, Pieces
    <3>2. QED
      BY <1>0, <1>3, <2>1, <3>1, Zenon DEF SiteStep
  <2>3. Shaped(n) /\ n.pc = pc /\ n.esp = m.esp /\ n.reg = m.reg /\ n.mem = m.mem
    BY <1>1, <2>2, Jumps
  <2>4. m.esp = 13 /\ \A r \in Registers : m.reg[r] = <<r, 0>>
    BY <1>1, <1>3 DEF InPrologue, Entry
  <2>5. CallersStack(n) /\ BeforeCall(n)
    BY <1>1, <2>1, <2>3, <2>4, SameStack DEF BeforeCall, OwnRegisters
  <2>6. QED
    BY <1>0, <1>2, <1>3, <2>1, <2>3, <2>5 DEF MachineInv
<1>4. CASE m.pc[2] = 5
  <2>1. n = Jump(m, <<"body", 5>>)
    <3>1. m.pc[2] # 0 /\ m.pc[2] \notin Pieces
      BY <1>4 DEF Pieces
    <3>2. QED
      BY <1>0, <1>4, <3>1, Zenon DEF SiteStep
  <2>2. Shaped(n) /\ PrologueDone(n)
    BY <1>1, <1>4, <2>1, LeavesPrologue
  <2>3. LikeOriginal(n) /\ n.pc[1] = "body"
    BY <2>2, DoneIsOriginal DEF PrologueDone
  <2>4. QED
    BY <1>0, <1>4, <2>2, <2>3 DEF MachineInv
<1>5. CASE /\ m.pc[2] # 5 /\ ~(m.pc[2] = 0 /\ site = All("jump"))
           /\ m.pc[2] \in Pieces /\ site[m.pc[2]] = "old"
  <2>1. n = StepIn(m, Prologue, PrologueAt)
    BY <1>0, <1>5, Zenon DEF SiteStep
  <2>2. Shaped(n) /\ n.pc[1] = "site" /\ n.pc[2] # 0 /\ CallersStack(n) /\ InPrologue(n)
    BY <1>1, <1>5, <2>1, RunsPrologue
  <2>3. QED
    BY <1>0, <1>5, <2>2 DEF MachineInv
<1>6. CASE /\ m.pc[2] # 5 /\ ~(m.pc[2] = 0 /\ site = All("jump"))
           /\ ~(m.pc[2] \in Pieces /\ site[m.pc[2]] = "old")
  <2>1. n = Jump(m, <<"astray", 0>>)
    BY <1>0, <1>6, Zenon DEF SiteStep, Astray
  <2>2. MachineInv(n, "none") /\ n.pc[1] = "astray"
    BY <1>1, <2>1, Leaves
  <2>3. site # All("old")
    BY <1>1, <1>6 DEF All, Pieces
  <2>4. QED
    BY <1>0, <1>6, <2>2, <2>3
<1>7. QED
  BY <1>3, <1>4, <1>5, <1>6

\* What CheckShouldBlock has answered to a call.
Answers == {"none", "block", "pass"}

(* What HookedFunction is told of a call follows from where its machine is *)
(* and from the answer.                                                    *)
LEMMA StatusByPlace ==
  ASSUME NEW m, NEW answer \in Answers, MachineInv(m, answer)
  PROVE  /\ m = AtCall(<<"return", 0>>) => CallStatus(m, answer) = "out"
         /\ ReturnedZero(m) => CallStatus(m, answer) = "withheld"
         /\ m.pc[1] \in {"site", "stub", "dll"} =>
              CallStatus(m, answer) = IF answer = "none" THEN "asked" ELSE answer
         /\ m.pc[1] = "body" => CallStatus(m, answer) = "original"
         /\ m.pc[1] = "astray" => CallStatus(m, answer) = "lost"
         /\ m.pc[1] = "ended" => CallStatus(m, answer) = "ended"
         /\ m.pc[1] = "return" => m = AtCall(<<"return", 0>>) \/ ReturnedZero(m)
<1>1. m = AtCall(<<"return", 0>>) => m.pc[1] = "return" /\ m.esp = 13
  <2>1. PICK pc : pc = <<"return", 0>>
    OBVIOUS
  <2>2. AtCall(pc).pc = pc /\ AtCall(pc).esp = 13
    BY Called DEF Entry
  <2>3. QED
    BY <2>1, <2>2
<1>2. ReturnedZero(m) => m.pc[1] = "return" /\ m.esp = 15
  BY DEF ReturnedZero, Entry
<1>3. LikeOriginal(m) => m.pc[1] = "body"
  <2>1. LikeOriginal(m) => m.pc = AfterPrologue(AtCall(<<"site", 0>>)).pc
    BY Zenon DEF LikeOriginal
  <2>2. AfterPrologue(AtCall(<<"site", 0>>)).pc = <<"body", 5>>
    BY OwnPrologue DEF PrologueDone
  <2>3. QED
    BY <2>1, <2>2
<1>4. m.pc[1] = "dll" => RightArguments(m)
  BY DEF MachineInv, InDll, RightArguments, Argument
<1>5. m.pc[1] = "body" => LikeOriginal(m)
  BY DEF MachineInv
<1>6. m.pc[1] = "return" => m = AtCall(<<"return", 0>>) \/ ReturnedZero(m)
  BY DEF MachineInv
<1>7. ASSUME m.pc[1] = "return"
      PROVE  /\ ~LikeOriginal(m) /\ m.pc[1] # "astray" /\ m.pc[1] # "ended"
             /\ ~(m.pc[1] \in {"site", "stub"} \/ (m.pc[1] = "dll" /\ RightArguments(m)))
             /\ m # AtCall(<<"return", 0>>) \/ ~ReturnedZero(m)
  BY <1>1, <1>2, <1>3, <1>7
<1>8. /\ m = AtCall(<<"return", 0>>) => CallStatus(m, answer) = "out"
      /\ ReturnedZero(m) => CallStatus(m, answer) = "withheld"
  <2>1. ASSUME m = AtCall(<<"return", 0>>) PROVE CallStatus(m, answer) = "out"
    <3>1. m.pc[1] = "return"
      BY <1>1, <2>1
    <3>2. QED
      BY <1>7, <2>1, <3>1, Zenon DEF CallStatus
  <2>2. ASSUME ReturnedZero(m) PROVE CallStatus(m, answer) = "withheld"
    <3>1. m.pc[1] = "return"
      BY <1>2, <2>2
    <3>2. QED
      BY <1>7, <2>2, <3>1, Zenon DEF CallStatus
  <2>3. QED
    BY <2>1, <2>2
<1>9. ASSUME m.pc[1] # "return"
      PROVE m # AtCall(<<"return", 0>>) /\ ~ReturnedZero(m)
  BY <1>1, <1>2, <1>9
<1>10. m.pc[1] = "body" => CallStatus(m, answer) = "original"
  BY <1>5, <1>9, Zenon DEF CallStatus
<1>11. m.pc[1] \in {"site", "stub", "dll"} =>
         CallStatus(m, answer) = IF answer = "none" THEN "asked" ELSE answer
  <2>1. SUFFICES ASSUME m.pc[1] \in {"site", "stub", "dll"}
                 PROVE  CallStatus(m, answer) = IF answer = "none" THEN "asked" ELSE answer
    OBVIOUS
  <2>2. /\ m # AtCall(<<"return", 0>>) /\ ~ReturnedZero(m) /\ ~LikeOriginal(m)
        /\ m.pc[1] \in {"site", "stub"} \/ (m.pc[1] = "dll" /\ RightArguments(m))
        /\ m.pc[1] # "astray" /\ m.pc[1] # "ended"
    BY <1>3, <1>4, <1>9, <2>1
  <2>3. QED
    BY <2>2, Zenon DEF CallStatus
<1>12. m.pc[1] = "astray" => CallStatus(m, answer) = "lost"
  <2>1. SUFFICES ASSUME m.pc[1] = "astray" PROVE CallStatus(m, answer) = "lost"
    OBVIOUS
  <2>2. /\ m # AtCall(<<"return", 0>>) /\ ~ReturnedZero(m) /\ ~LikeOriginal(m)
        /\ ~(m.pc[1] \in {"site", "stub"} \/ (m.pc[1] = "dll" /\ RightArguments(m)))
        /\ m.pc[1] # "ended"
    BY <1>3, <1>9, <2>1
  <2>3. QED
    BY <2>1, <2>2, Zenon DEF CallStatus
<1>13. m.pc[1] = "ended" => CallStatus(m, answer) = "ended"
  <2>1. SUFFICES ASSUME m.pc[1] = "ended" PROVE CallStatus(m, answer) = "ended"
    OBVIOUS
  <2>2. /\ m # AtCall(<<"return", 0>>) /\ ~ReturnedZero(m) /\ ~LikeOriginal(m)
        /\ ~(m.pc[1] \in {"site", "stub"} \/ (m.pc[1] = "dll" /\ RightArguments(m)))
        /\ m.pc[1] # "astray"
    BY <1>3, <1>9, <2>1
  <2>3. QED
    BY <2>1, <2>2, Zenon DEF CallStatus
<1>14. QED
  BY <1>6, <1>8, <1>10, <1>11, <1>12, <1>13

\* A machine that nobody has overtaken stands where there is code.
Standing(m) ==
  /\ m.pc[1] = "site" /\ m.pc[2] = 0 => site \in {All("old"), All("jump")}
  /\ m.pc[1] = "site" /\ m.pc[2] \in {1, 3} => site = All("old")
  /\ m.pc[1] \in {"stub", "dll"} => block = "filled"

\* There is a block wherever the bytes lead to it, and only while DllMain has one.
BlockInv ==
  /\ (\E i \in Pieces : site[i] = "jump") => block = "filled"
  /\ dll = "patch" => block = "filled"
  /\ block = "filled" => dll \in {"patch", "spawn", "loaded", "stop", "wait", "restore", "free"}

\* The inductive invariant of the calls.
CallsInv ==
  /\ cpu = [t \in Threads |-> cpu[t]]
  /\ BlockInv
  /\ \A t \in Threads : MachineInv(cpu[t], verdict[t])
  /\ \A t \in Threads \ overtaken : Standing(cpu[t])

\* What HookedFunction sees of them.
Calls == [t \in Threads |-> Status(t)]

(* Nobody is in a call when the server starts.                             *)
LEMMA CallsInit == Init => CallsInv /\ Function!FunctionInit
<1> SUFFICES ASSUME Init PROVE CallsInv /\ Function!FunctionInit
    OBVIOUS
<1>1. /\ dll = "out" /\ block = "none" /\ site \in {All("old"), All("other")} /\ overtaken = {}
      /\ cpu = [t \in Threads |-> AtCall(<<"return", 0>>)]
      /\ verdict = [t \in Threads |-> "none"]
  BY DEF Init
<1>2. BlockInv
  BY <1>1 DEF BlockInv, All, Pieces
<1>3. ASSUME NEW t \in Threads
      PROVE /\ MachineInv(cpu[t], verdict[t]) /\ Standing(cpu[t]) /\ Status(t) = "out"
  <2>1. PICK m : m = AtCall(<<"return", 0>>)
    OBVIOUS
  <2>2. cpu[t] = m /\ verdict[t] = "none"
    BY <1>1, <2>1
  <2>3. m.pc = <<"return", 0>> /\ Shaped(m)
    <3>1. PICK pc : pc = <<"return", 0>>
      OBVIOUS
    <3>2. QED
      BY <2>1, <3>1, Called
  <2>4. MachineInv(m, "none") /\ m.pc[1] = "return"
    BY <2>1, <2>3 DEF MachineInv
  <2>5. Standing(m)
    BY <2>4 DEF Standing
  <2>6. CallStatus(m, "none") = "out"
    BY <2>1, <2>4, StatusByPlace DEF Answers
  <2>7. QED
    BY <2>2, <2>4, <2>5, <2>6 DEF Status
<1>4. cpu = [t \in Threads |-> cpu[t]]
  BY <1>1
<1>5. CallsInv
  BY <1>2, <1>3, <1>4 DEF CallsInv
<1>6. QED
  BY <1>1, <1>3, <1>5 DEF Function!FunctionInit

----------------------------------------------------------------------------
(* Every step keeps the invariant, and is a step of HookedFunction or none.*)

(* One thread's machine takes a step; the others' stay, and so does what   *)
(* they stand on.                                                          *)
LEMMA OneMachine ==
  ASSUME LifecycleInv, CallsInv, NEW t \in Threads, NEW n, NEW answer \in Answers,
         cpu' = [cpu EXCEPT ![t] = n], verdict' = [verdict EXCEPT ![t] = answer],
         UNCHANGED <<dll, block, site>>, MachineInv(n, answer),
         overtaken' \in {overtaken, overtaken \cup {t}, overtaken \ {t}},
         t \notin overtaken' => Standing(n)
  PROVE  CallsInv' /\ Calls' = [Calls EXCEPT ![t] = CallStatus(n, answer)]
<1>1. verdict \in [Threads -> Answers] /\ cpu = [s \in Threads |-> cpu[s]]
  BY DEF LifecycleInv, LifecycleTypeOK, CallsInv, Answers
<1>2. /\ cpu' = [s \in Threads |-> cpu'[s]]
      /\ cpu'[t] = n /\ verdict'[t] = answer
      /\ \A s \in Threads \ {t} : cpu'[s] = cpu[s] /\ verdict'[s] = verdict[s]
  BY <1>1
<1>3. ASSUME NEW s \in Threads PROVE MachineInv(cpu'[s], verdict'[s])
  BY <1>2 DEF CallsInv
<1>4. ASSUME NEW s \in Threads \ overtaken' PROVE Standing(cpu[s])'
  <2>1. CASE s = t
    <3>1. Standing(n)
      BY <2>1
    <3>2. QED
      BY <1>2, <2>1, <3>1 DEF Standing
  <2>2. CASE s # t
    <3>1. Standing(cpu[s]) /\ cpu'[s] = cpu[s]
      BY <1>2, <2>2 DEF CallsInv
    <3>2. QED
      BY <3>1 DEF Standing
  <2>3. QED
    BY <2>1, <2>2
<1>5. BlockInv'
  BY DEF CallsInv, BlockInv
<1>6. CallsInv'
  BY <1>2, <1>3, <1>4, <1>5 DEF CallsInv
<1>7. Calls' = [Calls EXCEPT ![t] = CallStatus(n, answer)]
  <2>1. ASSUME NEW s \in Threads \ {t} PROVE Status(s)' = Status(s)
    BY <1>2 DEF Status
  <2>2. Status(t)' = CallStatus(n, answer)
    BY <1>2 DEF Status
  <2>3. PICK to : to = CallStatus(n, answer)
    OBVIOUS
  <2>4. Calls' = [Calls EXCEPT ![t] = to]
    BY <2>1, <2>2, <2>3 DEF Calls
  <2>5. QED
    BY <2>3, <2>4
<1>8. QED
  BY <1>6, <1>7

\* What HookedFunction lets a call do.
CallMoves(t) == Function!CallStep(t) \/ UNCHANGED Function!functionVars

(* Each way HookedFunction lets a call go is a step of it.                 *)
LEMMA Moving ==
  ASSUME NEW t \in Threads, NEW from \in Answers \cup {"asked", "original", "out", "withheld"}, NEW to,
         Status(t) = from, Calls' = [Calls EXCEPT ![t] = to],
         \/ from \in {"out", "withheld"} /\ to = "asked"
         \/ from = "asked" /\ to \in {"block", "pass", "original"}
         \/ from = "block" /\ to = "withheld"
         \/ from = "pass" /\ to = "original"
         \/ from = "original" /\ to = "out"
         \/ from \in {"asked", "block", "pass", "original"} /\ to = "lost" /\ t \in overtaken,
         \/ UNCHANGED overtaken
         \/ to = "asked" /\ overtaken' \in {overtaken \ {t}, overtaken \cup {t}}
  PROVE  Function!CallStep(t)
<1>1. Calls[t] = from /\ Calls'[t] = to
  BY DEF Calls
<1>2. Function!Excuse(t)
  BY <1>1 DEF Function!Excuse, Calls
<1>3. QED
  BY <1>1, <1>2 DEF Function!CallStep, Function!Move, Function!Resting, Function!Pending, Calls

(* A machine that goes on within the same stage of its call is no step.    *)
LEMMA Staying ==
  ASSUME NEW t \in Threads, NEW to, to = Status(t), Calls' = [Calls EXCEPT ![t] = to],
         UNCHANGED overtaken
  PROVE  UNCHANGED Function!functionVars
<1>1. Calls' = Calls
  BY DEF Calls
<1>2. QED
  BY <1>1 DEF Function!functionVars, Calls

(* A call, or one instruction of it, is a step of HookedFunction or none.  *)
LEMMA CallRefines ==
  ASSUME LifecycleInv, CallsInv, NEW t \in Threads, Call(t), UNCHANGED <<dll, block, site>>
  PROVE  CallsInv' /\ CallMoves(t)
<1>1. PICK n : n = AtCall(<<"site", 0>>)
  OBVIOUS
<1>2. n.pc = <<"site", 0>> /\ n.esp = 13 /\ Shaped(n) /\ OwnRegisters(n) /\ CallersStack(n)
  <2>1. PICK pc : pc = <<"site", 0>>
    OBVIOUS
  <2>2. QED
    BY <1>1, <2>1, Called DEF Entry
<1>3. MachineInv(n, "none")
  <2>1. InPrologue(n)
    BY <1>2 DEF InPrologue, OwnRegisters, Registers, Entry
  <2>2. QED
    BY <1>2, <2>1 DEF MachineInv
<1>4. CallStatus(n, "none") = "asked"
  BY <1>2, <1>3, StatusByPlace DEF Answers
<1>5. /\ cpu' = [cpu EXCEPT ![t] = n] /\ verdict' = [verdict EXCEPT ![t] = "none"]
      /\ overtaken' = IF site \in {All("old"), All("jump")} THEN overtaken \ {t} ELSE overtaken \cup {t}
  BY <1>1, Zenon DEF Call
<1>6. overtaken' \in {overtaken \ {t}, overtaken \cup {t}}
  BY <1>5
<1>7. t \notin overtaken' => Standing(n)
  BY <1>2, <1>5 DEF Standing
<1>8. CallsInv' /\ Calls' = [Calls EXCEPT ![t] = "asked"]
  BY <1>3, <1>4, <1>5, <1>6, <1>7, OneMachine DEF Answers
<1>9. Status(t) \in {"out", "withheld"}
  <2>1. MachineInv(cpu[t], verdict[t]) /\ verdict[t] \in Answers
    BY DEF CallsInv, LifecycleInv, LifecycleTypeOK, Answers
  <2>2. cpu[t].pc[1] = "return"
    BY DEF Call, Outside
  <2>3. QED
    BY <2>1, <2>2, StatusByPlace DEF Status
<1>10. Function!CallStep(t)
  BY <1>6, <1>8, <1>9, Moving
<1>11. QED
  BY <1>8, <1>10 DEF CallMoves

(* What the invariant says of one thread.                                  *)
LEMMA OfOne ==
  ASSUME LifecycleInv, CallsInv, NEW t \in Threads
  PROVE  /\ MachineInv(cpu[t], verdict[t]) /\ verdict[t] \in Answers
         /\ verdict = [verdict EXCEPT ![t] = verdict[t]]
         /\ t \notin overtaken => Standing(cpu[t])
         /\ At(t) \in {"site", "stub", "dll"} =>
              Status(t) = IF verdict[t] = "none" THEN "asked" ELSE verdict[t]
         /\ At(t) = "body" => Status(t) = "original"
         /\ At(t) \in {"site", "dll"} => verdict[t] = "none"
<1>1. /\ MachineInv(cpu[t], verdict[t]) /\ verdict[t] \in Answers
      /\ verdict = [verdict EXCEPT ![t] = verdict[t]]
      /\ t \notin overtaken => Standing(cpu[t])
  BY DEF CallsInv, LifecycleInv, LifecycleTypeOK, Answers
<1>2. /\ At(t) \in {"site", "stub", "dll"} =>
              Status(t) = IF verdict[t] = "none" THEN "asked" ELSE verdict[t]
      /\ At(t) = "body" => Status(t) = "original"
  BY <1>1, StatusByPlace DEF Status, At
<1>3. At(t) \in {"site", "dll"} => verdict[t] = "none"
  BY <1>1 DEF MachineInv, At
<1>4. QED
  BY <1>1, <1>2, <1>3

(* An instruction of the five bytes, old or overwritten.  Astray goes only *)
(* who has been overtaken there.                                           *)
LEMMA SiteRefines ==
  ASSUME LifecycleInv, CallsInv, NEW t \in Threads, RunSite(t), UNCHANGED <<dll, block, site>>
  PROVE  CallsInv' /\ CallMoves(t)
<1>1. PICK n : n = SiteStep(cpu[t])
  OBVIOUS
<1>2. /\ At(t) = "site" /\ cpu' = [cpu EXCEPT ![t] = n]
      /\ verdict[t] = "none" /\ verdict' = [verdict EXCEPT ![t] = "none"]
      /\ overtaken' = overtaken /\ Status(t) = "asked"
      /\ MachineInv(cpu[t], "none") /\ cpu[t].pc[1] = "site"
  <2>1. At(t) = "site" /\ cpu' = [cpu EXCEPT ![t] = n] /\ UNCHANGED <<verdict, overtaken>>
    BY <1>1, Zenon DEF RunSite
  <2>2. QED
    BY <2>1, OfOne DEF At
<1>3. /\ MachineInv(n, "none")
      /\ \/ n.pc[1] = "site"
         \/ n.pc[1] = "stub" /\ site = All("jump")
         \/ n.pc[1] = "body"
         \/ n.pc[1] = "astray"
      /\ site = All("old") => n.pc[1] \in {"site", "body"}
      /\ site = All("jump") /\ cpu[t].pc[2] = 0 => n.pc[1] = "stub"
      /\ cpu[t].pc[2] = 5 => n.pc[1] = "body"
      /\ n.pc[1] = "site" => n.pc[2] # 0
  BY <1>1, <1>2, SiteRuns
<1>4. ASSUME t \notin overtaken
      PROVE  \/ site = All("old")
             \/ site = All("jump") /\ cpu[t].pc[2] = 0
             \/ cpu[t].pc[2] = 5
  <2>1. Standing(cpu[t])
    BY <1>4, OfOne
  <2>2. cpu[t].pc[2] \in {0, 1, 3, 5}
    BY <1>2 DEF MachineInv, InPrologue
  <2>3. QED
    BY <1>2, <2>1, <2>2 DEF Standing
<1>5. t \notin overtaken' => Standing(n) /\ n.pc[1] # "astray"
  <2>1. SUFFICES ASSUME t \notin overtaken PROVE Standing(n) /\ n.pc[1] # "astray"
    BY <1>2
  <2>2. site = All("jump") => block = "filled"
    BY DEF CallsInv, BlockInv, All, Pieces
  <2>3. QED
    BY <1>3, <1>4, <2>1, <2>2 DEF Standing
<1>6. PICK to : to = CallStatus(n, "none")
  OBVIOUS
<1>7. /\ n.pc[1] \in {"site", "stub"} => to = "asked"
      /\ n.pc[1] = "body" => to = "original"
      /\ n.pc[1] = "astray" => to = "lost"
  BY <1>3, <1>6, StatusByPlace DEF Answers
<1>8. CallsInv' /\ Calls' = [Calls EXCEPT ![t] = to]
  BY <1>2, <1>3, <1>5, <1>6, OneMachine DEF Answers
<1>9. CASE n.pc[1] \in {"site", "stub"}
  <2>1. to = Status(t)
    BY <1>2, <1>7, <1>9
  <2>2. UNCHANGED Function!functionVars
    BY <1>2, <1>8, <2>1, Staying
  <2>3. QED
    BY <1>8, <2>2 DEF CallMoves
<1>10. CASE n.pc[1] \in {"body", "astray"}
  <2>1. Function!CallStep(t)
    BY <1>2, <1>5, <1>7, <1>8, <1>10, Moving
  <2>2. QED
    BY <1>8, <2>1 DEF CallMoves
<1>11. QED
  BY <1>3, <1>9, <1>10

(* An instruction of the block, or of what is left of it.                  *)
LEMMA StubRefines ==
  ASSUME LifecycleInv, CallsInv, NEW t \in Threads, RunStub(t), UNCHANGED <<dll, block, site>>
  PROVE  CallsInv' /\ CallMoves(t)
<1>1. PICK m : m = cpu[t]
  OBVIOUS
<1>2. PICK answer : answer = verdict[t]
  OBVIOUS
<1>3. /\ m.pc[1] = "stub" /\ MachineInv(m, answer) /\ answer \in Answers
      /\ overtaken' = overtaken /\ verdict' = [verdict EXCEPT ![t] = answer]
      /\ Status(t) = IF answer = "none" THEN "asked" ELSE answer
      /\ t \notin overtaken => block = "filled"
  <2>1. At(t) = "stub" /\ UNCHANGED <<verdict, overtaken>>
    BY Zenon DEF RunStub
  <2>2. QED
    BY <1>1, <1>2, <2>1, OfOne DEF At, Standing
<1>4. CASE block = "filled"
  <2>1. PICK n : n = StepIn(m, CodeBlock, BlockAt)
    OBVIOUS
  <2>2. cpu' = [cpu EXCEPT ![t] = n]
    BY <1>1, <1>4, <2>1, Zenon DEF RunStub
  <2>3. /\ MachineInv(n, answer)
        /\ \/ n.pc[1] = "stub"
           \/ n.pc[1] = "dll" /\ answer = "none"
           \/ n.pc[1] = "body" /\ answer = "pass"
           \/ ReturnedZero(n) /\ answer = "block"
    BY <1>3, <2>1, StubRuns DEF Answers
  <2>4. ReturnedZero(n) => n.pc[1] = "return"
    BY DEF ReturnedZero
  <2>5. Standing(n)
    BY <1>4, <2>3, <2>4 DEF Standing
  <2>6. PICK to : to = CallStatus(n, answer)
    OBVIOUS
  <2>7. /\ n.pc[1] \in {"stub", "dll"} => to = IF answer = "none" THEN "asked" ELSE answer
        /\ n.pc[1] = "body" => to = "original"
        /\ ReturnedZero(n) => to = "withheld"
    BY <1>3, <2>3, <2>6, StatusByPlace
  <2>8. CallsInv' /\ Calls' = [Calls EXCEPT ![t] = to]
    BY <1>3, <2>2, <2>3, <2>5, <2>6, OneMachine
  <2>9. CASE n.pc[1] \in {"stub", "dll"}
    <3>1. to = Status(t)
      BY <1>3, <2>7, <2>9
    <3>2. UNCHANGED Function!functionVars
      BY <1>3, <2>8, <3>1, Staying
    <3>3. QED
      BY <2>8, <3>2 DEF CallMoves
  <2>10. CASE n.pc[1] = "body" /\ answer = "pass"
    <3>1. Status(t) = "pass" /\ to = "original"
      BY <1>3, <2>7, <2>10
    <3>2. Function!CallStep(t)
      BY <1>3, <2>8, <3>1, Moving DEF Answers
    <3>3. QED
      BY <2>8, <3>2 DEF CallMoves
  <2>11. CASE ReturnedZero(n) /\ answer = "block"
    <3>1. Status(t) = "block" /\ to = "withheld"
      BY <1>3, <2>7, <2>11
    <3>2. Function!CallStep(t)
      BY <1>3, <2>8, <3>1, Moving DEF Answers
    <3>3. QED
      BY <2>8, <3>2 DEF CallMoves
  <2>12. QED
    BY <2>3, <2>9, <2>10, <2>11
<1>5. CASE block # "filled"
  <2>1. PICK n : n = Jump(m, <<"astray", 0>>)
    OBVIOUS
  <2>2. cpu' = [cpu EXCEPT ![t] = n]
    BY <1>1, <1>5, <2>1, Zenon DEF RunStub, Astray
  <2>3. MachineInv(n, answer) /\ n.pc[1] = "astray"
    BY <1>3, <2>1, Leaves DEF MachineInv
  <2>4. CallStatus(n, answer) = "lost" /\ Standing(n)
    BY <1>3, <2>3, StatusByPlace DEF Standing
  <2>5. CallsInv' /\ Calls' = [Calls EXCEPT ![t] = "lost"]
    <3>1. CallsInv' /\ Calls' = [Calls EXCEPT ![t] = CallStatus(n, answer)]
      BY <1>3, <2>2, <2>3, <2>4, OneMachine
    <3>2. QED
      BY <2>4, <3>1
  <2>6. Status(t) \in {"asked", "block", "pass"}
    BY <1>3 DEF Answers
  <2>7. Function!CallStep(t)
    BY <1>3, <1>5, <2>5, <2>6, Moving
  <2>8. QED
    BY <2>5, <2>7 DEF CallMoves
<1>6. QED
  BY <1>4, <1>5

(* The answer of CheckShouldBlock, unless the DLL is gone under it.        *)
LEMMA DllRefines ==
  ASSUME LifecycleInv, CallsInv, NEW t \in Threads, RunDll(t), UNCHANGED <<dll, block, site>>
  PROVE  CallsInv' /\ CallMoves(t)
<1>1. PICK m : m = cpu[t]
  OBVIOUS
<1>2. /\ m.pc[1] = "dll" /\ MachineInv(m, "none")
      /\ overtaken' = overtaken /\ Status(t) = "asked" /\ verdict[t] = "none"
      /\ verdict = [verdict EXCEPT ![t] = "none"]
      /\ t \notin overtaken => block = "filled"
  <2>1. At(t) = "dll" /\ UNCHANGED overtaken
    BY Zenon DEF RunDll
  <2>2. QED
    BY <1>1, <2>1, OfOne DEF At, Standing
<1>3. CASE Mapped
  <2>1. PICK answer \in {"block", "pass"} :
          /\ cpu' = [cpu EXCEPT ![t] = AnsweredBy(m, answer)]
          /\ verdict' = [verdict EXCEPT ![t] = answer]
    BY <1>1, <1>3, Zenon DEF RunDll
  <2>2. PICK n : n = AnsweredBy(m, answer)
    OBVIOUS
  <2>3. Shaped(m) /\ CallersStack(m) /\ InDll(m)
    BY <1>2 DEF MachineInv
  <2>4. Shaped(n) /\ CallersStack(n) /\ n.pc[1] = "stub" /\ AfterCall(n, answer)
    BY <2>2, <2>3, AnswersBack
  <2>5. MachineInv(n, answer)
    BY <2>4 DEF MachineInv
  <2>6. CallStatus(n, answer) = answer
    BY <2>4, <2>5, StatusByPlace DEF Answers
  <2>7. t \notin overtaken' => Standing(n)
    BY <1>2, <2>4 DEF Standing
  <2>8. CallsInv' /\ Calls' = [Calls EXCEPT ![t] = CallStatus(n, answer)]
    <3>1. /\ cpu' = [cpu EXCEPT ![t] = n] /\ verdict' = [verdict EXCEPT ![t] = answer]
          /\ answer \in Answers
          /\ overtaken' \in {overtaken, overtaken \cup {t}, overtaken \ {t}}
      BY <1>2, <2>1, <2>2 DEF Answers
    <3>2. QED
      BY <2>5, <2>7, <3>1, OneMachine
  <2>9. Calls' = [Calls EXCEPT ![t] = answer]
    BY <2>6, <2>8
  <2>10. Function!CallStep(t)
    BY <1>2, <2>9, Moving
  <2>11. QED
    BY <2>8, <2>10 DEF CallMoves
<1>4. CASE ~Mapped
  <2>1. PICK n : n = Jump(m, <<"astray", 0>>)
    OBVIOUS
  <2>2. cpu' = [cpu EXCEPT ![t] = n] /\ verdict' = [verdict EXCEPT ![t] = "none"]
    <3>1. cpu' = [cpu EXCEPT ![t] = n] /\ verdict' = verdict
      BY <1>1, <1>4, <2>1, Zenon DEF RunDll, Astray
    <3>2. QED
      BY <1>2, <3>1
  <2>3. MachineInv(n, "none") /\ n.pc[1] = "astray"
    BY <1>2, <2>1, Leaves DEF MachineInv
  <2>4. CallStatus(n, "none") = "lost" /\ Standing(n)
    BY <2>3, StatusByPlace DEF Standing, Answers
  <2>5. CallsInv' /\ Calls' = [Calls EXCEPT ![t] = CallStatus(n, "none")]
    BY <1>2, <2>2, <2>3, <2>4, OneMachine DEF Answers
  <2>6. Calls' = [Calls EXCEPT ![t] = "lost"]
    BY <2>4, <2>5
  <2>7. t \in overtaken
    BY <1>2, <1>4 DEF Mapped, LifecycleInv, SiteInv
  <2>8. Function!CallStep(t)
    BY <1>2, <2>6, <2>7, Moving
  <2>9. QED
    BY <2>5, <2>8 DEF CallMoves
<1>5. QED
  BY <1>3, <1>4

(* The rest of the original function ends the call.                        *)
LEMMA BodyRefines ==
  ASSUME LifecycleInv, CallsInv, NEW t \in Threads, RunBody(t), UNCHANGED <<dll, block, site>>
  PROVE  CallsInv' /\ CallMoves(t)
<1>1. PICK n : n = AtCall(<<"return", 0>>)
  OBVIOUS
<1>2. PICK answer : answer = verdict[t]
  OBVIOUS
<1>3. /\ cpu' = [cpu EXCEPT ![t] = n] /\ verdict' = [verdict EXCEPT ![t] = answer]
      /\ answer \in Answers /\ Status(t) = "original" /\ overtaken' = overtaken
  <2>1. At(t) = "body" /\ cpu' = [cpu EXCEPT ![t] = n] /\ UNCHANGED <<verdict, overtaken>>
    BY <1>1, Zenon DEF RunBody
  <2>2. QED
    BY <1>2, <2>1, OfOne
<1>4. n.pc = <<"return", 0>> /\ Shaped(n)
  <2>1. PICK pc : pc = <<"return", 0>>
    OBVIOUS
  <2>2. QED
    BY <1>1, <2>1, Called
<1>5. MachineInv(n, answer) /\ n.pc[1] = "return"
  BY <1>1, <1>4 DEF MachineInv
<1>6. CallStatus(n, answer) = "out" /\ Standing(n)
  BY <1>1, <1>3, <1>5, StatusByPlace DEF Standing
<1>7. CallsInv' /\ Calls' = [Calls EXCEPT ![t] = CallStatus(n, answer)]
  BY <1>3, <1>5, <1>6, OneMachine
<1>8. Calls' = [Calls EXCEPT ![t] = "out"]
  BY <1>6, <1>7
<1>9. Function!CallStep(t)
  BY <1>3, <1>8, Moving
<1>10. QED
  BY <1>7, <1>9 DEF CallMoves

(* DllMain, the loader, the scan thread and the clock leave the machines   *)
(* alone; what they take from under a call, they overtake it in.           *)
LEMMA OthersRefine ==
  ASSUME LifecycleInv, CallsInv, UNCHANGED <<cpu, verdict>>, BlockInv',
         NEW places \in SUBSET {"site", "stub", "dll"},
         overtaken' = overtaken \cup {t \in Threads : At(t) \in places},
         site' # site => "site" \in places,
         block' # block => block # "filled" \/ {"stub", "dll"} \subseteq places
  PROVE  CallsInv' /\ Function!Overtake
<1>1. ASSUME NEW t \in Threads \ overtaken' PROVE Standing(cpu[t])'
  <2>1. t \notin overtaken /\ cpu[t].pc[1] \notin places /\ Standing(cpu[t]) /\ cpu'[t] = cpu[t]
    BY <1>1 DEF CallsInv, At
  <2>2. QED
    BY <2>1 DEF Standing
<1>2. CallsInv'
  BY <1>1 DEF CallsInv
<1>3. {t \in Threads : At(t) \in places} \subseteq {t \in Threads : Calls[t] \in Function!Pending}
  <2>1. SUFFICES ASSUME NEW t \in Threads, At(t) \in places PROVE Calls[t] \in Function!Pending
    OBVIOUS
  <2>2. Status(t) \in {"asked", "block", "pass"}
    BY <2>1, OfOne DEF Answers
  <2>3. QED
    BY <2>2 DEF Calls, Function!Pending
<1>4. Calls' = Calls
  BY DEF Calls, Status
<1>5. QED
  BY <1>2, <1>3, <1>4 DEF Function!Overtake, Calls

(* Where there is a block, and whether the bytes lead to it, is kept by    *)
(* DllMain: it fills the block before it writes the JMP, and restores the  *)
(* bytes before it frees the block (main.cpp 283-346, 362-370).            *)
LEMMA DllKeepsBlock ==
  ASSUME LifecycleInv, BlockInv,
         Load \/ FreeLibrary \/ PatchOwner \/ SaveBytes \/ AllocBlock \/ FillBlock \/ StartScan
           \/ StopScan \/ WaitOver \/ FreeBlock \/ Unmap
           \/ \E i \in Pieces : PatchSite(i) \/ RestoreSite(i)
  PROVE  BlockInv'
<1> USE DEF LifecycleInv, SiteInv, BlockInv, All, Pieces, Hooked, Unhooked
<1>1. saved \in {"none", "old", "other"}
  BY DEF LifecycleTypeOK
<1>2. CASE Load \/ FreeLibrary \/ PatchOwner
  BY <1>2 DEF Load, FreeLibrary, PatchOwner, codeVars
<1>3. CASE SaveBytes \/ AllocBlock
  BY <1>1, <1>3 DEF SaveBytes, AllocBlock, Decline, codeVars
<1>4. CASE FillBlock \/ StartScan
  BY <1>4 DEF FillBlock, StartScan, codeVars
<1>5. CASE StopScan \/ WaitOver
  BY <1>5 DEF StopScan, WaitOver, codeVars
<1>6. CASE FreeBlock \/ Unmap
  BY <1>1, <1>6 DEF FreeBlock, Unmap, codeVars
<1>7. ASSUME NEW i \in Pieces, PatchSite(i) PROVE BlockInv'
  BY <1>7 DEF PatchSite
<1>8. ASSUME NEW i \in Pieces, RestoreSite(i) PROVE BlockInv'
  <2>1. /\ dll = "restore" /\ block' = block /\ dll' \in {"restore", "free"}
        /\ WritePiece(i, saved)
    BY <1>8 DEF RestoreSite
  <2>2. site'[i] = saved /\ \A j \in Pieces \ {i} : site'[j] = site[j]
    <3>1. saved \in {"old", "jump", "other"}
      BY <1>1, <2>1
    <3>2. LifecycleTypeOK
      OBVIOUS
    <3>3. QED
      BY <2>1, <3>1, <3>2, PieceWritten
  <2>3. QED
    BY <1>1, <2>1, <2>2
<1>9. QED
  BY <1>2, <1>3, <1>4, <1>5, <1>6, <1>7, <1>8

(* The loader and DllMain: memcpy overtakes who is in the five bytes,      *)
(* VirtualFree who is in the block or in the DLL (main.cpp 342-370).       *)
LEMMA HookRefines ==
  ASSUME LifecycleInv, CallsInv, Load \/ FreeLibrary \/ DllStep
  PROVE  CallsInv' /\ Function!Overtake
<1>1. BlockInv'
  BY DllKeepsBlock DEF CallsInv, DllStep
<1>2. CASE \/ Load \/ FreeLibrary \/ PatchOwner \/ SaveBytes \/ AllocBlock \/ FillBlock \/ StartScan
           \/ StopScan \/ WaitOver \/ Unmap
  <2>1. UNCHANGED <<cpu, verdict, overtaken, site>>
    BY <1>2 DEF Load, FreeLibrary, PatchOwner, SaveBytes, AllocBlock, FillBlock, StartScan,
                StopScan, WaitOver, Unmap, codeVars, threadVars
  <2>2. block' # block => block # "filled"
    BY <1>2 DEF Load, FreeLibrary, PatchOwner, SaveBytes, AllocBlock, FillBlock, StartScan,
                StopScan, WaitOver, Unmap, CallsInv, BlockInv
  <2>3. overtaken' = overtaken \cup {t \in Threads : At(t) \in {}}
    BY <2>1
  <2>4. QED
    BY <1>1, <2>1, <2>2, <2>3, OthersRefine
<1>3. CASE FreeBlock
  <2>1. /\ UNCHANGED <<cpu, verdict, site>>
        /\ overtaken' = overtaken \cup {t \in Threads : At(t) \in {"stub", "dll"}}
    BY <1>3 DEF FreeBlock, codeVars
  <2>2. QED
    BY <1>1, <2>1, OthersRefine
<1>4. ASSUME NEW i \in Pieces, PatchSite(i) \/ RestoreSite(i) PROVE CallsInv' /\ Function!Overtake
  <2>1. /\ UNCHANGED <<cpu, verdict, block>>
        /\ overtaken' = overtaken \cup {t \in Threads : At(t) \in {"site"}}
    BY <1>4 DEF PatchSite, RestoreSite, WritePiece
  <2>2. QED
    BY <1>1, <2>1, OthersRefine
<1>5. QED
  BY <1>2, <1>3, <1>4 DEF DllStep

(* The end of the process ends every call.                                 *)
LEMMA ExitRefines ==
  ASSUME LifecycleInv, CallsInv, ExitProcess
  PROVE  CallsInv' /\ Function!Exit
<1>1. /\ cpu' = [t \in Threads |-> Jump(cpu[t], <<"ended", 0>>)]
      /\ UNCHANGED <<block, verdict, overtaken, site>>
      /\ dll' = dll \/ (dll = "loaded" /\ dll' = "stop")
  BY Zenon DEF ExitProcess, codeVars
<1>2. ASSUME NEW t \in Threads
      PROVE  MachineInv(cpu'[t], verdict'[t]) /\ Status(t)' = "ended" /\ cpu'[t].pc[1] = "ended"
  <2>1. PICK n : n = Jump(cpu[t], <<"ended", 0>>)
    OBVIOUS
  <2>2. cpu'[t] = n /\ verdict'[t] = verdict[t] /\ verdict[t] \in Answers
    BY <1>1, <2>1, OfOne
  <2>3. Shaped(cpu[t])
    BY OfOne DEF MachineInv
  <2>4. MachineInv(n, verdict[t]) /\ n.pc[1] = "ended"
    BY <2>1, <2>3, Leaves
  <2>5. CallStatus(n, verdict[t]) = "ended"
    BY <2>2, <2>4, StatusByPlace
  <2>6. QED
    BY <2>2, <2>4, <2>5 DEF Status
<1>3. ASSUME NEW t \in Threads PROVE Standing(cpu[t])'
  BY <1>2 DEF Standing
<1>4. BlockInv'
  BY <1>1 DEF CallsInv, BlockInv
<1>5. cpu' = [t \in Threads |-> cpu'[t]]
  BY <1>1
<1>6. CallsInv'
  BY <1>2, <1>3, <1>4, <1>5 DEF CallsInv
<1>7. Calls' = [t \in Threads |-> "ended"]
  BY <1>2 DEF Calls
<1>8. QED
  BY <1>1, <1>6, <1>7 DEF Function!Exit, Calls

(* Every step of the life cycle is a step of HookedFunction, or none.      *)
LEMMA CallsStep ==
  LifecycleInv /\ CallsInv /\ [Next]_vars =>
    /\ CallsInv'
    /\ [Function!Exit \/ Function!Overtake \/ \E t \in Threads : Function!CallStep(t)]_(Function!functionVars)
<1> SUFFICES ASSUME LifecycleInv, CallsInv, [Next]_vars
             PROVE  /\ CallsInv'
                    /\ \/ Function!Exit \/ Function!Overtake
                       \/ \E t \in Threads : Function!CallStep(t)
                       \/ UNCHANGED Function!functionVars
    OBVIOUS
<1>1. CASE Load \/ FreeLibrary \/ DllStep
  BY <1>1, HookRefines
<1>2. CASE ExitProcess
  BY <1>2, ExitRefines
<1>3. CASE ScanStep \/ Tick \/ UNCHANGED vars
  <2>1. UNCHANGED <<dll, block, site, cpu, verdict, overtaken>>
    BY <1>3 DEF ScanStep, Tick, Elapse, vars, dllVars, codeVars, threadVars
  <2>2. BlockInv' /\ overtaken' = overtaken \cup {t \in Threads : At(t) \in {}}
    BY <2>1 DEF CallsInv, BlockInv
  <2>3. QED
    BY <2>1, <2>2, OthersRefine
<1>4. ASSUME NEW t \in Threads, ThreadStep(t) PROVE CallsInv' /\ CallMoves(t)
  <2>1. UNCHANGED <<dll, block, site>>
    BY <1>4 DEF ThreadStep, dllVars, codeVars
  <2>2. Call(t) \/ RunSite(t) \/ RunStub(t) \/ RunDll(t) \/ RunBody(t)
    BY <1>4 DEF ThreadStep
  <2>3. QED
    BY <2>1, <2>2, CallRefines, SiteRefines, StubRefines, DllRefines, BodyRefines
<1>5. QED
  BY <1>1, <1>2, <1>3, <1>4 DEF Next, CallMoves

(* However many threads call it and whenever the DLL comes or goes, a call *)
(* of ShouldSynchronise is answered once and withheld, or runs the         *)
(* original with the registers and the stack it would have had; it is lost *)
(* only if the bytes, the block or the DLL changed while it was inside     *)
(* (main.cpp 278-370).                                                     *)
THEOREM LifecycleImplementsFunction == Spec => ImplementsFunction
<1>1. Init => CallsInv /\ Function!FunctionInit
  BY CallsInit
<1>2. QED
  BY <1>1, CallsStep, LifecycleAlways, PTL DEF Spec, ImplementsFunction, Function!FunctionSpec

=============================================================================
