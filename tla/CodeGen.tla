------------------------------ MODULE CodeGen ------------------------------
(***************************************************************************)
(* The code the driver writes for a worker thread to run (Utils.c):        *)
(* call a routine, store its result, set an event, return.  A generator    *)
(* answers the instructions it writes.  Memory is counted in words of the  *)
(* target: 8 bytes, or 4 in a wow64 process.                               *)
(*                                                                         *)
(* The processor and the calling conventions are external: registers reg,  *)
(* stack pointer sp, stack, the calls made so far, the stored status and   *)
(* the instruction that is next.                                           *)
(***************************************************************************)
EXTENDS Integers, Sequences

CONSTANTS Routine, SetEvent, Event, ReturnAddress, Answer, Junk

Mov(r, v) == [op |-> "mov", r |-> r, n |-> v]
Store(slot, r) == [op |-> "store", r |-> r, n |-> slot]
Load(r, slot) == [op |-> "load", r |-> r, n |-> slot]
AddSp(words) == [op |-> "add sp", r |-> "", n |-> words]
Push(v) == [op |-> "push", r |-> "", n |-> v]
Op(name) == [op |-> name, r |-> "", n |-> 0]

ArgRegisters == <<"cx", "dx", "8", "9">>

GenPrologue64 == [i \in 1..4 |-> Store(i, ArgRegisters[i])]
GenEpilogue64 == Append([i \in 1..4 |-> Load(ArgRegisters[i], i)], Op("ret"))

\* Mutant: the stack is not brought to a multiple of two words.
MutFrame64(argc) == IF argc > 4 THEN argc ELSE 5

\* Room for the arguments, never less than the four the callee may home, and
\* a word to bring the stack to a multiple of two words.
Frame64(argc) == IF argc > 4 THEN 2 * ((argc + 1) \div 2) + 1 ELSE 5

\* The frame and the places in it are written in one byte, which the processor
\* extends by its sign: words from -16 to 15.
Imm8(words) == ((words + 16) % 32) - 16

GenCall64V(fn, args) ==
  LET argc == Len(args)
      frame == Imm8(Frame64(argc))
      inRegisters == [i \in 1..(IF argc < 4 THEN argc ELSE 4) |-> Mov(ArgRegisters[i], args[i])]
      onStack == [k \in 1..(IF argc > 4 THEN 2 * (argc - 4) ELSE 0) |->
                    IF k % 2 = 1 THEN Mov("ax", args[4 + ((k + 1) \div 2)]) ELSE Store(Imm8(3 + (k \div 2)), "ax")]
  IN  <<AddSp(-frame)>> \o inRegisters \o onStack
      \o <<Mov("ax", fn), Op("call"), AddSp(frame)>>

GenSync64 ==
  <<Op("status"), Mov("cx", Event), Mov("dx", 0), Mov("ax", SetEvent), Op("call")>>

GenPrologue32 == <<Op("enter")>>
GenEpilogue32(popped) == <<Op("leave"), [Op("ret") EXCEPT !.n = popped]>>

\* The arguments pass through a zeroed buffer, all but the last.
GenCall32V(fn, args) ==
  LET argc == Len(args)
      cast == [i \in 1..argc |-> IF i < argc THEN args[i] ELSE 0]
  IN  [i \in 1..argc |-> Push(cast[argc + 1 - i])] \o <<Mov("ax", fn), Op("call")>>

GenSync32 == <<Op("status"), Push(0), Push(Event), Mov("ax", SetEvent), Op("call")>>

GenPrologueT(wow64) == IF wow64 THEN GenPrologue32 ELSE GenPrologue64
GenCallTV(wow64, fn, args) == IF wow64 THEN GenCall32V(fn, args) ELSE GenCall64V(fn, args)
GenSyncT(wow64) == IF wow64 THEN GenSync32 ELSE GenSync64
GenEpilogueT(wow64, popped) == IF wow64 THEN GenEpilogue32(popped) ELSE GenEpilogue64

\* As BBCallRoutine writes them one after the other.
CallCode(wow64, args) ==
  GenPrologueT(wow64) \o GenCallTV(wow64, Routine, args) \o GenSyncT(wow64)
  \o GenEpilogueT(wow64, Len(args))

----------------------------------------------------------------------------
\* The routine called may use the four words above its return address, and
\* leaves nothing in the argument registers; a wow64 callee pops its arguments.
Called(cpu, wow64, argc) ==
  LET fn == cpu.reg["ax"]
      count == IF fn = SetEvent THEN 2 ELSE argc
      seen == [i \in 1..count |->
                IF ~wow64 /\ i <= 4 THEN cpu.reg[ArgRegisters[i]] ELSE cpu.stack[cpu.sp + i - 1]]
      homed == IF wow64 \/ fn = SetEvent THEN {} ELSE cpu.sp..cpu.sp + 3
  IN  [cpu EXCEPT
        !.calls = Append(@, [fn |-> fn, args |-> seen, aligned |-> cpu.sp % 2 = 1,
                             status |-> cpu.status]),
        !.stack = [a \in DOMAIN @ |-> IF a \in homed THEN Junk ELSE @[a]],
        !.reg = [r \in DOMAIN @ |-> IF r = "ax" THEN Answer ELSE IF r = "bp" THEN @[r] ELSE Junk],
        !.sp = IF wow64 THEN @ + count ELSE @]

Execute(cpu, wow64, argc, i) ==
  CASE i.op = "mov" -> [cpu EXCEPT !.reg[i.r] = i.n]
    [] i.op = "store" -> [cpu EXCEPT !.stack[cpu.sp + i.n] = cpu.reg[i.r]]
    [] i.op = "load" -> [cpu EXCEPT !.reg[i.r] = cpu.stack[cpu.sp + i.n]]
    [] i.op = "add sp" -> [cpu EXCEPT !.sp = @ + i.n]
    [] i.op = "push" -> [cpu EXCEPT !.sp = @ - 1, !.stack[cpu.sp - 1] = i.n]
    [] i.op = "status" -> [cpu EXCEPT !.status = cpu.reg["ax"]]
    [] i.op = "enter" -> [cpu EXCEPT !.sp = @ - 1, !.stack[cpu.sp - 1] = cpu.reg["bp"],
                                     !.reg["bp"] = cpu.sp - 1]
    [] i.op = "leave" -> [cpu EXCEPT !.sp = cpu.reg["bp"] + 1,
                                     !.reg["bp"] = cpu.stack[cpu.reg["bp"]]]
    [] i.op = "ret" -> [cpu EXCEPT !.at = cpu.stack[cpu.sp], !.sp = @ + 1 + i.n]
    [] OTHER -> Called(cpu, wow64, argc)

\* The code is entered by a call: its return address is at the stack pointer.
Entered(argc) ==
  [reg |-> [r \in {"ax", "bp", "cx", "dx", "8", "9"} |-> Junk], sp |-> 0, at |-> 0, status |-> 0,
   stack |-> [a \in -(argc + 8)..4 |-> IF a = 0 THEN ReturnAddress ELSE Junk], calls |-> <<>>, next |-> 1]

RunOne(cpu, wow64, args) ==
  [Execute(cpu, wow64, Len(args), CallCode(wow64, args)[cpu.next]) EXCEPT !.next = @ + 1]
=============================================================================
