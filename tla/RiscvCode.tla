----------------------------- MODULE RiscvCode -----------------------------
(***************************************************************************)
(* The arithmetic of the riscv64 back end and of its linker: constants,    *)
(* addresses, jumps and frames are put together from immediates of L and   *)
(* U bits (12 and 20), which the processor extends by their sign, and a    *)
(* wide constant from three parts and K more bits (8).  A word has         *)
(* W = L + U bits, a register 2 * W.                                       *)
(*                                                                         *)
(* A state is a task for the code generator; the step runs the code that   *)
(* is emitted for it.  Frames are counted in slots of 8 bytes.             *)
(***************************************************************************)
EXTENDS Integers, Sequences, SequencesExt

CONSTANTS
  L, K,
  Home,           \* what the registers hold; where the code (pc) and the symbol are
  Constant,       \* the constants that are loaded
  Address,        \* the absolute addresses that are accessed
  Distance, Far,  \* from the code to the symbol; some of them, with every offset
  Offset,         \* from the symbol; some of them, with every distance
  Slots           \* of a frame, of arguments

ASSUME WidthAssumption == L \in Nat /\ K \in Nat /\ 0 < K /\ K < L

U == L + K
W == L + U
M == 2 ^ (2 * W)

(* (x << 64-n) >> 64-n: the low n bits of x, extended by their sign.       *)
Sx(x, n) == ((x + 2 ^ (n - 1)) % 2 ^ n) - 2 ^ (n - 1)

(* ((unsigned)x + (1 << 11)) >> 12 is 0; (x + 0x800) & 0xfffff000.         *)
Small(x) == Sx(x, L) = x
Upper(x) == Sx(((x + 2 ^ (L - 1)) \div 2 ^ L) * 2 ^ L, W)

Ins(op, rd, rs, imm) == [op |-> op, rd |-> rd, rs |-> rs, imm |-> imm]
Lui(rd, imm) == <<Ins("lui", rd, "zero", Upper(imm))>>
EI(op, rd, rs, imm) == <<Ins(op, rd, rs, imm)>>
ER(op, rd, rs) == <<Ins(op, rd, rs, 0)>>

(* The processor.  EI() and ES() assert that the immediate fits.           *)
Step(m, i) ==
  LET x == m.reg[i.rs]
      at == (x + i.imm) % M
      set(v) == [m EXCEPT !.reg[i.rd] = v % M]
      n == CASE i.op \in {"lui"} -> set(i.imm)
             [] i.op = "auipc" -> set(m.pc + i.imm)
             [] i.op = "addi" -> set(x + i.imm)
             [] i.op = "addiw" -> set(Sx(x + i.imm, W))
             [] i.op = "slli" -> set(x * 2 ^ i.imm)
             [] i.op = "srli" -> set(x \div 2 ^ i.imm)
             [] i.op = "add" -> set(m.reg[i.rd] + x)
             [] i.op = "sub" -> set(m.reg[i.rd] - x)
             [] i.op = "ld" -> set(IF at \in DOMAIN m.mem THEN m.mem[at] ELSE M - 1)
             [] i.op = "sd" -> [m EXCEPT !.mem = [a \in DOMAIN @ \union {at} |->
                                                    IF a = at THEN m.reg[i.rd] ELSE @[a]]]
             [] i.op = "mem" -> [m EXCEPT !.ea = at]
             [] i.op = "jump" -> [m EXCEPT !.ea = (m.pc + i.imm) % M]
             [] i.op = "jalr" -> [m EXCEPT !.ea = at]
             [] i.op = "error" -> [m EXCEPT !.ok = FALSE]
  IN IF i.op \in {"addi", "addiw", "ld", "sd", "mem", "jalr"} /\ ~Small(i.imm)
       THEN [n EXCEPT !.ok = FALSE] ELSE n

Reg == {"zero", "rr", "t0", "t1", "s0", "sp", "ra"}
Reset == [reg |-> [r \in Reg |-> IF r = "zero" THEN 0 ELSE Home[r]],
          mem |-> <<>>, pc |-> Home.pc, ea |-> 0, ok |-> TRUE]
Run(code, m) == FoldLeft(Step, m, code)

-----------------------------------------------------------------------------
(* load_large_constant(): fc are the low and pi the high W bits.           *)
MutCarry(fc, pi) == pi
Carry(fc, pi) == IF fc < 0 THEN pi + 1 ELSE pi

load_large_constant(rr, fc, p) ==
  LET pi == Carry(fc, p)
  IN Lui(rr, pi)
     \o EI("addi", rr, rr, Sx(pi, L)) \o EI("slli", rr, rr, L)
     \o EI("addi", rr, rr, Sx(fc + 2 ^ (U - 1), W) \div 2 ^ U) \o EI("slli", rr, rr, L)
     \o EI("addi", rr, rr, Sx(fc, U) \div 2 ^ K) \o EI("slli", rr, rr, K)

(* load() of a constant. *)
load_const(bt, c) ==
  LET fc == Sx(c, W)
      si == c \div 2 ^ W
      low == fc % 2 ^ K
  IN IF fc # c /\ si # 0
       THEN load_large_constant("rr", fc, si)
              \o (IF low # 0 THEN EI("addi", "rr", "rr", low) ELSE <<>>)
       ELSE (IF Small(fc) THEN EI("addiw", "rr", "zero", Sx(fc, L))
             ELSE Lui("rr", fc) \o EI("addiw", "rr", "rr", Sx(fc, L)))
              \o (IF fc # c /\ bt = "llong"
                    THEN EI("slli", "rr", "rr", W) \o EI("srli", "rr", "rr", W)
                    ELSE <<>>)

-----------------------------------------------------------------------------
(* relocate(): R_RISCV_PCREL_HI20 and R_RISCV_GOT_HI20, with their         *)
(* R_RISCV_PCREL_LO12_I or _S, for an auipc at Home.pc.                    *)
High(d) == (d + 2 ^ (L - 1)) \div 2 ^ L

Hi20(rd, d) ==
  IF High(d) + 2 ^ U \in 0 .. 2 ^ (U + 1) - 1
    THEN <<Ins("auipc", rd, "zero", Sx((High(d) % 2 ^ U) * 2 ^ L, W))>>
    ELSE <<Ins("error", rd, "zero", 0)>>
Lo12(d) == Sx(d, L)

(* load_symofs() and the access itself, at an offset c from a local, a     *)
(* static or an external symbol or at an absolute address.  The symbol is  *)
(* at distance d; of an external one that is the distance of its entry in  *)
(* the GOT.                                                                *)
access(what, rr, d, c) ==
  LET fc == Sx(c, W) IN
  CASE what = "static" ->
         Hi20(rr, d + c) \o EI("mem", "zero", rr, Lo12(d + c))
    [] what = "extern" ->
         Hi20(rr, d) \o EI("ld", rr, rr, Lo12(d))
           \o (IF Small(fc) THEN EI("mem", "zero", rr, fc)
               ELSE Lui("t1", fc) \o ER("add", rr, "t1") \o EI("mem", "zero", rr, Sx(fc, L)))
    [] what = "local" ->
         IF Small(fc) THEN EI("mem", "zero", "s0", fc)
         ELSE Lui(rr, fc) \o ER("add", rr, "s0") \o EI("mem", "zero", rr, Sx(fc, L))
    [] what = "absolute" ->
         IF c \div 2 ^ W # 0
           THEN load_large_constant(rr, fc, c \div 2 ^ W) \o EI("mem", "zero", rr, fc % 2 ^ K)
           ELSE Lui(rr, fc) \o EI("mem", "zero", rr, Sx(fc, L))

(* The address register is the target of a load.  A store has t0, and for  *)
(* an absolute address s0.                                                 *)
AddressReg(store, what) ==
  IF ~store THEN "rr" ELSE IF what = "absolute" THEN "s0" ELSE "t0"

-----------------------------------------------------------------------------
(* A jal reaches 2^U in both directions; gsym_addr(), gjmp_addr() and      *)
(* R_RISCV_JAL take it up to twice as far.                                 *)
InJal(r) == r + 2 ^ (U + 1) \in 0 .. 2 ^ (U + 2) - 1
Jal(r) == <<Ins("jump", "zero", "zero", Sx(r, U + 1))>>

gsym_addr(r) == IF InJal(r) THEN Jal(r) ELSE <<Ins("error", "zero", "zero", 0)>>
gjmp_addr(r) ==
  IF InJal(r) THEN Jal(r)
  ELSE <<Ins("auipc", "t0", "zero", Upper(r))>> \o EI("jalr", "zero", "t0", Sx(r, L))

(* R_RISCV_CALL and R_RISCV_CALL_PLT: an auipc and a jalr, not checked.    *)
call(d) ==
  <<Ins("auipc", "ra", "zero", Upper(d))>> \o EI("jalr", "ra", "ra", Sx(d, L))

(* R_RISCV_BRANCH, R_RISCV_RVC_JUMP and R_RISCV_RVC_BRANCH: n bits.        *)
branch(n, d) ==
  IF d + 2 ^ (n - 1) \in 0 .. 2 ^ n - 1
    THEN <<Ins("jump", "zero", "zero", Sx(d, n))>> ELSE <<Ins("error", "zero", "zero", 0)>>

-----------------------------------------------------------------------------
(* gfunc_prolog() and gfunc_epilog(): a frame of v slots below nva saved   *)
(* registers, v an even number that has them in it.                        *)
Big(v) == v >= 2 ^ (L - 1)
FrameSize(v) == IF Big(v) THEN 2 ELSE v

Rest(v) == v - 2

prolog(v, nva) ==
  LET d == FrameSize(v)
      save == EI("addi", "sp", "sp", -d) \o EI("sd", "ra", "sp", d - 1 - nva)
                \o EI("sd", "s0", "sp", d - 2 - nva) \o EI("addi", "s0", "sp", d - nva)
  IN IF Big(v) THEN save \o Lui("t0", Rest(v)) \o EI("addi", "t0", "t0", Sx(Rest(v), L))
                      \o ER("sub", "sp", "t0")
     ELSE save

epilog(v, nva) ==
  LET d == FrameSize(v)
  IN (IF Big(v) THEN Lui("t0", v - 2) \o EI("addi", "t0", "t0", Sx(v - 2, L)) \o ER("add", "sp", "t0")
      ELSE <<>>)
     \o EI("ld", "ra", "sp", d - 1 - nva) \o EI("ld", "s0", "sp", d - 2 - nva)
     \o EI("addi", "sp", "sp", d)

(* gfunc_call(): room for n slots of arguments, made and given back.       *)
adjust(n) ==
  LET bit == (n % 2 ^ L) \div 2 ^ (L - 1)
      high == ((n + bit * 2 ^ L) \div 2 ^ L) * 2 ^ L
  IN IF n >= 2 ^ (L - 1) \/ n <= -(2 ^ (L - 1))
       THEN Lui("t0", Sx(high, W)) \o EI("addi", "t0", "t0", (n % 2 ^ L) - bit * 2 ^ L)
              \o ER("add", "sp", "t0")
       ELSE EI("addi", "sp", "sp", n)

-----------------------------------------------------------------------------
VARIABLES task, m
vars == <<task, m>>

Words == -(2 ^ (W - 1)) .. 2 ^ (W - 1) - 1

Init ==
  /\ m = Reset
  /\ \/ \E c \in -(2 ^ (W - 1)) .. 2 ^ W - 1 : task = [kind |-> "const", bt |-> "int", c |-> c]
     \/ \E c \in Constant, bt \in {"llong", "ptr"} : task = [kind |-> "const", bt |-> bt, c |-> c]
     \/ \E store \in BOOLEAN :
          \/ \E what \in {"static", "extern"}, d \in Distance, c \in Offset :
               task = [kind |-> "access", what |-> what, store |-> store, d |-> d, c |-> c]
          \/ \E d \in Far, c \in Words :
               task = [kind |-> "access", what |-> "extern", store |-> store, d |-> d, c |-> c]
          \/ \E c \in Words :
               task = [kind |-> "access", what |-> "local", store |-> store, d |-> 0, c |-> c]
          \/ \E c \in Address :
               task = [kind |-> "access", what |-> "absolute", store |-> store, d |-> 0, c |-> c]
     \/ \E d \in Words, via \in {"gsym", "gjmp", "branch"} :
          task = [kind |-> "jump", via |-> via, d |-> d]
     \/ \E d \in Distance, via \in {"call"} :
          task = [kind |-> "jump", via |-> via, d |-> d]
     \/ \E v \in Slots, nva \in 0 .. 2 :
          v % 2 = 0 /\ v >= nva + 2 /\ task = [kind |-> "frame", v |-> v, nva |-> nva]
     \/ \E n \in Slots : task = [kind |-> "args", n |-> n]

Loaded == task.kind = "const" /\ m' = Run(load_const(task.bt, task.c), m)
Accessed ==
  LET got == (Home.pc + task.d) % M
  IN /\ task.kind = "access"
     /\ m' = Run(access(task.what, AddressReg(task.store, task.what), task.d, task.c),
                 [m EXCEPT !.mem = [a \in {got} |-> Home.sym]])
Jumped ==
  /\ task.kind = "jump"
  /\ m' = Run(CASE task.via = "gsym" -> gsym_addr(task.d)
                [] task.via = "gjmp" -> gjmp_addr(task.d)
                [] task.via = "call" -> call(task.d)
                [] task.via = "branch" -> branch(L + 1, task.d), m)
Framed == task.kind = "frame" /\ m' = Run(prolog(task.v, task.nva), m)
Adjusted == task.kind = "args" /\ m' = Run(adjust(-task.n), m)

Next == m = Reset /\ (Loaded \/ Accessed \/ Jumped \/ Framed \/ Adjusted) /\ UNCHANGED task
Spec == Init /\ [][Next]_vars

-----------------------------------------------------------------------------
After(kind) == task.kind = kind /\ m # Reset
Signed(x, n) == -(2 ^ (n - 1)) <= x /\ x < 2 ^ (n - 1)

(* Every constant is loaded as it is, whatever its bits, but for           *)
(* - a pointer that is a W-bit unsigned number with the top bit set, which *)
(*   is extended like an int;                                              *)
(* - a wide constant whose low word is within 2^(U-1) of the largest int,  *)
(*   where fc + (1 << 19) overflows.                                       *)
Overflows(c) == Sx(c, W) >= 2 ^ (W - 1) - 2 ^ (U - 1) /\ c \div 2 ^ W # 0
TopBit(c) == 2 ^ (W - 1) <= c /\ c < 2 ^ W
ConstLoaded ==
  After("const") =>
    \/ m.ok /\ m.reg["rr"] = (IF task.bt = "int" THEN Sx(task.c, W) ELSE task.c) % M
    \/ Overflows(task.c)
    \/ task.bt = "ptr" /\ TopBit(task.c)

(* An access is to the address it should be, or it is refused, and the     *)
(* frame pointer is as before.  Not so for                                 *)
(* - symbols further away than an auipc reaches and less than twice that;  *)
(* - offsets so near the largest int that Upper() is rounded out of it;    *)
(* - absolute addresses that cannot be loaded, or have the top bit of a    *)
(*   word; and every store to an absolute address takes s0 for it.         *)
Wanted ==
  CASE task.what = "static" -> Home.pc + task.d + task.c
    [] task.what = "extern" -> Home.sym + task.c
    [] task.what = "local" -> Home.s0 + task.c
    [] task.what = "absolute" -> task.c
Reach(d) == Signed(d + 2 ^ (L - 1), W)
Unchecked ==
  \/ task.what \in {"static", "extern"} /\ ~Reach(task.d + (IF task.what = "static" THEN task.c ELSE 0))
  \/ task.what # "static" /\ task.c \in 2 ^ (W - 1) - 2 ^ (L - 1) .. 2 ^ (W - 1) - 1
  \/ task.what = "absolute" /\ (Overflows(task.c) \/ TopBit(task.c))
AccessRight ==
  After("access") =>
    /\ ~m.ok \/ m.ea = Wanted % M \/ Unchecked
    /\ m.reg["s0"] = Home.s0 \/ (task.store /\ task.what = "absolute")

(* A jump lands where it should or is refused, but for a jal between the   *)
(* reach of the instruction and twice that, and what no auipc reaches.     *)
JumpsLand ==
  After("jump") =>
    \/ ~m.ok \/ m.ea = (Home.pc + task.d) % M
    \/ task.via \in {"gsym", "gjmp"} /\ InJal(task.d) /\ ~Signed(task.d, U + 1)
    \/ task.via \in {"call", "gjmp"} /\ ~Reach(task.d)

(* "Patch all branches in list pointed to by t to branch to a". *)
BranchesPatched ==
  After("jump") /\ task.via = "gsym" /\ m.ok => m.ea = (Home.pc + task.d) % M

(* The frame of a function lies below its caller's, s0 marks where the     *)
(* saved registers begin, and leaving the function restores what it found; *)
(* so does a call.                                                         *)
FramesBalance ==
  /\ After("frame") =>
       LET n == Run(epilog(task.v, task.nva), [m EXCEPT !.reg["ra"] = 0])
       IN /\ m.ok /\ n.ok
          /\ m.reg["sp"] = Home.sp - task.v /\ m.reg["s0"] = Home.sp - task.nva
          /\ \A r \in {"sp", "s0", "ra"} : n.reg[r] = Home[r]
  /\ After("args") =>
       LET n == Run(adjust(task.n), m)
       IN m.ok /\ n.ok /\ m.reg["sp"] = Home.sp - task.n /\ n.reg["sp"] = Home.sp

(* What load(), store() and the jump functions of riscv64-gen.c emit, and  *)
(* relocate() of riscv64-link.c completes, does what was asked, whatever   *)
(* the sign bits of the parts, but for the cases that are listed above.    *)
CodeRight == ConstLoaded /\ AccessRight /\ JumpsLand /\ FramesBalance
=============================================================================
