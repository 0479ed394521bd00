----------------------------- MODULE Arm64Proofs -----------------------------
(***************************************************************************)
(* Proofs about Arm64, for every program, whatever its intermediate code     *)
(* beyond its blocks and cases, and every choice of registers.               *)
(***************************************************************************)
EXTENDS Arm64, SequenceTheorems, FiniteSetTheorems, NumberLemmas

-----------------------------------------------------------------------------
(* The first pass.  What holds of the layout L after k operations.              *)

VariableRecords == [name : STRING, type : Types, offset : Nat, at : Nat]

ScopeRecords ==
  [up : Int, around : SUBSET Nat, offset : Nat, depth : Nat, variables : Seq(VariableRecords)]

Frames(L) ==
  /\ L = [scope |-> L.scope, stack_depth |-> L.stack_depth, scopes |-> L.scopes]
  /\ L.scope \in DOMAIN L.scopes /\ L.stack_depth \in Nat
  /\ L.scopes \in [DOMAIN L.scopes -> ScopeRecords]

(* up leads out of a scope, and around is where it leads.                        *)
Chained(L, k) ==
  /\ 0 \in DOMAIN L.scopes /\ DOMAIN L.scopes \subseteq 0 .. k
  /\ L.scopes[0].around = {0} /\ L.scopes[0].offset = 0
  /\ \A s \in DOMAIN L.scopes : s \in L.scopes[s].around /\ L.scopes[s].around \subseteq 0 .. s
  /\ \A s \in DOMAIN L.scopes : L.scopes[s].around \subseteq DOMAIN L.scopes
  /\ \A s \in DOMAIN L.scopes \ {0} :
       /\ L.scopes[s].up \in DOMAIN L.scopes /\ L.scopes[s].up < s
       /\ L.scopes[s].around = L.scopes[L.scopes[s].up].around \cup {s}

End(s) == s.offset + s.depth

(* The variables of one scope lie in it one after the other.                     *)
InLine(s, k) ==
  \A i \in DOMAIN s.variables :
    /\ s.variables[i].at <= k
    /\ s.offset + SizeOf(s.variables[i].type) <= s.variables[i].offset
    /\ s.variables[i].offset <= End(s)
    /\ \A j \in DOMAIN s.variables :
         i < j => s.variables[i].offset + SizeOf(s.variables[j].type) <= s.variables[j].offset

(* A scope starts where those around it have got to, and what has ended is in the *)
(* depth of the frame.                                                          *)
Stacked(L, k) ==
  /\ \A s, t \in L.scopes[L.scope].around : s < t => End(L.scopes[s]) <= L.scopes[t].offset
  /\ \A s \in DOMAIN L.scopes \ L.scopes[L.scope].around : End(L.scopes[s]) <= L.stack_depth
  /\ k > 0 => 1 \in DOMAIN L.scopes /\ End(L.scopes[0]) <= L.scopes[1].offset

(* The layout's scope is as deep as the blocks are.                              *)
AsDeep(L, k, operations) ==
  /\ Nesting(operations)[L.scope] = Nesting(operations)[k]
  /\ \A s \in DOMAIN L.scopes \ {0} :
       /\ Nesting(operations)[s] > 0
       /\ Nesting(operations)[s] = Nesting(operations)[L.scopes[s].up] + 1

LaidOut(L, k, operations) ==
  /\ Frames(L) /\ Chained(L, k) /\ Stacked(L, k) /\ AsDeep(L, k, operations)
  /\ \A s \in DOMAIN L.scopes : InLine(L.scopes[s], k)

(* What was laid out stays where it is.                                          *)
Extends(L, M, k) ==
  /\ DOMAIN L.scopes \subseteq DOMAIN M.scopes
  /\ \A s \in DOMAIN L.scopes :
       /\ M.scopes[s].around = L.scopes[s].around
       /\ DOMAIN L.scopes[s].variables \subseteq DOMAIN M.scopes[s].variables
       /\ \A i \in DOMAIN L.scopes[s].variables :
            M.scopes[s].variables[i] = L.scopes[s].variables[i]
       /\ \A i \in DOMAIN M.scopes[s].variables :
            i \in DOMAIN L.scopes[s].variables \/ M.scopes[s].variables[i].at > k

-----------------------------------------------------------------------------
(* The second pass.                                                             *)

Walking ==
  LET layouts == Layouts(program[walk.fn], walk.ops)
  IN /\ walk = [fn |-> walk.fn, ops |-> walk.ops, frame |-> walk.frame, at |-> walk.at,
                scope |-> walk.scope]
     /\ walk.fn \in Compiled /\ walk.ops = Operations[source][walk.fn]
     /\ walk.frame = layouts[Len(walk.ops)]
     /\ walk.at \in 1 .. Len(walk.ops) + 1
     /\ walk.scope = layouts[walk.at - 1].scope

Fatal(g) == NoRegister \in g.regs

Sequence(s) == Len(s) \in Nat /\ s = [i \in 1 .. Len(s) |-> s[i]]

Generation(g) ==
  /\ g = [stack |-> g.stack, matches |-> g.matches, regs |-> g.regs,
          callee_saved |-> g.callee_saved, code |-> g.code]
  /\ Sequence(g.stack) /\ Sequence(g.matches)

Place(l) ==
  /\ {"kind", "keep"} \subseteq DOMAIN l
  /\ InRegister(l) => "reg" \in DOMAIN l

Plain(g, l) == Place(l) /\ ~l.keep /\ (InRegister(l) => l.reg \in g.regs)

(* Each register with a value is held, by one place.                              *)
Held(g) ==
  /\ g.regs \subseteq Scratch \cup Saved /\ g.regs \cap Saved \subseteq g.callee_saved
  /\ \A i \in DOMAIN g.stack : Plain(g, g.stack[i])
  /\ \A i, j \in DOMAIN g.stack :
       InRegister(g.stack[i]) /\ InRegister(g.stack[j]) /\ g.stack[i].reg = g.stack[j].reg => i = j
  /\ \A i \in DOMAIN g.matches : Plain(g, g.matches[i]) /\ InRegister(g.matches[i])
  /\ \A i, j \in DOMAIN g.matches : g.matches[i].reg = g.matches[j].reg => i = j
  /\ \A i \in DOMAIN g.stack, j \in DOMAIN g.matches :
       InRegister(g.stack[i]) => g.matches[j].reg # g.stack[i].reg

(* Without a register to be had the compiler gives up; until then they are held.    *)
Sound(g) == Generation(g) /\ (Fatal(g) \/ Held(g))

(* No register with a value is r.                                               *)
Unused(g, r) ==
  /\ \A i \in DOMAIN g.stack : InRegister(g.stack[i]) => g.stack[i].reg # r
  /\ \A i \in DOMAIN g.matches : g.matches[i].reg # r

(* l may be put on the stack.                                                    *)
Holdable(g, l) ==
  Plain(g, l) /\ (InRegister(l) => Unused(g, l.reg))

(* Between a CASE and its WHEN a copy of the value lies above it, which keeps the  *)
(* register; in the end with the value it is compared with on top.                 *)
Compared(ops, at) ==
  IF at > 1 /\ ops[at - 1].op = "CASE" THEN 1
  ELSE IF at > 2 /\ ops[at - 2].op = "CASE" THEN 2 ELSE 0

CopyOnTop(g) ==
  /\ Len(g.stack) >= 2 /\ g.stack[1].keep
  /\ InRegister(g.stack[1]) => InRegister(g.stack[2]) /\ g.stack[1].reg = g.stack[2].reg
  /\ Held(Pop(g, 1))

HeldWith(g, p) ==
  CASE p = 0 -> Held(g)
    [] p = 1 -> CopyOnTop(g)
    [] p = 2 -> Len(g.stack) >= 3 /\ ~InRegister(g.stack[1]) /\ CopyOnTop(Pop(g, 1))

Holding == Generation(gen) /\ ~Fatal(gen) /\ HeldWith(gen, Compared(walk.ops, walk.at))

IInv ==
  /\ source \in DOMAIN Sources
  /\ todo \in Seq(Compiled)
  /\ gen # <<>> => walk # <<>>
  /\ walk # <<>> => todo # <<>> /\ Walking
  /\ walk # <<>> /\ "unary" \notin missteps => Holding

-----------------------------------------------------------------------------
(* Arithmetic of the frame.                                                     *)

(* Aligning never makes a size smaller (align_at).                              *)
LEMMA AlignedUp ==
  ASSUME NEW n \in Nat
  PROVE  /\ align_at(n, 8) \in Nat /\ align_at(n, 8) >= n
         /\ align_at(n, 16) \in Nat /\ align_at(n, 16) >= n
BY DEF align_at

(* Every type has a size (typeid_sizeof).                                        *)
LEMMA Sizes ==
  ASSUME NEW t \in Types
  PROVE  SizeOf(t) \in Nat \ {0}
BY DEF Types, SizeOf

(* The offsets of the parameters: the recursion of ParameterOffsets.              *)
LEMMA OffsetsComputed ==
  ASSUME NEW p, Parameters(p)
  PROVE  LET f == ParameterOffsets(p)
         IN /\ f[0] = 0
            /\ \A k \in 1 .. Len(p) :
                 f[k] = f[k - 1] + align_at(f[k - 1] + align_at(SizeOf(p[k][2]), 8), 16)
<1> DEFINE F(k, x) == x + align_at(x + align_at(SizeOf(p[k][2]), 8), 16)
           Upto(h, n) == h = [k \in 0 .. n |-> IF k = 0 THEN 0 ELSE F(k, h[k - 1])]
           S == {n \in Nat : \E h : Upto(h, n)}
<1>1. 0 \in S
  <2>1. Upto([k \in 0 .. 0 |-> 0], 0)
    OBVIOUS
  <2> QED
    BY <2>1
<1>2. ASSUME NEW n \in S PROVE n + 1 \in S
  <2>1. PICK h : Upto(h, n)
    OBVIOUS
  <2> DEFINE g == [k \in 0 .. n + 1 |-> IF k <= n THEN h[k] ELSE F(n + 1, h[n])]
  <2> HIDE DEF F
  <2>2. Upto(g, n + 1)
    BY <2>1
  <2> HIDE DEF g, Upto
  <2> QED
    BY <2>2
<1> HIDE DEF F
<1>3. S = Nat
  BY <1>1, <1>2, SetInduction
<1>4. \E h : Upto(h, Len(p))
  BY <1>3 DEF Parameters
<1>5. Upto(ParameterOffsets(p), Len(p))
  BY <1>4 DEF ParameterOffsets, F
<1> QED
  BY <1>5 DEF F, Parameters

(* A parameter's slot lies above those of the parameters before it.               *)
LEMMA OffsetsGrow ==
  ASSUME NEW p, Parameters(p)
  PROVE  LET f == ParameterOffsets(p)
         IN /\ \A k \in 0 .. Len(p) : f[k] \in Nat
            /\ \A i, j \in 0 .. Len(p) : i <= j => f[i] <= f[j]
            /\ \A k \in 1 .. Len(p) : f[k - 1] + SizeOf(p[k][2]) <= f[k]
<1>1. PICK f : /\ f = ParameterOffsets(p) /\ f[0] = 0
               /\ \A k \in 1 .. Len(p) :
                    f[k] = f[k - 1] + align_at(f[k - 1] + align_at(SizeOf(p[k][2]), 8), 16)
  BY OffsetsComputed
<1>2. Len(p) \in Nat
  BY DEF Parameters
<1>3. ASSUME NEW k \in 1 .. Len(p), f[k - 1] \in Nat
      PROVE  f[k] \in Nat /\ f[k - 1] + SizeOf(p[k][2]) <= f[k]
  <2> DEFINE z == SizeOf(p[k][2])
             a == align_at(z, 8)
             b == align_at(f[k - 1] + a, 16)
  <2>1. z \in Nat
    BY <1>2, Sizes DEF Parameters
  <2>2. a \in Nat /\ a >= z
    BY <2>1, AlignedUp
  <2>3. f[k] = f[k - 1] + b
    BY <1>1
  <2> HIDE DEF z, a
  <2>4. f[k - 1] + a \in Nat
    BY <1>3, <2>2
  <2>5. b \in Nat /\ b >= f[k - 1] + a
    BY <2>4, AlignedUp
  <2> HIDE DEF b
  <2>6. f[k] \in Nat /\ f[k - 1] + z <= f[k]
    BY <1>3, <2>1, <2>2, <2>5, <2>3
  <2> QED
    BY <2>6 DEF z
<1> DEFINE S == {n \in Nat : n <= Len(p) => \A i \in 0 .. n : f[i] \in Nat /\ f[i] <= f[n]}
<1>4. 0 \in S
  BY <1>1
<1>5. ASSUME NEW n \in S PROVE n + 1 \in S
  <2> SUFFICES ASSUME n + 1 <= Len(p)
               PROVE  \A i \in 0 .. n + 1 : f[i] \in Nat /\ f[i] <= f[n + 1]
    OBVIOUS
  <2>1. f[n] \in Nat /\ \A i \in 0 .. n : f[i] \in Nat /\ f[i] <= f[n]
    BY <1>2
  <2>2. n + 1 \in 1 .. Len(p) /\ (n + 1) - 1 = n
    BY <1>2
  <2>3. f[n + 1] \in Nat /\ f[n] + SizeOf(p[n + 1][2]) <= f[n + 1]
    BY <1>3, <2>1, <2>2
  <2>4. SizeOf(p[n + 1][2]) \in Nat
    BY <2>2, Sizes DEF Parameters
  <2>5. \A i \in 0 .. n : f[i] \in Nat /\ f[i] <= f[n + 1]
    BY <2>1, <2>3, <2>4
  <2> QED
    BY <2>3, <2>5
<1>6. S = Nat
  <2>1. S \in SUBSET Nat
    OBVIOUS
  <2> HIDE DEF S
  <2> QED
    BY <1>4, <1>5, <2>1, SetInduction
<1>7. \A n \in 0 .. Len(p) : f[n] \in Nat /\ \A i \in 0 .. n : f[i] <= f[n]
  BY <1>2, <1>6
<1> QED
  BY <1>1, <1>2, <1>3, <1>7

-----------------------------------------------------------------------------
(* The first pass.                                                              *)

(* How deep in blocks the code is: the recursion of Nesting.                      *)
LEMMA NestingComputed ==
  ASSUME NEW o, Len(o) \in Nat
  PROVE  LET f == Nesting(o)
         IN /\ f[0] = 0
            /\ \A k \in 1 .. Len(o) :
                 /\ o[k].op = "SCOPE_BEGIN" => f[k] = f[k - 1] + 1
                 /\ o[k].op = "SCOPE_END" => f[k] = f[k - 1] - 1
                 /\ o[k].op \notin {"SCOPE_BEGIN", "SCOPE_END"} => f[k] = f[k - 1]
<1> DEFINE F(k, x) == CASE o[k].op = "SCOPE_BEGIN" -> x + 1
                        [] o[k].op = "SCOPE_END" -> x - 1
                        [] OTHER -> x
           Upto(h, n) == h = [k \in 0 .. n |-> IF k = 0 THEN 0 ELSE F(k, h[k - 1])]
           S == {n \in Nat : \E h : Upto(h, n)}
<1>1. 0 \in S
  <2>1. Upto([k \in 0 .. 0 |-> 0], 0)
    OBVIOUS
  <2> QED
    BY <2>1
<1>2. ASSUME NEW n \in S PROVE n + 1 \in S
  <2>1. PICK h : Upto(h, n)
    OBVIOUS
  <2> DEFINE g == [k \in 0 .. n + 1 |-> IF k <= n THEN h[k] ELSE F(n + 1, h[n])]
  <2> HIDE DEF F
  <2>2. Upto(g, n + 1)
    BY <2>1
  <2> HIDE DEF g, Upto
  <2> QED
    BY <2>2
<1> HIDE DEF F
<1>3. S = Nat
  BY <1>1, <1>2, SetInduction
<1>4. \E h : Upto(h, Len(o))
  BY <1>3
<1>5. Upto(Nesting(o), Len(o))
  BY <1>4 DEF Nesting, F
<1>6. /\ Nesting(o)[0] = 0
      /\ \A k \in 1 .. Len(o) : Nesting(o)[k] = F(k, Nesting(o)[k - 1])
  BY <1>5
<1> QED
  BY <1>6 DEF F

(* The layout after each operation: the recursion of Layouts.                     *)
LEMMA LayoutsComputed ==
  ASSUME NEW function, NEW o, Len(o) \in Nat
  PROVE  LET f == Layouts(function, o)
         IN /\ f[0] = [scope |-> 0, stack_depth |-> 0,
                       scopes |-> [s \in {0} |-> FunctionScope(function.parameters)]]
            /\ \A k \in 1 .. Len(o) : f[k] = LayOut(f[k - 1], k, o[k])
<1> DEFINE F(k, x) == LayOut(x, k, o[k])
           start == [scope |-> 0, stack_depth |-> 0,
                     scopes |-> [s \in {0} |-> FunctionScope(function.parameters)]]
           Upto(h, n) == h = [k \in 0 .. n |-> IF k = 0 THEN start ELSE F(k, h[k - 1])]
           S == {n \in Nat : \E h : Upto(h, n)}
<1> HIDE DEF start
<1>1. 0 \in S
  <2>1. Upto([k \in 0 .. 0 |-> start], 0)
    OBVIOUS
  <2> QED
    BY <2>1
<1>2. ASSUME NEW n \in S PROVE n + 1 \in S
  <2>1. PICK h : Upto(h, n)
    OBVIOUS
  <2> DEFINE g == [k \in 0 .. n + 1 |-> IF k <= n THEN h[k] ELSE F(n + 1, h[n])]
  <2> HIDE DEF F
  <2>2. Upto(g, n + 1)
    BY <2>1
  <2> HIDE DEF g, Upto
  <2> QED
    BY <2>2
<1> HIDE DEF F
<1>3. S = Nat
  BY <1>1, <1>2, SetInduction
<1>4. \E h : Upto(h, Len(o))
  BY <1>3
<1>5. Upto(Layouts(function, o), Len(o))
  BY <1>4 DEF Layouts, F, start
<1>6. /\ Layouts(function, o)[0] = start
      /\ \A k \in 1 .. Len(o) : Layouts(function, o)[k] = F(k, Layouts(function, o)[k - 1])
  BY <1>5
<1> QED
  BY <1>6 DEF F, start

(* The parameters are laid out in the function's own scope.                      *)
LEMMA FunctionScopeFits ==
  ASSUME NEW p, Parameters(p)
  PROVE  /\ FunctionScope(p) \in ScopeRecords /\ InLine(FunctionScope(p), 0)
         /\ FunctionScope(p).around = {0} /\ FunctionScope(p).offset = 0
<1> DEFINE s == FunctionScope(p)
           v == [k \in DOMAIN p |-> [name |-> p[k][1], type |-> p[k][2],
                                     offset |-> ParameterOffsets(p)[k], at |-> 0]]
<1>1. PICK f : /\ f = ParameterOffsets(p) /\ f[0] = 0
               /\ \A k \in 0 .. Len(p) : f[k] \in Nat
               /\ \A i, j \in 0 .. Len(p) : i <= j => f[i] <= f[j]
               /\ \A k \in 1 .. Len(p) : f[k - 1] + SizeOf(p[k][2]) <= f[k]
  BY OffsetsComputed, OffsetsGrow
<1>2. /\ Len(p) \in Nat /\ DOMAIN p = 1 .. Len(p)
      /\ \A k \in 1 .. Len(p) : p[k][1] \in STRING /\ p[k][2] \in Types
  BY DEF Parameters
<1>3. /\ v = [k \in 1 .. Len(p) |-> [name |-> p[k][1], type |-> p[k][2], offset |-> f[k], at |-> 0]]
      /\ s = [up |-> -1, around |-> {0}, offset |-> 0, depth |-> f[Len(p)], variables |-> v]
  BY <1>1, <1>2 DEF FunctionScope
<1> HIDE DEF s, v
<1>4. \A k \in 1 .. Len(p) : v[k] \in VariableRecords
  BY <1>1, <1>2, <1>3 DEF VariableRecords
<1>5. v \in Seq(VariableRecords) /\ DOMAIN v = 1 .. Len(p)
  BY <1>2, <1>3, <1>4
<1>6. s \in ScopeRecords
  BY <1>1, <1>2, <1>3, <1>5 DEF ScopeRecords
<1>7. InLine(s, 0)
  <2>1. \A k \in 1 .. Len(p) : SizeOf(p[k][2]) \in Nat
    BY <1>2, Sizes
  <2>2. ASSUME NEW i \in 1 .. Len(p)
        PROVE  SizeOf(p[i][2]) <= f[i] /\ f[i] <= f[Len(p)]
    <3>1. /\ f[i - 1] + SizeOf(p[i][2]) <= f[i] /\ SizeOf(p[i][2]) \in Nat
      BY <1>1, <2>1
    <3>2. i - 1 \in 0 .. Len(p) /\ i \in 0 .. Len(p) /\ Len(p) \in 0 .. Len(p) /\ i <= Len(p)
      BY <1>2
    <3>3. f[i - 1] \in Nat /\ f[i] \in Nat /\ f[i] <= f[Len(p)]
      BY <1>1, <3>2
    <3> QED
      BY <3>1, <3>3
  <2>3. ASSUME NEW i \in 1 .. Len(p), NEW j \in 1 .. Len(p), i < j
        PROVE  f[i] + SizeOf(p[j][2]) <= f[j]
    <3>1. i \in 0 .. Len(p) /\ j - 1 \in 0 .. Len(p) /\ i <= j - 1
      BY <1>2, <2>3
    <3>2. f[i] <= f[j - 1] /\ f[i] \in Nat /\ f[j - 1] \in Nat /\ f[j] \in Nat
      BY <1>1, <1>2, <3>1
    <3> QED
      BY <1>1, <2>1, <3>2
  <2>4. /\ s.variables = v /\ s.offset = 0 /\ s.depth = f[Len(p)]
        /\ \A k \in 1 .. Len(p) : v[k].type = p[k][2] /\ v[k].offset = f[k] /\ v[k].at = 0
    BY <1>3
  <2>5. End(s) = f[Len(p)]
    BY <1>1, <1>2, <2>4 DEF End
  <2> QED
    BY <1>5, <2>1, <2>2, <2>3, <2>4, <2>5 DEF InLine
<1> QED
  BY <1>3, <1>6, <1>7 DEF s

(* Before the first operation.                                                  *)
LEMMA LayoutStart ==
  ASSUME NEW function, Parameters(function.parameters), NEW o, WellFormed(o)
  PROVE  LaidOut(Layouts(function, o)[0], 0, o)
<1> DEFINE L == Layouts(function, o)[0]
           f == FunctionScope(function.parameters)
<1>1. L = [scope |-> 0, stack_depth |-> 0, scopes |-> [s \in {0} |-> f]]
  BY LayoutsComputed DEF WellFormed
<1>2. f \in ScopeRecords /\ InLine(f, 0) /\ f.around = {0} /\ f.offset = 0
  BY FunctionScopeFits
<1> HIDE DEF L, f
<1>3. /\ L.scope = 0 /\ DOMAIN L.scopes = {0} /\ L.scopes[0] = f
      /\ L.stack_depth = 0
  BY <1>1
<1>4. Frames(L)
  BY <1>1, <1>2, <1>3 DEF Frames
<1>5. Chained(L, 0)
  BY <1>2, <1>3 DEF Chained
<1>6. Stacked(L, 0)
  BY <1>2, <1>3 DEF Stacked
<1>7. AsDeep(L, 0, o)
  BY <1>3 DEF AsDeep
<1> QED
  BY <1>2, <1>3, <1>4, <1>5, <1>6, <1>7 DEF LaidOut, L

(* Between the first operation and the last the scope is not the function's own.  *)
LEMMA InABlock ==
  ASSUME NEW o, WellFormed(o), NEW k \in 0 .. Len(o) - 1, NEW L, LaidOut(L, k, o)
  PROVE  /\ k > 0 => L.scope # 0 /\ Nesting(o)[k] > 0
         /\ k = 0 => L.scope = 0 /\ o[k + 1].op = "SCOPE_BEGIN"
<1>1. Len(o) \in Nat /\ DOMAIN o = 1 .. Len(o)
  BY DEF WellFormed
<1>2. CASE k > 0
  <2>1. Nesting(o)[k] > 0
    BY <1>1, <1>2 DEF WellFormed
  <2>2. Nesting(o)[0] = 0 /\ Nesting(o)[L.scope] = Nesting(o)[k]
    BY <1>1, NestingComputed DEF LaidOut, AsDeep
  <2> QED
    BY <1>2, <2>1, <2>2
<1>3. CASE k = 0
  BY <1>3 DEF LaidOut, Frames, Chained, WellFormed
<1> QED
  BY <1>2, <1>3

(* The variables of a scope.                                                    *)
LEMMA VariablesTyped ==
  ASSUME NEW s \in ScopeRecords
  PROVE  /\ s.offset \in Nat /\ s.depth \in Nat /\ s.around \in SUBSET Nat
         /\ s.variables \in Seq(VariableRecords) /\ Len(s.variables) \in Nat
         /\ DOMAIN s.variables = 1 .. Len(s.variables)
         /\ \A i \in DOMAIN s.variables :
              /\ s.variables[i].type \in Types /\ SizeOf(s.variables[i].type) \in Nat \ {0}
              /\ s.variables[i].offset \in Nat /\ s.variables[i].at \in Nat
<1>1. /\ s.offset \in Nat /\ s.depth \in Nat /\ s.around \in SUBSET Nat
      /\ s.variables \in Seq(VariableRecords)
  BY DEF ScopeRecords
<1>2. Len(s.variables) \in Nat /\ DOMAIN s.variables = 1 .. Len(s.variables)
  BY <1>1, LenProperties
<1>3. \A i \in DOMAIN s.variables : s.variables[i] \in VariableRecords
  BY <1>1, <1>2, ElementOfSeq
<1>4. \A x \in VariableRecords :
        x.type \in Types /\ SizeOf(x.type) \in Nat \ {0} /\ x.offset \in Nat /\ x.at \in Nat
  BY Sizes DEF VariableRecords
<1> QED
  BY <1>1, <1>2, <1>3, <1>4

(* They stay in line as the walk goes on.                                        *)
LEMMA InLineLater ==
  ASSUME NEW k \in Nat, NEW s \in ScopeRecords, InLine(s, k)
  PROVE  InLine(s, k + 1)
<1>1. \A i \in DOMAIN s.variables : s.variables[i].at \in Nat
  BY VariablesTyped
<1>2. \A i \in DOMAIN s.variables : s.variables[i].at <= k + 1
  BY <1>1 DEF InLine
<1> QED
  BY <1>2 DEF InLine

(* An operation that has nothing to do with the layout.                           *)
LEMMA LayOutOther ==
  ASSUME NEW o, WellFormed(o), NEW k \in 0 .. Len(o) - 1, NEW L, LaidOut(L, k, o),
         o[k + 1].op \notin {"DECL_VAR", "SCOPE_BEGIN", "SCOPE_END"}
  PROVE  LaidOut(L, k + 1, o) /\ Extends(L, L, k)
<1>1. Len(o) \in Nat /\ k + 1 \in 1 .. Len(o)
  BY DEF WellFormed
<1>2. k > 0
  BY InABlock
<1>3. Nesting(o)[k + 1] = Nesting(o)[k]
  BY <1>1, NestingComputed
<1>4. Frames(L) /\ Chained(L, k + 1)
  BY DEF LaidOut, Frames, Chained
<1>5. Stacked(L, k + 1)
  BY <1>2 DEF LaidOut, Stacked
<1>6. AsDeep(L, k + 1, o)
  BY <1>3 DEF LaidOut, AsDeep
<1>7. \A s \in DOMAIN L.scopes : InLine(L.scopes[s], k + 1)
  <2> SUFFICES ASSUME NEW s \in DOMAIN L.scopes PROVE InLine(L.scopes[s], k + 1)
    OBVIOUS
  <2>1. L.scopes[s] \in ScopeRecords /\ InLine(L.scopes[s], k)
    BY DEF LaidOut, Frames
  <2> QED
    BY <2>1, InLineLater
<1> QED
  BY <1>4, <1>5, <1>6, <1>7 DEF LaidOut, Extends

(* t is the scope s with one more variable, v.                                     *)
Declares(t, s, v) ==
  /\ t = [s EXCEPT !.depth = @ + align_at(SizeOf(v.type), 16), !.variables = Append(@, v)]
  /\ v.offset = s.offset + t.depth

(* A variable goes to the end of its scope (IR_DECL_VAR).                         *)
LEMMA DeclaredInLine ==
  ASSUME NEW k \in Nat, NEW s \in ScopeRecords, InLine(s, k), NEW v \in VariableRecords,
         v.at = k + 1, NEW t, Declares(t, s, v)
  PROVE  /\ t \in ScopeRecords /\ InLine(t, k + 1)
         /\ t.around = s.around /\ t.up = s.up /\ t.offset = s.offset
         /\ DOMAIN s.variables \subseteq DOMAIN t.variables
         /\ \A i \in DOMAIN s.variables : t.variables[i] = s.variables[i]
         /\ \A i \in DOMAIN t.variables :
              i \in DOMAIN s.variables \/ t.variables[i].at > k
<1> DEFINE n == Len(s.variables)
           d == t.depth
<1>1. /\ s.offset \in Nat /\ s.depth \in Nat /\ s.around \in SUBSET Nat
      /\ s.variables \in Seq(VariableRecords) /\ n \in Nat /\ DOMAIN s.variables = 1 .. n
      /\ \A i \in 1 .. n :
           /\ s.variables[i].type \in Types /\ SizeOf(s.variables[i].type) \in Nat \ {0}
           /\ s.variables[i].offset \in Nat /\ s.variables[i].at \in Nat
  BY VariablesTyped
<1>2. SizeOf(v.type) \in Nat
  BY Sizes DEF VariableRecords
<1>3. /\ t = [up |-> s.up, around |-> s.around, offset |-> s.offset,
              depth |-> s.depth + align_at(SizeOf(v.type), 16),
              variables |-> Append(s.variables, v)]
      /\ v.offset = s.offset + d
  BY DEF Declares, ScopeRecords
<1>4. d \in Nat /\ d >= s.depth + SizeOf(v.type)
  <2>1. align_at(SizeOf(v.type), 16) \in Nat /\ align_at(SizeOf(v.type), 16) >= SizeOf(v.type)
    BY <1>2, AlignedUp
  <2>2. d = s.depth + align_at(SizeOf(v.type), 16)
    BY <1>3
  <2> HIDE DEF d
  <2> QED
    BY <1>1, <1>2, <2>1, <2>2
<1> HIDE DEF d
<1>5. /\ t.variables = Append(s.variables, v) /\ t.depth = d
      /\ t.around = s.around /\ t.up = s.up /\ t.offset = s.offset
      /\ t = [up |-> s.up, around |-> s.around, offset |-> s.offset, depth |-> d,
              variables |-> Append(s.variables, v)]
  BY <1>3 DEF d
<1>6. /\ t.variables \in Seq(VariableRecords) /\ DOMAIN t.variables = 1 .. n + 1
      /\ t.variables[n + 1] = v /\ \A i \in 1 .. n : t.variables[i] = s.variables[i]
  BY <1>1, <1>5, AppendProperties, LenProperties
<1>7. t \in ScopeRecords
  <2>1. s.up \in Int
    BY DEF ScopeRecords
  <2> QED
    BY <1>1, <1>4, <1>5, <1>6, <2>1 DEF ScopeRecords
<1>8. InLine(t, k + 1)
  <2> DEFINE w == t.variables
  <2>1. w[n + 1].type = v.type /\ w[n + 1].offset = s.offset + d /\ w[n + 1].at = k + 1
    BY <1>3, <1>6
  <2>2. \A i \in 1 .. n : w[i] = s.variables[i]
    BY <1>6
  <2>3. \A i \in 1 .. n :
          /\ s.variables[i].at <= k
          /\ s.offset + SizeOf(s.variables[i].type) <= s.variables[i].offset
          /\ s.variables[i].offset <= s.offset + s.depth
          /\ \A j \in 1 .. n : i < j =>
               s.variables[i].offset + SizeOf(s.variables[j].type) <= s.variables[j].offset
    BY <1>1 DEF InLine, End
  <2>4. DOMAIN w = 1 .. n + 1
    BY <1>6
  <2> HIDE DEF w
  <2>5. ASSUME NEW i \in 1 .. n
        PROVE  /\ w[i].at <= k + 1 /\ t.offset + SizeOf(w[i].type) <= w[i].offset
               /\ w[i].offset <= t.offset + d
               /\ \A j \in 1 .. n : i < j => w[i].offset + SizeOf(w[j].type) <= w[j].offset
               /\ w[i].offset + SizeOf(v.type) <= s.offset + d
    <3>1. PICK x, z : x = s.variables[i] /\ z = SizeOf(x.type)
      OBVIOUS
    <3>2. /\ w[i] = x /\ x.at \in Nat /\ x.offset \in Nat /\ z \in Nat /\ x.at <= k
          /\ s.offset + z <= x.offset /\ x.offset <= s.offset + s.depth
      BY <1>1, <2>2, <2>3, <3>1
    <3>3. \A j \in 1 .. n : i < j => w[i].offset + SizeOf(w[j].type) <= w[j].offset
      BY <2>2, <2>3
    <3>4. x.at <= k + 1 /\ x.offset <= s.offset + d /\ x.offset + SizeOf(v.type) <= s.offset + d
      BY <1>1, <1>2, <1>4, <3>2
    <3> QED
      BY <1>5, <3>1, <3>2, <3>3, <3>4
  <2>6. /\ w[n + 1].at <= k + 1 /\ t.offset + SizeOf(w[n + 1].type) <= w[n + 1].offset
        /\ w[n + 1].offset <= t.offset + d
    BY <1>1, <1>2, <1>4, <1>5, <2>1
  <2>7. \A i \in 1 .. n + 1 : i \in 1 .. n \/ i = n + 1
    BY <1>1
  <2>8. \A i \in 1 .. n + 1 :
          /\ w[i].at <= k + 1 /\ t.offset + SizeOf(w[i].type) <= w[i].offset
          /\ w[i].offset <= t.offset + d
          /\ \A j \in 1 .. n + 1 : i < j => w[i].offset + SizeOf(w[j].type) <= w[j].offset
    BY <1>1, <2>1, <2>5, <2>6, <2>7
  <2> QED
    BY <1>5, <2>4, <2>8 DEF InLine, End, w
<1> QED
  BY <1>1, <1>5, <1>6, <1>7, <1>8

(* It is a number.                                                              *)
LEMMA NestingInt ==
  ASSUME NEW o, Len(o) \in Nat, NEW k \in 0 .. Len(o)
  PROVE  Nesting(o)[k] \in Int
<1>1. PICK f : /\ f = Nesting(o) /\ f[0] = 0
               /\ \A j \in 1 .. Len(o) : f[j] \in {f[j - 1] + 1, f[j - 1] - 1, f[j - 1]}
  BY NestingComputed
<1> DEFINE S == {j \in Nat : j <= Len(o) => f[j] \in Int}
<1>2. 0 \in S
  BY <1>1
<1>3. ASSUME NEW j \in S PROVE j + 1 \in S
  BY <1>1
<1>4. S \in SUBSET Nat
  OBVIOUS
<1>5. S = Nat
  <2> HIDE DEF S
  <2> QED
    BY <1>2, <1>3, <1>4, SetInduction
<1> QED
  BY <1>1, <1>5

(* The variable is in the layout, and the rest of it stays.                       *)
LEMMA LayOutDeclared ==
  ASSUME NEW o, WellFormed(o), NEW k \in 0 .. Len(o) - 1, NEW L, LaidOut(L, k, o),
         o[k + 1].op = "DECL_VAR", NEW M, M = LayOut(L, k + 1, o[k + 1])
  PROVE  LaidOut(M, k + 1, o) /\ Extends(L, M, k)
<1> DEFINE c == L.scope
           s == L.scopes[c]
           x == o[k + 1]
<1>1. /\ Len(o) \in Nat /\ k \in Nat /\ k + 1 \in 1 .. Len(o)
      /\ x.name \in STRING /\ x.type \in Types
  BY DEF WellFormed
<1>2. k > 0 /\ c # 0
  BY InABlock
<1>3. Nesting(o)[k + 1] = Nesting(o)[k]
  BY <1>1, NestingComputed
<1>4. Frames(L) /\ Chained(L, k) /\ Stacked(L, k) /\ AsDeep(L, k, o)
  BY DEF LaidOut
<1>5. c \in DOMAIN L.scopes /\ s \in ScopeRecords /\ InLine(s, k)
  BY <1>4 DEF LaidOut, Frames
<1>6. PICK v : v = [name |-> x.name, type |-> x.type,
                    offset |-> s.offset + (s.depth + align_at(SizeOf(x.type), 16)),
                    at |-> k + 1]
  OBVIOUS
<1>7. PICK t : t = [s EXCEPT !.depth = s.depth + align_at(SizeOf(x.type), 16),
                             !.variables = Append(s.variables, v)]
  OBVIOUS
<1>8. /\ t \in ScopeRecords /\ InLine(t, k + 1)
      /\ t.around = s.around /\ t.up = s.up /\ t.offset = s.offset
      /\ DOMAIN s.variables \subseteq DOMAIN t.variables
      /\ \A i \in DOMAIN s.variables : t.variables[i] = s.variables[i]
      /\ \A i \in DOMAIN t.variables : i \in DOMAIN s.variables \/ t.variables[i].at > k
  <2>1. s.offset \in Nat /\ s.depth \in Nat /\ SizeOf(x.type) \in Nat
    BY <1>1, <1>5, VariablesTyped, Sizes
  <2>2. align_at(SizeOf(x.type), 16) \in Nat
    BY <2>1, AlignedUp
  <2>3. v \in VariableRecords /\ v.at = k + 1 /\ v.type = x.type
    BY <1>1, <1>6, <2>1, <2>2 DEF VariableRecords
  <2>4. Declares(t, s, v)
    BY <1>5, <1>6, <1>7 DEF Declares, ScopeRecords
  <2> HIDE DEF s, x
  <2> QED
    BY <1>1, <1>5, <2>3, <2>4, DeclaredInLine
<1>9. M = [L EXCEPT !.scopes[c] = t]
  BY <1>6, <1>7 DEF LayOut, DeclareVar
<1> HIDE DEF c, x
<1>10. /\ M = [scope |-> c, stack_depth |-> L.stack_depth, scopes |-> [L.scopes EXCEPT ![c] = t]]
       /\ M.scope = c /\ M.stack_depth = L.stack_depth /\ M.scopes = [L.scopes EXCEPT ![c] = t]
  BY <1>4, <1>9 DEF Frames, c
<1>11. /\ DOMAIN M.scopes = DOMAIN L.scopes /\ M.scopes[c] = t
       /\ \A r \in DOMAIN L.scopes \ {c} : M.scopes[r] = L.scopes[r]
  BY <1>5, <1>10
<1>12. \A r \in DOMAIN L.scopes :
         /\ M.scopes[r].around = L.scopes[r].around /\ M.scopes[r].up = L.scopes[r].up
         /\ M.scopes[r].offset = L.scopes[r].offset
  BY <1>8, <1>11
<1>13. Frames(M)
  <2>1. M.scopes \in [DOMAIN M.scopes -> ScopeRecords]
    BY <1>4, <1>5, <1>8, <1>10 DEF Frames
  <2> QED
    BY <1>4, <1>5, <1>10, <1>11, <2>1 DEF Frames
<1>14. Chained(M, k + 1)
  <2>1. 0 \in DOMAIN L.scopes
    BY <1>4 DEF Chained
  <2>2. DOMAIN M.scopes \subseteq 0 .. k + 1
    BY <1>1, <1>4, <1>11 DEF Chained
  <2> QED
    BY <1>4, <1>11, <1>12, <2>1, <2>2 DEF Chained
<1>15. Stacked(M, k + 1)
  <2>1. \A r \in DOMAIN L.scopes \ {c} : End(M.scopes[r]) = End(L.scopes[r])
    BY <1>11
  <2>2. M.scopes[M.scope].around = s.around /\ c \in s.around /\ s.around \subseteq DOMAIN L.scopes
        /\ s.around \subseteq 0 .. c
    BY <1>4, <1>5, <1>10, <1>12 DEF Chained
  <2>3. ASSUME NEW p \in s.around, NEW q \in s.around, p < q
        PROVE  End(M.scopes[p]) <= M.scopes[q].offset
    <3>1. p # c
      BY <2>2, <2>3
    <3> QED
      BY <1>4, <1>12, <2>1, <2>2, <2>3, <3>1 DEF Stacked, c
  <2>4. \A r \in DOMAIN L.scopes \ s.around : End(M.scopes[r]) <= M.stack_depth
    BY <1>4, <1>10, <2>1, <2>2 DEF Stacked, c
  <2>5. 1 \in DOMAIN M.scopes /\ End(M.scopes[0]) <= M.scopes[1].offset
    BY <1>2, <1>4, <1>11, <1>12, <2>1 DEF Stacked, Chained
  <2> QED
    BY <1>11, <2>2, <2>3, <2>4, <2>5 DEF Stacked
<1>16. AsDeep(M, k + 1, o)
  BY <1>3, <1>4, <1>10, <1>11, <1>12 DEF AsDeep, c
<1>17. \A r \in DOMAIN M.scopes : InLine(M.scopes[r], k + 1)
  <2> SUFFICES ASSUME NEW r \in DOMAIN L.scopes PROVE InLine(M.scopes[r], k + 1)
    BY <1>11
  <2>1. CASE r = c
    BY <1>8, <1>11, <2>1
  <2>2. CASE r # c
    <3>1. L.scopes[r] \in ScopeRecords /\ InLine(L.scopes[r], k)
      BY <1>4 DEF LaidOut, Frames
    <3>2. InLine(L.scopes[r], k + 1)
      BY <1>1, <3>1, InLineLater
    <3> QED
      BY <1>11, <2>2, <3>2
  <2> QED
    BY <2>1, <2>2
<1>18. Extends(L, M, k)
  BY <1>8, <1>11, <1>12 DEF Extends
<1> QED
  BY <1>13, <1>14, <1>15, <1>16, <1>17, <1>18 DEF LaidOut

(* A scope starts (IR_SCOPE_BEGIN).                                              *)
LEMMA LayOutBegun ==
  ASSUME NEW o, WellFormed(o), NEW k \in 0 .. Len(o) - 1, NEW L, LaidOut(L, k, o),
         o[k + 1].op = "SCOPE_BEGIN", NEW M, M = LayOut(L, k + 1, o[k + 1])
  PROVE  LaidOut(M, k + 1, o) /\ Extends(L, M, k)
<1> DEFINE c == L.scope
           s == L.scopes[c]
<1>1. Len(o) \in Nat /\ k \in Nat /\ k + 1 \in 1 .. Len(o)
  BY DEF WellFormed
<1>2. Frames(L) /\ Chained(L, k) /\ Stacked(L, k) /\ AsDeep(L, k, o)
  BY DEF LaidOut
<1>3. c \in DOMAIN L.scopes /\ s \in ScopeRecords
  BY <1>2 DEF Frames
<1>4. s.offset \in Nat /\ s.depth \in Nat /\ s.around \in SUBSET Nat /\ End(s) \in Nat
  BY <1>3, VariablesTyped DEF End
<1>5. Nesting(o)[k + 1] = Nesting(o)[c] + 1 /\ Nesting(o)[k + 1] > 0
  <2>1. Nesting(o)[k + 1] = Nesting(o)[k] + 1 /\ Nesting(o)[0] = 0
    BY <1>1, NestingComputed
  <2>2. Nesting(o)[c] = Nesting(o)[k]
    BY <1>2 DEF AsDeep
  <2>3. Nesting(o)[k] \in Int
    BY <1>1, NestingInt
  <2>4. k > 0 => Nesting(o)[k] > 0
    BY InABlock
  <2> QED
    BY <1>1, <2>1, <2>2, <2>3, <2>4
<1>6. PICK r : r = [up |-> c, around |-> s.around \cup {k + 1}, offset |-> End(s), depth |-> 0,
                    variables |-> <<>>]
  OBVIOUS
<1>7. r \in ScopeRecords /\ InLine(r, k + 1) /\ End(r) = End(s)
  <2>1. c \in Int
    BY <1>2, <1>3 DEF Chained
  <2>2. <<>> \in Seq(VariableRecords) /\ DOMAIN <<>> = {}
    OBVIOUS
  <2>3. s.around \cup {k + 1} \in SUBSET Nat
    BY <1>1, <1>4
  <2>4. r.variables = <<>> /\ r.offset = End(s) /\ r.depth = 0
    BY <1>6
  <2>5. End(r) = End(s)
    BY <1>4, <2>4 DEF End
  <2> QED
    BY <1>4, <1>6, <2>1, <2>2, <2>3, <2>4, <2>5 DEF ScopeRecords, InLine
<1>8. M = [L EXCEPT !.scope = k + 1,
                    !.scopes = [q \in DOMAIN L.scopes \cup {k + 1} |->
                                  IF q = k + 1 THEN r ELSE L.scopes[q]]]
  BY <1>6 DEF LayOut, BeginScope, Nested, NewScope, End
<1> HIDE DEF c
<1>9. /\ M.scope = k + 1 /\ M.stack_depth = L.stack_depth
      /\ M.scopes = [q \in DOMAIN L.scopes \cup {k + 1} |->
                       IF q = k + 1 THEN r ELSE L.scopes[q]]
      /\ M = [scope |-> M.scope, stack_depth |-> M.stack_depth, scopes |-> M.scopes]
  BY <1>2, <1>8 DEF Frames
<1>10. DOMAIN L.scopes \subseteq 0 .. k /\ k + 1 \notin DOMAIN L.scopes
  BY <1>1, <1>2 DEF Chained
<1>11. /\ DOMAIN M.scopes = DOMAIN L.scopes \cup {k + 1} /\ M.scopes[k + 1] = r
       /\ \A q \in DOMAIN L.scopes : M.scopes[q] = L.scopes[q]
  BY <1>9, <1>10
<1>12. r.up = c /\ r.around = s.around \cup {k + 1} /\ r.offset = End(s)
  BY <1>6
<1>13. /\ c \in s.around /\ s.around \subseteq DOMAIN L.scopes /\ s.around \subseteq 0 .. c
       /\ c \in Nat /\ c <= k
  BY <1>1, <1>2, <1>3, <1>10 DEF Chained
<1>14. Frames(M)
  <2>1. M.scopes \in [DOMAIN M.scopes -> ScopeRecords]
    BY <1>2, <1>7, <1>9 DEF Frames
  <2> QED
    BY <1>2, <1>9, <1>11, <2>1 DEF Frames
<1>15. Chained(M, k + 1)
  <2>1. /\ 0 \in DOMAIN M.scopes /\ DOMAIN M.scopes \subseteq 0 .. k + 1
        /\ M.scopes[0].around = {0} /\ M.scopes[0].offset = 0
    BY <1>1, <1>2, <1>10, <1>11 DEF Chained
  <2>2. ASSUME NEW q \in DOMAIN L.scopes
        PROVE  /\ q \in M.scopes[q].around /\ M.scopes[q].around \subseteq 0 .. q
               /\ M.scopes[q].around \subseteq DOMAIN M.scopes
    BY <1>2, <1>11 DEF Chained
  <2>3. /\ k + 1 \in r.around /\ r.around \subseteq 0 .. k + 1
        /\ r.around \subseteq DOMAIN M.scopes
    BY <1>1, <1>11, <1>12, <1>13
  <2>4. ASSUME NEW q \in DOMAIN L.scopes \ {0}
        PROVE  /\ M.scopes[q].up \in DOMAIN M.scopes /\ M.scopes[q].up < q
               /\ M.scopes[q].around = M.scopes[M.scopes[q].up].around \cup {q}
    BY <1>2, <1>11 DEF Chained
  <2>5. r.up \in DOMAIN M.scopes /\ r.up < k + 1 /\ r.around = M.scopes[r.up].around \cup {k + 1}
    BY <1>1, <1>3, <1>11, <1>12, <1>13
  <2> QED
    BY <1>11, <2>1, <2>2, <2>3, <2>4, <2>5 DEF Chained
<1>16. Stacked(M, k + 1)
  <2>1. M.scopes[M.scope].around = s.around \cup {k + 1}
    BY <1>9, <1>11, <1>12
  <2>2. \A p \in s.around : M.scopes[p] = L.scopes[p]
    BY <1>11, <1>13
  <2>3. ASSUME NEW p \in s.around, NEW q \in s.around, p < q
        PROVE  End(M.scopes[p]) <= M.scopes[q].offset
    BY <1>2, <2>2, <2>3 DEF Stacked, c
  <2>4. ASSUME NEW p \in s.around PROVE End(M.scopes[p]) <= M.scopes[k + 1].offset
    <3>1. CASE p = c
      BY <1>4, <1>11, <1>12, <2>2, <3>1
    <3>2. CASE p # c
      <4>1. End(L.scopes[p]) <= s.offset
        BY <1>2, <1>13, <3>2 DEF Stacked, c
      <4>2. End(L.scopes[p]) \in Nat
        <5>1. L.scopes[p] \in ScopeRecords
          BY <1>2, <1>13 DEF Frames
        <5> QED
          BY <5>1, VariablesTyped DEF End
      <4>3. End(L.scopes[p]) <= End(s)
        BY <1>4, <4>1, <4>2 DEF End
      <4> QED
        BY <1>11, <1>12, <2>2, <4>3
    <3> QED
      BY <3>1, <3>2
  <2>5. \A p, q \in s.around \cup {k + 1} : p < q => End(M.scopes[p]) <= M.scopes[q].offset
    <3>1. \A p \in s.around \cup {k + 1} : p \in 0 .. k + 1 /\ ~ (k + 1 < p)
      BY <1>1, <1>13
    <3>2. ~ (k + 1 < k + 1)
      BY <1>1
    <3> QED
      BY <2>3, <2>4, <3>1, <3>2
  <2>6. \A q \in DOMAIN M.scopes \ (s.around \cup {k + 1}) : End(M.scopes[q]) <= M.stack_depth
    BY <1>2, <1>9, <1>11 DEF Stacked, c
  <2>7. 1 \in DOMAIN M.scopes /\ End(M.scopes[0]) <= M.scopes[1].offset
    <3>1. CASE k = 0
      <4>1. c = 0 /\ k + 1 = 1
        BY <1>13, <3>1
      <4>2. M.scopes[0] = s
        BY <1>3, <1>11, <4>1
      <4> QED
        BY <1>4, <1>11, <1>12, <4>1, <4>2
    <3>2. CASE k > 0
      BY <1>2, <1>11, <3>2 DEF Stacked, Chained
    <3> QED
      BY <1>1, <3>1, <3>2
  <2> QED
    BY <2>1, <2>5, <2>6, <2>7 DEF Stacked
<1>17. AsDeep(M, k + 1, o)
  <2>1. Nesting(o)[k + 1] > 0 /\ Nesting(o)[k + 1] = Nesting(o)[M.scopes[k + 1].up] + 1
    BY <1>5, <1>11, <1>12
  <2>2. \A q \in DOMAIN L.scopes \ {0} :
          Nesting(o)[q] > 0 /\ Nesting(o)[q] = Nesting(o)[M.scopes[q].up] + 1
    BY <1>2, <1>11 DEF AsDeep
  <2> QED
    BY <1>9, <1>11, <2>1, <2>2 DEF AsDeep
<1>18. \A q \in DOMAIN M.scopes : InLine(M.scopes[q], k + 1)
  <2> SUFFICES ASSUME NEW q \in DOMAIN L.scopes PROVE InLine(M.scopes[q], k + 1)
    BY <1>7, <1>11
  <2>1. L.scopes[q] \in ScopeRecords /\ InLine(L.scopes[q], k)
    BY <1>2 DEF LaidOut, Frames
  <2>2. InLine(L.scopes[q], k + 1)
    BY <1>1, <2>1, InLineLater
  <2> QED
    BY <1>11, <2>2
<1>19. Extends(L, M, k)
  BY <1>11 DEF Extends
<1> QED
  BY <1>14, <1>15, <1>16, <1>17, <1>18, <1>19 DEF LaidOut

(* A scope ends (IR_SCOPE_END).                                                  *)
LEMMA LayOutEnded ==
  ASSUME NEW o, WellFormed(o), NEW k \in 0 .. Len(o) - 1, NEW L, LaidOut(L, k, o),
         o[k + 1].op = "SCOPE_END", NEW M, M = LayOut(L, k + 1, o[k + 1])
  PROVE  LaidOut(M, k + 1, o) /\ Extends(L, M, k)
<1> DEFINE c == L.scope
           s == L.scopes[c]
           e == IF End(s) > L.stack_depth THEN End(s) ELSE L.stack_depth
<1>1. Len(o) \in Nat /\ k \in Nat /\ k + 1 \in 1 .. Len(o)
  BY DEF WellFormed
<1>2. Frames(L) /\ Chained(L, k) /\ Stacked(L, k) /\ AsDeep(L, k, o)
  BY DEF LaidOut
<1>3. c \in DOMAIN L.scopes /\ s \in ScopeRecords /\ L.stack_depth \in Nat
  BY <1>2 DEF Frames
<1>4. k > 0 /\ c # 0
  BY <1>1, InABlock
<1>5. /\ s.up \in DOMAIN L.scopes /\ s.up < c
      /\ s.around = L.scopes[s.up].around \cup {c}
      /\ L.scopes[s.up].around \subseteq 0 .. s.up /\ s.up \in Nat /\ c \in Nat
      /\ L.scopes[s.up].around \subseteq DOMAIN L.scopes
  BY <1>2, <1>3, <1>4 DEF Chained
<1>6. c \notin L.scopes[s.up].around
  BY <1>5
<1>7. e \in Nat /\ End(s) <= e /\ L.stack_depth <= e
  BY <1>3, VariablesTyped DEF End
<1>8. M = [L EXCEPT !.scope = s.up, !.stack_depth = e]
  BY DEF LayOut, EndScope, End
<1> HIDE DEF c, e
<1>9. /\ M.scope = s.up /\ M.stack_depth = e /\ M.scopes = L.scopes
      /\ M = [scope |-> M.scope, stack_depth |-> M.stack_depth, scopes |-> M.scopes]
  BY <1>2, <1>8 DEF Frames
<1>10. Frames(M)
  BY <1>2, <1>5, <1>7, <1>9 DEF Frames
<1>11. Chained(M, k + 1)
  <2>1. DOMAIN L.scopes \subseteq 0 .. k + 1
    BY <1>1, <1>2 DEF Chained
  <2> QED
    BY <1>2, <1>9, <2>1 DEF Chained
<1>12. Stacked(M, k + 1)
  <2>1. ASSUME NEW q \in DOMAIN L.scopes \ L.scopes[s.up].around
        PROVE  End(L.scopes[q]) <= e
    <3>1. CASE q = c
      BY <1>7, <3>1
    <3>2. CASE q # c
      <4>1. End(L.scopes[q]) <= L.stack_depth
        BY <1>2, <1>5, <3>2 DEF Stacked, c
      <4>2. L.scopes[q] \in ScopeRecords
        BY <1>2 DEF Frames
      <4>3. End(L.scopes[q]) \in Nat
        BY <4>2, VariablesTyped DEF End
      <4> QED
        BY <1>3, <1>7, <4>1, <4>3
    <3> QED
      BY <3>1, <3>2
  <2> QED
    BY <1>2, <1>4, <1>5, <1>9, <2>1 DEF Stacked, c
<1>13. AsDeep(M, k + 1, o)
  <2>1. Nesting(o)[k + 1] = Nesting(o)[k] - 1
    BY <1>1, NestingComputed
  <2>2. Nesting(o)[c] = Nesting(o)[k] /\ Nesting(o)[c] = Nesting(o)[s.up] + 1
    BY <1>2, <1>3, <1>4 DEF AsDeep, c
  <2>3. Nesting(o)[s.up] \in Int
    BY NestingInt, <1>1, <1>2, <1>5 DEF Chained
  <2>4. Nesting(o)[s.up] = Nesting(o)[k + 1]
    BY <2>1, <2>2, <2>3
  <2> QED
    BY <1>2, <1>9, <2>4 DEF AsDeep
<1>14. \A q \in DOMAIN M.scopes : InLine(M.scopes[q], k + 1)
  <2> SUFFICES ASSUME NEW q \in DOMAIN L.scopes PROVE InLine(L.scopes[q], k + 1)
    BY <1>9
  <2>1. L.scopes[q] \in ScopeRecords /\ InLine(L.scopes[q], k)
    BY <1>2 DEF LaidOut, Frames
  <2> QED
    BY <1>1, <2>1, InLineLater
<1>15. Extends(L, M, k)
  BY <1>9 DEF Extends
<1> QED
  BY <1>10, <1>11, <1>12, <1>13, <1>14, <1>15 DEF LaidOut

(* Each operation keeps the layout in order.                                      *)
LEMMA LayOutKept ==
  ASSUME NEW o, WellFormed(o), NEW k \in 0 .. Len(o) - 1, NEW L, LaidOut(L, k, o),
         NEW M, M = LayOut(L, k + 1, o[k + 1])
  PROVE  LaidOut(M, k + 1, o) /\ Extends(L, M, k)
<1>1. CASE o[k + 1].op = "DECL_VAR"
  BY <1>1, LayOutDeclared
<1>2. CASE o[k + 1].op = "SCOPE_BEGIN"
  BY <1>2, LayOutBegun
<1>3. CASE o[k + 1].op = "SCOPE_END"
  BY <1>3, LayOutEnded
<1>4. CASE o[k + 1].op \notin {"DECL_VAR", "SCOPE_BEGIN", "SCOPE_END"}
  <2>1. M = L
    BY <1>4 DEF LayOut
  <2> QED
    BY <1>4, <2>1, LayOutOther
<1> QED
  BY <1>1, <1>2, <1>3, <1>4

(* So the layout is in order all along, and only grows.                           *)
LEMMA LayoutsKept ==
  ASSUME NEW function, Parameters(function.parameters), NEW o, WellFormed(o)
  PROVE  LET f == Layouts(function, o)
         IN /\ \A k \in 0 .. Len(o) : LaidOut(f[k], k, o)
            /\ \A k \in 1 .. Len(o) : Extends(f[k - 1], f[k], k - 1)
<1>1. Len(o) \in Nat
  BY DEF WellFormed
<1>2. PICK f : /\ f = Layouts(function, o) /\ LaidOut(f[0], 0, o)
               /\ \A k \in 1 .. Len(o) : f[k] = LayOut(f[k - 1], k, o[k])
  BY <1>1, LayoutsComputed, LayoutStart
<1>3. ASSUME NEW k \in 0 .. Len(o) - 1, LaidOut(f[k], k, o)
      PROVE  LaidOut(f[k + 1], k + 1, o) /\ Extends(f[k], f[k + 1], k)
  <2>1. k + 1 \in 1 .. Len(o) /\ (k + 1) - 1 = k
    BY <1>1
  <2>2. f[k + 1] = LayOut(f[k], k + 1, o[k + 1])
    BY <1>2, <2>1
  <2> QED
    BY <1>3, <2>2, LayOutKept
<1> DEFINE S == {k \in Nat : k <= Len(o) => LaidOut(f[k], k, o)}
<1>4. 0 \in S
  BY <1>2
<1>5. ASSUME NEW k \in S PROVE k + 1 \in S
  BY <1>1, <1>3
<1>6. S \in SUBSET Nat
  OBVIOUS
<1>7. S = Nat
  <2> HIDE DEF S
  <2> QED
    BY <1>4, <1>5, <1>6, SetInduction
<1>8. \A k \in 0 .. Len(o) : LaidOut(f[k], k, o)
  BY <1>1, <1>7
<1>9. ASSUME NEW k \in 1 .. Len(o) PROVE Extends(f[k - 1], f[k], k - 1)
  <2>1. k - 1 \in 0 .. Len(o) - 1 /\ k - 1 \in 0 .. Len(o) /\ (k - 1) + 1 = k
    BY <1>1
  <2> QED
    BY <1>3, <1>8, <2>1
<1> QED
  BY <1>2, <1>8, <1>9

(* What was laid out early stays where it is for good.                            *)
LEMMA ExtendsFurther ==
  ASSUME NEW o, NEW L, NEW M, NEW N, NEW k \in Nat, NEW m \in Nat, k <= m,
         Extends(L, M, k), Extends(M, N, m), LaidOut(N, m + 1, o)
  PROVE  Extends(L, N, k)
<1>1. /\ DOMAIN L.scopes \subseteq DOMAIN M.scopes /\ DOMAIN M.scopes \subseteq DOMAIN N.scopes
  BY DEF Extends
<1>2. ASSUME NEW s \in DOMAIN L.scopes
      PROVE  /\ N.scopes[s].around = L.scopes[s].around
             /\ DOMAIN L.scopes[s].variables \subseteq DOMAIN N.scopes[s].variables
             /\ \A i \in DOMAIN L.scopes[s].variables :
                  N.scopes[s].variables[i] = L.scopes[s].variables[i]
  BY <1>1 DEF Extends
<1>3. ASSUME NEW s \in DOMAIN L.scopes, NEW i \in DOMAIN N.scopes[s].variables
      PROVE  i \in DOMAIN L.scopes[s].variables \/ N.scopes[s].variables[i].at > k
  <2>1. CASE i \in DOMAIN M.scopes[s].variables
    <3>1. N.scopes[s].variables[i] = M.scopes[s].variables[i]
      BY <1>1, <2>1 DEF Extends
    <3>2. i \in DOMAIN L.scopes[s].variables \/ M.scopes[s].variables[i].at > k
      BY <2>1 DEF Extends
    <3> QED
      BY <3>1, <3>2
  <2>2. CASE N.scopes[s].variables[i].at > m
    <3>1. N.scopes[s] \in ScopeRecords
      BY <1>1 DEF LaidOut, Frames
    <3>2. N.scopes[s].variables[i].at \in Nat
      BY <3>1, VariablesTyped
    <3> QED
      BY <2>2, <3>2
  <2>3. i \in DOMAIN M.scopes[s].variables \/ N.scopes[s].variables[i].at > m
    BY <1>1 DEF Extends
  <2> QED
    BY <2>1, <2>2, <2>3
<1> QED
  BY <1>1, <1>2, <1>3 DEF Extends

(* The frame of a function extends the layout at each of its operations.           *)
LEMMA FrameExtends ==
  ASSUME NEW function, Parameters(function.parameters), NEW o, WellFormed(o),
         NEW k \in 0 .. Len(o)
  PROVE  Extends(Layouts(function, o)[k], Layouts(function, o)[Len(o)], k)
<1>1. Len(o) \in Nat
  BY DEF WellFormed
<1>2. PICK f : /\ f = Layouts(function, o)
               /\ \A j \in 0 .. Len(o) : LaidOut(f[j], j, o)
               /\ \A j \in 1 .. Len(o) : Extends(f[j - 1], f[j], j - 1)
  BY LayoutsKept
<1> DEFINE S == {n \in Nat : k + n <= Len(o) => Extends(f[k], f[k + n], k)}
<1>3. 0 \in S
  <2>1. Extends(f[k], f[k], k)
    BY DEF Extends
  <2>2. k + 0 = k
    OBVIOUS
  <2> QED
    BY <2>1, <2>2
<1>4. ASSUME NEW n \in S PROVE n + 1 \in S
  <2> SUFFICES ASSUME k + (n + 1) <= Len(o) PROVE Extends(f[k], f[k + (n + 1)], k)
    OBVIOUS
  <2>1. PICK m \in Nat : m = k + n
    OBVIOUS
  <2>2. /\ k \in Nat /\ k <= m /\ m + 1 \in 1 .. Len(o) /\ m + 1 \in 0 .. Len(o)
        /\ (m + 1) - 1 = m /\ k + (n + 1) = m + 1
    BY <1>1, <2>1
  <2>3. Extends(f[k], f[m], k)
    BY <1>1, <2>1
  <2>4. Extends(f[m], f[m + 1], m) /\ LaidOut(f[m + 1], m + 1, o)
    BY <1>2, <2>2
  <2>5. Extends(f[k], f[m + 1], k)
    BY <2>2, <2>3, <2>4, ExtendsFurther
  <2> QED
    BY <2>2, <2>5
<1>5. S \in SUBSET Nat
  OBVIOUS
<1>6. S = Nat
  <2> HIDE DEF S
  <2> QED
    BY <1>3, <1>4, <1>5, SetInduction
<1>7. Extends(f[k], f[k + (Len(o) - k)], k)
  <2>1. Len(o) - k \in Nat /\ k + (Len(o) - k) <= Len(o)
    BY <1>1
  <2>2. \A n \in Nat : k + n <= Len(o) => Extends(f[k], f[k + n], k)
    BY <1>6
  <2> QED
    BY <2>1, <2>2
<1>8. k + (Len(o) - k) = Len(o)
  BY <1>1
<1> QED
  BY <1>2, <1>7, <1>8

(* At the end every scope has ended, and lies in the frame.                        *)
LEMMA FrameHoldsAll ==
  ASSUME NEW o, WellFormed(o), NEW F, LaidOut(F, Len(o), o)
  PROVE  \A s \in DOMAIN F.scopes : End(F.scopes[s]) <= F.stack_depth
<1>1. Len(o) \in Nat \ {0} /\ DOMAIN o = 1 .. Len(o)
  BY DEF WellFormed
<1>2. ~ (Nesting(o)[Len(o)] > 0)
  BY <1>1 DEF WellFormed
<1>3. F.scope = 0
  BY <1>2 DEF LaidOut, Frames, AsDeep
<1>4. \A s \in DOMAIN F.scopes \ {0} : End(F.scopes[s]) <= F.stack_depth
  BY <1>3 DEF LaidOut, Stacked, Chained
<1>5. End(F.scopes[0]) <= F.stack_depth
  <2>1. 1 \in DOMAIN F.scopes /\ End(F.scopes[0]) <= F.scopes[1].offset
    BY <1>1 DEF LaidOut, Stacked
  <2>2. F.scopes[0] \in ScopeRecords /\ F.scopes[1] \in ScopeRecords /\ F.stack_depth \in Nat
    BY <2>1 DEF LaidOut, Frames, Chained
  <2>3. End(F.scopes[1]) <= F.stack_depth
    BY <1>4, <2>1
  <2>4. /\ F.scopes[1].offset \in Nat /\ F.scopes[1].depth \in Nat
        /\ F.scopes[0].offset \in Nat /\ F.scopes[0].depth \in Nat
    BY <2>2, VariablesTyped
  <2> QED
    BY <2>1, <2>2, <2>3, <2>4 DEF End
<1> QED
  BY <1>4, <1>5

(* Two variables that are visible where the layout stands are apart.               *)
LEMMA VisibleApart ==
  ASSUME NEW o, NEW k \in Nat, NEW L, LaidOut(L, k, o),
         NEW s \in L.scopes[L.scope].around, NEW t \in L.scopes[L.scope].around,
         NEW i \in DOMAIN L.scopes[s].variables, NEW j \in DOMAIN L.scopes[t].variables,
         s < t \/ (s = t /\ i < j)
  PROVE  L.scopes[s].variables[i].offset + SizeOf(L.scopes[t].variables[j].type)
           <= L.scopes[t].variables[j].offset
<1>1. /\ s \in DOMAIN L.scopes /\ L.scopes[s] \in ScopeRecords /\ InLine(L.scopes[s], k)
      /\ t \in DOMAIN L.scopes /\ L.scopes[t] \in ScopeRecords /\ InLine(L.scopes[t], k)
  BY DEF LaidOut, Frames, Chained
<1>2. CASE s = t /\ i < j
  BY <1>1, <1>2 DEF InLine
<1>3. CASE s < t
  <2>1. End(L.scopes[s]) <= L.scopes[t].offset
    BY <1>3 DEF LaidOut, Stacked
  <2>2. L.scopes[s].variables[i].offset <= End(L.scopes[s])
    BY <1>1 DEF InLine
  <2>3. L.scopes[t].offset + SizeOf(L.scopes[t].variables[j].type)
          <= L.scopes[t].variables[j].offset
    BY <1>1 DEF InLine
  <2>4. /\ L.scopes[s].offset \in Nat /\ L.scopes[s].depth \in Nat /\ L.scopes[t].offset \in Nat
        /\ L.scopes[s].variables[i].offset \in Nat /\ L.scopes[t].variables[j].offset \in Nat
        /\ SizeOf(L.scopes[t].variables[j].type) \in Nat
    BY <1>1, VariablesTyped
  <2>5. End(L.scopes[s]) \in Nat
    BY <2>4 DEF End
  <2>6. ASSUME NEW a \in Nat, NEW b \in Nat, NEW c \in Nat, NEW d \in Nat, NEW e \in Nat,
               a <= b, b <= c, c + d <= e
        PROVE  a + d <= e
    BY <2>6
  <2> QED
    BY <2>1, <2>2, <2>3, <2>4, <2>5, <2>6
<1> QED
  BY <1>2, <1>3

(* A function that is generated has parameters and well-formed code.               *)
LEMMA CompiledFits ==
  ASSUME source \in DOMAIN Sources, NEW fn \in Compiled
  PROVE  Parameters(program[fn].parameters) /\ WellFormed(Operations[source][fn])
BY SourcesAssumption DEF Compiled, program

(* Wherever the second pass is, the slots of the variables it can see are apart.    *)
LEMMA WalkingApart ==
  ASSUME source \in DOMAIN Sources, walk # <<>>, Walking
  PROVE  SlotsApart
<1> DEFINE function == program[walk.fn]
<1>1. PICK o : o = walk.ops /\ WellFormed(o)
  BY CompiledFits DEF Walking
<1>2. Len(o) \in Nat /\ walk.at \in 1 .. Len(o) + 1 /\ Parameters(function.parameters)
  BY <1>1, CompiledFits DEF Walking, WellFormed
<1>3. PICK k \in 0 .. Len(o) : k = walk.at - 1 /\ walk.at = k + 1
  BY <1>2
<1>4. PICK L, F : L = Layouts(function, o)[k] /\ F = Layouts(function, o)[Len(o)]
  OBVIOUS
<1>5. walk.frame = F /\ walk.scope = L.scope
  BY <1>1, <1>3, <1>4 DEF Walking
<1> HIDE DEF function
<1>6. /\ LaidOut(L, k, o) /\ LaidOut(F, Len(o), o) /\ Extends(L, F, k)
      /\ \A s \in DOMAIN F.scopes : End(F.scopes[s]) <= F.stack_depth
  BY <1>1, <1>2, <1>4, LayoutsKept, FrameExtends, FrameHoldsAll
<1> DEFINE around == L.scopes[L.scope].around
           scopes == F.scopes
           seen == {p \in Visible(scopes, walk.scope) : VariableAt(scopes, p).at < walk.at}
           Slot(v) == F.stack_depth - v.offset .. F.stack_depth - v.offset + SizeOf(v.type) - 1
<1>7. /\ L.scope \in DOMAIN L.scopes /\ around \subseteq DOMAIN L.scopes
      /\ DOMAIN L.scopes \subseteq DOMAIN F.scopes /\ scopes[L.scope].around = around
      /\ around \in SUBSET Nat
  <2>1. L.scope \in DOMAIN L.scopes /\ L.scopes[L.scope] \in ScopeRecords
    BY <1>6 DEF LaidOut, Frames
  <2> QED
    BY <1>6, <2>1, VariablesTyped DEF LaidOut, Chained, Extends
<1>8. ASSUME NEW p \in seen
      PROVE  /\ p = <<p[1], p[2]>> /\ p[1] \in around
             /\ p[2] \in DOMAIN L.scopes[p[1]].variables
             /\ p[2] \in DOMAIN scopes[p[1]].variables
             /\ VariableAt(scopes, p) = L.scopes[p[1]].variables[p[2]]
             /\ VariableAt(scopes, p) = scopes[p[1]].variables[p[2]]
  <2>1. /\ p = <<p[1], p[2]>> /\ p[1] \in around /\ p[2] \in DOMAIN scopes[p[1]].variables
        /\ VariableAt(scopes, p) = scopes[p[1]].variables[p[2]]
    BY <1>5, <1>7 DEF Visible, VariableAt
  <2>2. ~ (scopes[p[1]].variables[p[2]].at > k)
    <3>1. scopes[p[1]].variables[p[2]].at < k + 1
      BY <1>3, <2>1
    <3>2. scopes[p[1]] \in ScopeRecords
      BY <1>6, <1>7, <2>1 DEF LaidOut, Frames
    <3>3. scopes[p[1]].variables[p[2]].at \in Nat
      BY <2>1, <3>2, VariablesTyped
    <3> QED
      BY <3>1, <3>3
  <2> QED
    BY <1>6, <1>7, <2>1, <2>2 DEF Extends
<1> DEFINE V(p) == VariableAt(scopes, p)
<1>9. ASSUME NEW p \in seen
      PROVE  /\ V(p).offset \in Nat /\ SizeOf(V(p).type) \in Nat \ {0}
             /\ SizeOf(V(p).type) <= V(p).offset /\ V(p).offset <= F.stack_depth
  <2>1. PICK s : s = scopes[p[1]]
    OBVIOUS
  <2>2. /\ s \in ScopeRecords /\ InLine(s, Len(o)) /\ End(s) <= F.stack_depth
        /\ F.stack_depth \in Nat
    BY <1>6, <1>7, <1>8, <2>1 DEF LaidOut, Frames
  <2>3. PICK v : v = V(p) /\ v = s.variables[p[2]] /\ p[2] \in DOMAIN s.variables
    BY <1>8, <2>1
  <2>4. /\ s.offset \in Nat /\ s.depth \in Nat /\ v.offset \in Nat
        /\ SizeOf(v.type) \in Nat \ {0}
    BY <2>2, <2>3, VariablesTyped
  <2>5. s.offset + SizeOf(v.type) <= v.offset /\ v.offset <= s.offset + s.depth
        /\ s.offset + s.depth <= F.stack_depth
    BY <2>2, <2>3 DEF InLine, End
  <2> HIDE DEF V
  <2>6. SizeOf(v.type) <= v.offset /\ v.offset <= F.stack_depth
    BY <2>2, <2>4, <2>5
  <2> QED
    BY <2>3, <2>4, <2>6
<1>10. F.stack_depth \in Nat
  BY <1>6 DEF LaidOut, Frames
<1>11. ASSUME NEW p \in seen, NEW q \in seen, p # q
       PROVE  \/ V(p).offset + SizeOf(V(q).type) <= V(q).offset
              \/ V(q).offset + SizeOf(V(p).type) <= V(p).offset
  <2>1. /\ p = <<p[1], p[2]>> /\ q = <<q[1], q[2]>> /\ p[1] \in Nat /\ q[1] \in Nat
        /\ L.scopes[p[1]] \in ScopeRecords /\ L.scopes[q[1]] \in ScopeRecords
    BY <1>6, <1>7, <1>8, <1>11 DEF LaidOut, Frames
  <2>2. p[2] \in Nat /\ q[2] \in Nat
    <3>1. \A r \in ScopeRecords : DOMAIN r.variables \subseteq Nat
      BY VariablesTyped
    <3> QED
      BY <1>8, <1>11, <2>1, <3>1
  <2>3. PICK a, b, i, j : a = p[1] /\ b = q[1] /\ i = p[2] /\ j = q[2]
    OBVIOUS
  <2>4. /\ k \in Nat /\ LaidOut(L, k, o)
        /\ a \in L.scopes[L.scope].around /\ i \in DOMAIN L.scopes[a].variables
        /\ b \in L.scopes[L.scope].around /\ j \in DOMAIN L.scopes[b].variables
        /\ V(p) = L.scopes[a].variables[i] /\ V(q) = L.scopes[b].variables[j]
    BY <1>2, <1>6, <1>8, <1>11, <2>3
  <2>5. \/ p[1] < q[1] \/ (p[1] = q[1] /\ p[2] < q[2])
        \/ q[1] < p[1] \/ (q[1] = p[1] /\ q[2] < p[2])
    <3>1. p[1] # q[1] \/ p[2] # q[2]
      BY <1>11, <2>1
    <3> QED
      BY <2>1, <2>2, <3>1
  <2>6. CASE p[1] < q[1] \/ (p[1] = q[1] /\ p[2] < q[2])
    <3>1. L.scopes[a].variables[i].offset + SizeOf(L.scopes[b].variables[j].type)
            <= L.scopes[b].variables[j].offset
      BY <2>6, <2>3, <2>4, VisibleApart
    <3> QED
      BY <2>4, <3>1
  <2>7. CASE q[1] < p[1] \/ (q[1] = p[1] /\ q[2] < p[2])
    <3>1. L.scopes[b].variables[j].offset + SizeOf(L.scopes[a].variables[i].type)
            <= L.scopes[a].variables[i].offset
      BY <2>7, <2>3, <2>4, VisibleApart
    <3> QED
      BY <2>4, <3>1
  <2> QED
    BY <2>5, <2>6, <2>7
<1>12. ASSUME NEW d \in Nat, NEW a \in Nat, NEW b \in Nat, NEW m \in Nat, NEW n \in Nat,
              a + n <= b
       PROVE  (d - a .. d - a + m - 1) \cap (d - b .. d - b + n - 1) = {}
  BY <1>12
<1>13. ASSUME NEW p \in seen PROVE Slot(V(p)) \subseteq 0 .. F.stack_depth - 1
  <2> DEFINE a == V(p).offset
             m == SizeOf(V(p).type)
  <2>1. a \in Nat /\ m \in Nat /\ m <= a /\ a <= F.stack_depth
    BY <1>9
  <2> HIDE DEF a, m
  <2>2. (F.stack_depth - a .. F.stack_depth - a + m - 1) \subseteq 0 .. F.stack_depth - 1
    BY <1>10, <2>1
  <2> QED
    BY <2>2 DEF a, m
<1>14. ASSUME NEW p \in seen, NEW q \in seen, p # q
       PROVE  Slot(V(p)) \cap Slot(V(q)) = {}
  <2> DEFINE a == V(p).offset
             m == SizeOf(V(p).type)
             b == V(q).offset
             n == SizeOf(V(q).type)
             d == F.stack_depth
  <2>1. a \in Nat /\ m \in Nat /\ b \in Nat /\ n \in Nat /\ d \in Nat
    BY <1>9, <1>10, <1>14
  <2>2. a + n <= b \/ b + m <= a
    BY <1>11, <1>14
  <2> HIDE DEF a, m, b, n, d
  <2>3. (d - a .. d - a + m - 1) \cap (d - b .. d - b + n - 1) = {}
    BY <1>12, <2>1, <2>2
  <2> QED
    BY <2>3 DEF a, m, b, n, d
<1> HIDE DEF seen
<1>15. SlotsApart <=>
         /\ \A p \in seen : Slot(V(p)) \subseteq 0 .. F.stack_depth - 1
         /\ \A p, q \in seen : p # q => Slot(V(p)) \cap Slot(V(q)) = {}
  BY <1>5 DEF SlotsApart, seen
<1> QED
  BY <1>13, <1>14, <1>15

-----------------------------------------------------------------------------
(* The second pass: sequences whose members are not known to be of any set.      *)

(* Each is a sequence over a set that has them.                                  *)
LEMMA SequenceOver ==
  ASSUME NEW s, Sequence(s), NEW S, \A i \in 1 .. Len(s) : s[i] \in S
  PROVE  s \in Seq(S) /\ DOMAIN s = 1 .. Len(s)
<1>1. PICK n \in Nat : n = Len(s) /\ s = [i \in 1 .. n |-> s[i]]
  BY DEF Sequence
<1>2. s \in [1 .. n -> S]
  BY <1>1
<1>3. s \in Seq(S)
  BY <1>2, SeqDef
<1> QED
  BY <1>1, <1>3

(* One more in front.                                                           *)
LEMMA InFront ==
  ASSUME NEW s, Sequence(s), NEW l
  PROVE  LET t == <<l>> \o s
         IN /\ Sequence(t) /\ Len(t) = Len(s) + 1 /\ t[1] = l
            /\ DOMAIN s = 1 .. Len(s) /\ DOMAIN t = 1 .. Len(s) + 1
            /\ \A i \in 1 .. Len(s) : t[i + 1] = s[i]
<1>0. PICK t : t = <<l>> \o s
  OBVIOUS
<1>1. PICK n \in Nat : n = Len(s) /\ s = [i \in 1 .. n |-> s[i]]
  BY DEF Sequence
<1> DEFINE S == {s[i] : i \in 1 .. n} \cup {l}
<1>2. s \in Seq(S) /\ <<l>> \in Seq(S)
  <2>1. \A i \in 1 .. n : s[i] \in S
    OBVIOUS
  <2>2. l \in S
    OBVIOUS
  <2> HIDE DEF S
  <2>3. <<l>> \in Seq(S)
    BY <2>2
  <2> QED
    BY <1>1, <2>1, <2>3, SequenceOver
<1> HIDE DEF S
<1>3. t \in Seq(S) /\ Len(t) = 1 + n /\ t[1] = l /\ \A i \in 1 .. n : t[i + 1] = s[i]
  BY <1>0, <1>1, <1>2, ConcatProperties
<1>4. DOMAIN t = 1 .. n + 1 /\ DOMAIN s = 1 .. n
  BY <1>1, <1>2, <1>3, LenProperties
<1>5. t = [i \in 1 .. n + 1 |-> t[i]]
  BY <1>1, <1>3, <1>4
<1> QED
  BY <1>0, <1>1, <1>3, <1>4, <1>5 DEF Sequence

(* The first few taken off.                                                     *)
LEMMA TakenOff ==
  ASSUME NEW s, Sequence(s), NEW n \in 0 .. Len(s), NEW t, t = SubSeq(s, n + 1, Len(s))
  PROVE  /\ Sequence(t) /\ Len(t) = Len(s) - n
         /\ DOMAIN s = 1 .. Len(s) /\ DOMAIN t = 1 .. Len(s) - n
         /\ \A i \in 1 .. Len(s) - n : t[i] = s[i + n]
<1>1. PICK m \in Nat : m = Len(s) /\ s = [i \in 1 .. m |-> s[i]]
  BY DEF Sequence
<1> DEFINE S == {s[i] : i \in 1 .. m}
<1>2. s \in Seq(S)
  <2>1. \A i \in 1 .. m : s[i] \in S
    OBVIOUS
  <2> HIDE DEF S
  <2> QED
    BY <1>1, <2>1, SequenceOver
<1> HIDE DEF S
<1>3. /\ n + 1 \in Int /\ m \in Int /\ \A i \in n + 1 .. m : s[i] \in S
      /\ n \in Nat /\ n <= m
  BY <1>1, <1>2
<1>4. t \in Seq(S) /\ Len(t) = m - n /\ \A i \in 1 .. m - n : t[i] = s[n + i]
  <2>1. /\ t \in Seq(S) /\ Len(t) = IF n + 1 <= m THEN m - (n + 1) + 1 ELSE 0
        /\ \A i \in 1 .. m - (n + 1) + 1 : t[i] = s[n + 1 + i - 1]
    <3>1. PICK p \in Int : p = n + 1 /\ \A i \in p .. m : s[i] \in S
      BY <1>3
    <3>2. /\ SubSeq(s, p, m) \in Seq(S)
          /\ Len(SubSeq(s, p, m)) = IF p <= m THEN m - p + 1 ELSE 0
          /\ \A i \in 1 .. m - p + 1 : SubSeq(s, p, m)[i] = s[p + i - 1]
      BY <1>3, <3>1, SubSeqProperties
    <3>3. t = SubSeq(s, p, m)
      BY <1>1, <3>1
    <3> QED
      BY <3>1, <3>2, <3>3
  <2>2. Len(t) = m - n /\ m - (n + 1) + 1 = m - n
    BY <1>1, <1>3, <2>1
  <2>3. \A i \in 1 .. m - n : t[i] = s[n + 1 + i - 1] /\ n + 1 + i - 1 = n + i
    BY <1>3, <2>1, <2>2
  <2> QED
    BY <2>1, <2>2, <2>3
<1>5. DOMAIN t = 1 .. m - n /\ DOMAIN s = 1 .. m
  BY <1>1, <1>2, <1>4, LenProperties
<1>6. t = [i \in 1 .. m - n |-> t[i]] /\ m - n \in Nat
  BY <1>1, <1>4, <1>5
<1>7. \A i \in 1 .. m - n : t[i] = s[i + n]
  BY <1>1, <1>4
<1> QED
  BY <1>1, <1>4, <1>5, <1>6, <1>7 DEF Sequence

(* The first taken off.                                                         *)
LEMMA FirstTakenOff ==
  ASSUME NEW s, Sequence(s), s # <<>>, NEW t, t = Tail(s)
  PROVE  /\ Sequence(t) /\ Len(t) = Len(s) - 1 /\ Head(s) = s[1] /\ Len(s) >= 1
         /\ DOMAIN s = 1 .. Len(s) /\ DOMAIN t = 1 .. Len(s) - 1
         /\ \A i \in 1 .. Len(s) - 1 : t[i] = s[i + 1]
<1>1. PICK m \in Nat : m = Len(s) /\ s = [i \in 1 .. m |-> s[i]]
  BY DEF Sequence
<1> DEFINE S == {s[i] : i \in 1 .. m}
<1>2. s \in Seq(S)
  <2>1. \A i \in 1 .. m : s[i] \in S
    OBVIOUS
  <2> HIDE DEF S
  <2> QED
    BY <1>1, <2>1, SequenceOver
<1> HIDE DEF S
<1>3. /\ t \in Seq(S) /\ Len(t) = m - 1 /\ Head(s) = s[1] /\ m # 0
      /\ \A i \in 1 .. m - 1 : t[i] = s[i + 1]
  BY <1>1, <1>2, HeadTailProperties, EmptySeq
<1>4. DOMAIN t = 1 .. m - 1 /\ DOMAIN s = 1 .. m /\ m - 1 \in Nat
  BY <1>1, <1>2, <1>3, LenProperties
<1>5. t = [i \in 1 .. m - 1 |-> t[i]]
  BY <1>3, <1>4, LenProperties
<1> QED
  BY <1>1, <1>3, <1>4, <1>5 DEF Sequence

(* None.                                                                        *)
LEMMA NoneIsSequence ==
  Sequence(<<>>) /\ Len(<<>>) = 0 /\ DOMAIN <<>> = {}
BY DEF Sequence

-----------------------------------------------------------------------------
(* The second pass: what its helpers do to the places and registers.              *)

(* Code is added.                                                               *)
LEMMA Emitted ==
  ASSUME NEW g, Generation(g), NEW c, NEW h, h = Emit(g, c)
  PROVE  /\ Generation(h) /\ h.stack = g.stack /\ h.matches = g.matches
         /\ h.regs = g.regs /\ h.callee_saved = g.callee_saved
         /\ Sound(g) => Sound(h)
<1>1. h = [stack |-> g.stack, matches |-> g.matches, regs |-> g.regs,
           callee_saved |-> g.callee_saved, code |-> g.code \o c]
  BY DEF Generation, Emit
<1>2. /\ h.stack = g.stack /\ h.matches = g.matches
      /\ h.regs = g.regs /\ h.callee_saved = g.callee_saved
  BY <1>1
<1>3. Generation(h)
  BY <1>1 DEF Generation
<1>4. Sound(g) => Sound(h)
  BY <1>2, <1>3 DEF Sound, Held, Fatal, Plain
<1> QED
  BY <1>2, <1>3, <1>4

(* Whatever a helper does to registers and code, the places stay unused by a       *)
(* register.                                                                    *)
LEMMA StillUnused ==
  ASSUME NEW g, NEW h, h.stack = g.stack, h.matches = g.matches, NEW r
  PROVE  Unused(g, r) <=> Unused(h, r)
BY DEF Unused

(* The next register is one that is not in use.                                   *)
LEMMA NextNotHeld ==
  ASSUME NEW g
  PROVE  NextFree(g) = NoRegister \/ NextFree(g) \in (Scratch \cup Saved) \ g.regs
<1> DEFINE free == (Scratch \cup Saved) \ g.regs
<1>1. free \in SUBSET Nat
  BY RegistersAssumption
<1>2. NextFree(g) = IF free = {} THEN NoRegister ELSE Min(free)
  BY DEF NextFree
<1> HIDE DEF free
<1>3. CASE free # {}
  <2>1. \E x \in free : \A y \in free : x <= y
    BY <1>1, <1>3, LeastOf
  <2>2. Min(free) \in free
    BY <2>1 DEF Min
  <2> QED
    BY <1>2, <1>3, <2>2 DEF free
<1> QED
  BY <1>2, <1>3

(* A register is held: it is free for a value, or there was none.                   *)
LEMMA HeldNext ==
  ASSUME NEW g, Sound(g), NEW r, r = NextFree(g), NEW h, h = Hold(g, r)
  PROVE  /\ Sound(h) /\ h.stack = g.stack /\ h.matches = g.matches
         /\ h.regs = g.regs \cup {r} /\ r \in h.regs
         /\ Fatal(h) \/ (r \notin g.regs /\ Unused(h, r) /\ r \in Scratch \cup Saved)
<1>1. h = [stack |-> g.stack, matches |-> g.matches, regs |-> g.regs \cup {r},
           callee_saved |-> g.callee_saved \cup ({r} \cap Saved), code |-> g.code]
  BY DEF Sound, Generation, Hold
<1>2. /\ h.stack = g.stack /\ h.matches = g.matches /\ h.regs = g.regs \cup {r}
      /\ h.callee_saved = g.callee_saved \cup ({r} \cap Saved)
  BY <1>1
<1>3. Generation(h)
  BY <1>1 DEF Sound, Generation
<1>4. r = NoRegister \/ r \in (Scratch \cup Saved) \ g.regs
  BY NextNotHeld
<1>5. CASE Fatal(h)
  BY <1>2, <1>3, <1>5 DEF Sound
<1>6. CASE ~Fatal(h)
  <2>1. Held(g) /\ r \in (Scratch \cup Saved) \ g.regs
    BY <1>2, <1>4, <1>6 DEF Fatal, Sound
  <2>2. Unused(g, r)
    BY <2>1 DEF Held, Unused, Plain
  <2>3. Unused(h, r)
    BY <1>2, <2>2, StillUnused
  <2>4. Held(h)
    BY <1>2, <2>1 DEF Held, Plain
  <2> QED
    BY <1>2, <1>3, <2>1, <2>3, <2>4 DEF Sound
<1> QED
  BY <1>5, <1>6

(* A register that no value is in is given up.                                    *)
LEMMA ReleasedUnused ==
  ASSUME NEW g, Sound(g), NEW r, Fatal(g) \/ Unused(g, r), NEW h, h = Release(g, r)
  PROVE  /\ Sound(h) /\ h.stack = g.stack /\ h.matches = g.matches
         /\ Fatal(g) <=> Fatal(h)
         /\ h.regs = g.regs \ ({r} \ {NoRegister})
<1>1. h = [stack |-> g.stack, matches |-> g.matches, regs |-> g.regs \ ({r} \ {NoRegister}),
           callee_saved |-> g.callee_saved, code |-> g.code]
  BY DEF Sound, Generation, Release
<1>2. /\ h.stack = g.stack /\ h.matches = g.matches
      /\ h.regs = g.regs \ ({r} \ {NoRegister}) /\ h.callee_saved = g.callee_saved
  BY <1>1
<1>3. Generation(h)
  BY <1>1 DEF Sound, Generation
<1>4. Fatal(g) <=> Fatal(h)
  BY <1>2 DEF Fatal
<1>5. ASSUME ~Fatal(g) PROVE Held(h)
  <2>1. Held(g) /\ Unused(g, r)
    BY <1>5 DEF Sound
  <2>2. \A x : x \in g.regs /\ x # r => x \in h.regs
    BY <1>2
  <2> QED
    BY <1>2, <2>1, <2>2 DEF Held, Unused, Plain
<1> QED
  BY <1>2, <1>3, <1>4, <1>5 DEF Sound

(* A value is put on the stack.                                                  *)
LEMMA Pushed ==
  ASSUME NEW g, Generation(g), NEW l, NEW h, h = Push(g, l)
  PROVE  /\ Generation(h) /\ h.matches = g.matches
         /\ h.regs = g.regs /\ h.callee_saved = g.callee_saved
         /\ Len(h.stack) = Len(g.stack) + 1 /\ h.stack[1] = l
         /\ \A i \in 1 .. Len(g.stack) : h.stack[i + 1] = g.stack[i]
         /\ Sound(g) /\ (Fatal(g) \/ Holdable(g, l)) => Sound(h)
<1>1. h = [stack |-> <<l>> \o g.stack, matches |-> g.matches, regs |-> g.regs,
           callee_saved |-> g.callee_saved, code |-> g.code]
  BY DEF Generation, Push
<1>2. /\ h.stack = <<l>> \o g.stack /\ h.matches = g.matches
      /\ h.regs = g.regs /\ h.callee_saved = g.callee_saved
  BY <1>1
<1>3. /\ Sequence(h.stack) /\ Len(h.stack) = Len(g.stack) + 1 /\ h.stack[1] = l
      /\ DOMAIN g.stack = 1 .. Len(g.stack) /\ DOMAIN h.stack = 1 .. Len(g.stack) + 1
      /\ \A i \in 1 .. Len(g.stack) : h.stack[i + 1] = g.stack[i]
  <2>1. PICK s, t : s = g.stack /\ t = h.stack
    OBVIOUS
  <2>2. Sequence(s) /\ t = <<l>> \o s
    BY <1>2, <2>1 DEF Generation
  <2>3. /\ Sequence(t) /\ Len(t) = Len(s) + 1 /\ t[1] = l
        /\ DOMAIN s = 1 .. Len(s) /\ DOMAIN t = 1 .. Len(s) + 1
        /\ \A i \in 1 .. Len(s) : t[i + 1] = s[i]
    <3>1. LET u == <<l>> \o s
          IN /\ Sequence(u) /\ Len(u) = Len(s) + 1 /\ u[1] = l
             /\ DOMAIN s = 1 .. Len(s) /\ DOMAIN u = 1 .. Len(s) + 1
             /\ \A i \in 1 .. Len(s) : u[i + 1] = s[i]
      BY <2>2, InFront
    <3> QED
      BY <2>2, <3>1
  <2> QED
    BY <2>1, <2>3
<1>4. Generation(h)
  BY <1>1, <1>2, <1>3 DEF Generation
<1>5. PICK n \in Nat : n = Len(g.stack)
  BY DEF Generation, Sequence
<1>6. ASSUME Held(g), Holdable(g, l) PROVE Held(h)
  <2>1. ASSUME NEW i \in 1 .. n + 1, i # 1
        PROVE  i - 1 \in 1 .. n /\ h.stack[i] = g.stack[i - 1] /\ i - 1 \in DOMAIN g.stack
    BY <1>3, <1>5, <2>1
  <2>2. \A x : Plain(g, x) => Plain(h, x)
    BY <1>2 DEF Plain
  <2>3. ASSUME NEW i \in 1 .. n + 1 PROVE Plain(h, h.stack[i])
    <3>1. CASE i = 1
      BY <1>3, <1>6, <2>2, <3>1 DEF Holdable
    <3>2. CASE i # 1
      BY <1>6, <2>1, <2>2, <3>2 DEF Held
    <3> QED
      BY <3>1, <3>2
  <2>4. ASSUME NEW i \in 1 .. n + 1, NEW j \in DOMAIN h.matches, InRegister(h.stack[i])
        PROVE  h.matches[j].reg # h.stack[i].reg
    <3>1. CASE i = 1
      BY <1>2, <1>3, <1>6, <2>4, <3>1 DEF Holdable, Unused
    <3>2. CASE i # 1
      BY <1>2, <1>6, <2>1, <2>4, <3>2 DEF Held
    <3> QED
      BY <3>1, <3>2
  <2>5. ASSUME NEW i \in 1 .. n + 1, NEW j \in 1 .. n + 1, InRegister(h.stack[i]),
               InRegister(h.stack[j]), h.stack[i].reg = h.stack[j].reg
        PROVE  i = j
    <3>1. CASE i = 1 /\ j # 1
      BY <1>3, <1>6, <2>1, <2>5, <3>1 DEF Holdable, Unused
    <3>2. CASE i # 1 /\ j = 1
      BY <1>3, <1>6, <2>1, <2>5, <3>2 DEF Holdable, Unused
    <3>3. CASE i # 1 /\ j # 1
      <4>1. i - 1 = j - 1
        BY <1>6, <2>1, <2>5, <3>3 DEF Held
      <4> QED
        BY <4>1
    <3> QED
      BY <3>1, <3>2, <3>3
  <2>6. DOMAIN h.stack = 1 .. n + 1
    BY <1>3, <1>5
  <2> QED
    BY <1>2, <1>6, <2>2, <2>3, <2>4, <2>5, <2>6 DEF Held
<1>7. Fatal(g) <=> Fatal(h)
  BY <1>2 DEF Fatal
<1> QED
  BY <1>2, <1>3, <1>4, <1>6, <1>7 DEF Sound

(* Values are taken off the stack.                                               *)
LEMMA Popped ==
  ASSUME NEW g, Generation(g), NEW n \in 0 .. Len(g.stack), NEW h, h = Pop(g, n)
  PROVE  /\ Generation(h) /\ h.matches = g.matches
         /\ h.regs = g.regs /\ h.callee_saved = g.callee_saved
         /\ Len(h.stack) = Len(g.stack) - n
         /\ DOMAIN g.stack = 1 .. Len(g.stack) /\ DOMAIN h.stack = 1 .. Len(g.stack) - n
         /\ \A i \in 1 .. Len(g.stack) - n : h.stack[i] = g.stack[i + n]
         /\ Sound(g) => /\ Sound(h)
                        /\ \A i \in 1 .. n : Fatal(h) \/ Holdable(h, g.stack[i])
<1>1. h = [stack |-> SubSeq(g.stack, n + 1, Len(g.stack)), matches |-> g.matches,
           regs |-> g.regs, callee_saved |-> g.callee_saved, code |-> g.code]
  BY DEF Generation, Pop
<1>2. /\ h.stack = SubSeq(g.stack, n + 1, Len(g.stack)) /\ h.matches = g.matches
      /\ h.regs = g.regs /\ h.callee_saved = g.callee_saved
  BY <1>1
<1>3. /\ Sequence(h.stack) /\ Len(h.stack) = Len(g.stack) - n
      /\ DOMAIN g.stack = 1 .. Len(g.stack) /\ DOMAIN h.stack = 1 .. Len(g.stack) - n
      /\ \A i \in 1 .. Len(g.stack) - n : h.stack[i] = g.stack[i + n]
  <2>1. Sequence(g.stack)
    BY DEF Generation
  <2> QED
    BY <1>2, <2>1, TakenOff
<1>4. Generation(h)
  BY <1>1, <1>2, <1>3 DEF Generation
<1>5. PICK m \in Nat : m = Len(g.stack)
  BY DEF Generation, Sequence
<1>6. n \in Nat /\ n <= m
  BY <1>5
<1>7. \A i \in 1 .. m - n : i + n \in 1 .. m /\ i + n \in DOMAIN g.stack
  BY <1>3, <1>5, <1>6
<1>8. \A x : Plain(g, x) => Plain(h, x)
  BY <1>2 DEF Plain
<1>9. ASSUME Held(g) PROVE Held(h)
  <2>1. ASSUME NEW i \in 1 .. m - n, NEW j \in 1 .. m - n, InRegister(h.stack[i]),
               InRegister(h.stack[j]), h.stack[i].reg = h.stack[j].reg
        PROVE  i = j
    <3>1. /\ h.stack[i] = g.stack[i + n] /\ h.stack[j] = g.stack[j + n]
          /\ i + n \in DOMAIN g.stack /\ j + n \in DOMAIN g.stack
      BY <1>3, <1>5, <1>7
    <3>2. i + n = j + n
      BY <1>9, <2>1, <3>1 DEF Held
    <3> QED
      BY <1>6, <3>2
  <2>2. ASSUME NEW i \in 1 .. m - n
        PROVE  /\ Plain(h, h.stack[i])
               /\ InRegister(h.stack[i]) =>
                    \A j \in DOMAIN h.matches : h.matches[j].reg # h.stack[i].reg
    <3>1. h.stack[i] = g.stack[i + n] /\ i + n \in DOMAIN g.stack
      BY <1>3, <1>5, <1>7
    <3> QED
      BY <1>2, <1>8, <1>9, <3>1 DEF Held
  <2>3. DOMAIN h.stack = 1 .. m - n
    BY <1>3, <1>5
  <2>4. /\ h.regs \subseteq Scratch \cup Saved /\ h.regs \cap Saved \subseteq h.callee_saved
        /\ \A i \in DOMAIN h.matches : Plain(h, h.matches[i]) /\ InRegister(h.matches[i])
        /\ \A i, j \in DOMAIN h.matches : h.matches[i].reg = h.matches[j].reg => i = j
    BY <1>2, <1>8, <1>9 DEF Held
  <2> QED
    BY <2>1, <2>2, <2>3, <2>4 DEF Held
<1>10. ASSUME Held(g), NEW i \in 1 .. n PROVE Holdable(h, g.stack[i])
  <2>1. i \in DOMAIN g.stack
    BY <1>3, <1>5, <1>6
  <2>2. ASSUME InRegister(g.stack[i]) PROVE Unused(h, g.stack[i].reg)
    <3>1. ASSUME NEW j \in 1 .. m - n, InRegister(h.stack[j])
          PROVE  h.stack[j].reg # g.stack[i].reg
      <4>1. h.stack[j] = g.stack[j + n] /\ j + n \in DOMAIN g.stack /\ j + n # i
        BY <1>3, <1>5, <1>6, <1>7
      <4> QED
        BY <1>10, <2>1, <2>2, <3>1, <4>1 DEF Held
    <3>2. \A j \in DOMAIN h.matches : h.matches[j].reg # g.stack[i].reg
      BY <1>2, <1>10, <2>1, <2>2 DEF Held
    <3>3. DOMAIN h.stack = 1 .. m - n
      BY <1>3, <1>5
    <3> QED
      BY <3>1, <3>2, <3>3 DEF Unused
  <2> QED
    BY <1>8, <1>10, <2>1, <2>2 DEF Held, Holdable
<1>11. Fatal(g) <=> Fatal(h)
  BY <1>2 DEF Fatal
<1> QED
  BY <1>2, <1>3, <1>4, <1>9, <1>11, <1>10 DEF Sound

(* A value is copied: code_copy uses a register of its own at most for a while, and *)
(* gives up that of the value unless it is to be kept.                             *)
LEMMA Copied ==
  ASSUME NEW g, Sound(g), NEW to, NEW from,
         Fatal(g) \/ (InRegister(from) /\ ~from.keep => Unused(g, from.reg)),
         NEW h, h = code_copy(g, to, from)
  PROVE  /\ Sound(h) /\ h.stack = g.stack /\ h.matches = g.matches
         /\ Fatal(g) => Fatal(h)
         /\ \A r \in g.regs : r \in h.regs \/ (InRegister(from) /\ r = from.reg)
<1>1. PICK copied :
        /\ \/ \E c : copied = Emit(g, c)
           \/ \E c : copied = Release(Emit(Hold(g, NextFree(g)), c), NextFree(g))
        /\ h = IF InRegister(from) /\ ~from.keep THEN Release(copied, from.reg) ELSE copied
  <2>1. CASE to.kind = "REGISTER"
    BY <2>1 DEF code_copy
  <2>2. CASE to.kind # "REGISTER" /\ to.kind = "POINTER" /\ from.kind = "IMMEDIATE"
    BY <2>2 DEF code_copy
  <2>3. CASE to.kind # "REGISTER" /\ ~ (to.kind = "POINTER" /\ from.kind = "IMMEDIATE")
    BY <2>3 DEF code_copy
  <2> QED
    BY <2>1, <2>2, <2>3
<1>2. /\ Sound(copied) /\ copied.stack = g.stack /\ copied.matches = g.matches
      /\ Fatal(g) => Fatal(copied)
      /\ g.regs \subseteq copied.regs
  <2>1. ASSUME NEW c, copied = Emit(g, c)
        PROVE  /\ Sound(copied) /\ copied.stack = g.stack /\ copied.matches = g.matches
               /\ Fatal(g) => Fatal(copied)
               /\ g.regs \subseteq copied.regs
    BY <2>1, Emitted DEF Sound, Fatal
  <2>2. ASSUME NEW c, copied = Release(Emit(Hold(g, NextFree(g)), c), NextFree(g))
        PROVE  /\ Sound(copied) /\ copied.stack = g.stack /\ copied.matches = g.matches
               /\ Fatal(g) => Fatal(copied)
               /\ g.regs \subseteq copied.regs
    <3>1. PICK r, a, b : r = NextFree(g) /\ a = Hold(g, r) /\ b = Emit(a, c)
                         /\ copied = Release(b, r)
      BY <2>2
    <3>2. /\ Sound(a) /\ a.stack = g.stack /\ a.matches = g.matches
          /\ a.regs = g.regs \cup {r} /\ r \in a.regs
          /\ Fatal(a) \/ (r \notin g.regs /\ Unused(a, r) /\ r \in Scratch \cup Saved)
      BY <3>1, HeldNext
    <3>3. Generation(a)
      BY <3>2 DEF Sound
    <3>4. /\ Sound(b) /\ b.stack = a.stack /\ b.matches = a.matches /\ b.regs = a.regs
      BY <3>1, <3>2, <3>3, Emitted
    <3>5. Fatal(b) \/ Unused(b, r)
      BY <3>2, <3>4, StillUnused DEF Fatal
    <3>6. /\ Sound(copied) /\ copied.stack = b.stack /\ copied.matches = b.matches
          /\ Fatal(b) <=> Fatal(copied)
          /\ copied.regs = b.regs \ ({r} \ {NoRegister})
      BY <3>1, <3>4, <3>5, ReleasedUnused
    <3>7. Fatal(g) => Fatal(copied)
      BY <3>2, <3>4, <3>6 DEF Fatal
    <3>8. r \in g.regs => r = NoRegister
      BY <3>1, NextNotHeld
    <3>9. g.regs \subseteq copied.regs
      BY <3>2, <3>4, <3>6, <3>8
    <3> QED
      BY <3>2, <3>4, <3>6, <3>7, <3>9
  <2> QED
    BY <1>1, <2>1, <2>2
<1>3. CASE InRegister(from) /\ ~from.keep
  <2>1. h = Release(copied, from.reg)
    BY <1>1, <1>3
  <2>2. Fatal(copied) \/ Unused(copied, from.reg)
    BY <1>2, <1>3, StillUnused
  <2>3. /\ Sound(h) /\ h.stack = copied.stack /\ h.matches = copied.matches
        /\ Fatal(copied) <=> Fatal(h)
        /\ h.regs = copied.regs \ ({from.reg} \ {NoRegister})
    BY <1>2, <2>1, <2>2, ReleasedUnused
  <2> QED
    BY <1>2, <1>3, <2>3
<1>4. CASE ~ (InRegister(from) /\ ~from.keep)
  BY <1>1, <1>2, <1>4
<1> QED
  BY <1>3, <1>4

(* What the constructors of places make.                                         *)
LEMMA PlacesMade ==
  ASSUME NEW type, NEW r, NEW offset, NEW value
  PROVE  /\ Place(Register(type, r)) /\ InRegister(Register(type, r))
         /\ Register(type, r).reg = r /\ ~Register(type, r).keep
         /\ Place(Pointer(type, offset)) /\ ~InRegister(Pointer(type, offset))
         /\ ~Pointer(type, offset).keep
         /\ Place(Immediate(value)) /\ ~InRegister(Immediate(value)) /\ ~Immediate(value).keep
BY DEF Place, InRegister, Register, Pointer, Immediate

(* A place that is no register can always be put on the stack.                     *)
LEMMA PointersHoldable ==
  ASSUME NEW g, NEW type, NEW offset, NEW value
  PROVE  /\ Holdable(g, Pointer(type, offset)) /\ Holdable(g, Immediate(value))
BY PlacesMade DEF Holdable, Plain

(* A value that is in memory, in the code or in the register of results goes to the *)
(* next register, which then is its own.                                          *)
LEMMA LoadedNext ==
  ASSUME NEW g, Sound(g), NEW r, r = NextFree(g), NEW type, NEW from,
         InRegister(from) => from.reg = NoRegister,
         NEW h, h = code_copy(Hold(g, r), Register(type, r), from)
  PROVE  /\ Sound(h) /\ h.stack = g.stack /\ h.matches = g.matches
         /\ Fatal(g) => Fatal(h)
         /\ Fatal(h) \/ (Holdable(h, Register(type, r)) /\ r \notin g.regs)
         /\ Fatal(h) \/ g.regs \subseteq h.regs
<1>1. PICK a, to : a = Hold(g, r) /\ to = Register(type, r) /\ h = code_copy(a, to, from)
  OBVIOUS
<1>2. /\ Sound(a) /\ a.stack = g.stack /\ a.matches = g.matches
      /\ a.regs = g.regs \cup {r} /\ r \in a.regs
      /\ Fatal(a) \/ (r \notin g.regs /\ Unused(a, r) /\ r \in Scratch \cup Saved)
  BY <1>1, HeldNext
<1>3. Fatal(a) \/ Unused(a, NoRegister)
  BY <1>2 DEF Sound, Held, Plain, Fatal, Unused
<1>4. /\ Sound(h) /\ h.stack = a.stack /\ h.matches = a.matches
      /\ Fatal(a) => Fatal(h)
      /\ \A q \in a.regs : q \in h.regs \/ (InRegister(from) /\ q = from.reg)
  BY <1>1, <1>2, <1>3, Copied
<1>5. Fatal(g) => Fatal(h)
  BY <1>2, <1>4 DEF Fatal
<1>6. ASSUME ~Fatal(h)
      PROVE  Holdable(h, to) /\ r \notin g.regs /\ g.regs \subseteq h.regs
  <2>1. ~Fatal(a) /\ NoRegister \notin a.regs
    BY <1>4, <1>6 DEF Fatal
  <2>2. a.regs \subseteq h.regs
    BY <1>4, <2>1
  <2>3. Unused(h, r)
    BY <1>2, <1>4, <2>1, StillUnused
  <2>4. Place(to) /\ ~to.keep /\ to.reg = r
    BY <1>1, PlacesMade
  <2> QED
    BY <1>2, <2>1, <2>2, <2>3, <2>4 DEF Holdable, Plain
<1> QED
  BY <1>1, <1>2, <1>4, <1>5, <1>6

(* The same, and put on the stack.                                               *)
LEMMA LoadedAndPushed ==
  ASSUME NEW g, Sound(g), NEW r, r = NextFree(g), NEW type, NEW from,
         InRegister(from) => from.reg = NoRegister,
         NEW h, h = Push(code_copy(Hold(g, r), Register(type, r), from), Register(type, r))
  PROVE  Sound(h) /\ Len(h.stack) = Len(g.stack) + 1
<1>1. PICK a, l : a = code_copy(Hold(g, r), Register(type, r), from) /\ l = Register(type, r)
                  /\ h = Push(a, l)
  OBVIOUS
<1>2. Sound(a) /\ a.stack = g.stack /\ (Fatal(a) \/ Holdable(a, l))
  BY <1>1, LoadedNext
<1>3. Generation(a)
  BY <1>2 DEF Sound
<1> QED
  BY <1>1, <1>2, <1>3, Pushed

(* A component is loaded (load_from_pointer).                                     *)
LEMMA ComponentLoaded ==
  ASSUME NEW g, Sound(g), NEW l, NEW i, NEW h, h = LoadComponent(g, Component(l, i))
  PROVE  Sound(h) /\ Len(h.stack) = Len(g.stack) + 1
<1>1. PICK from : from = Component(l, i) /\ ~InRegister(from)
  BY PlacesMade DEF Component
<1>2. PICK r : r = NextFree(g)
  OBVIOUS
<1>3. Register(from.type, r).reg = r
  BY PlacesMade
<1>4. h = Push(code_copy(Hold(g, r), Register(from.type, r), from), Register(from.type, r))
  BY <1>1, <1>2, <1>3 DEF LoadComponent
<1> QED
  BY <1>1, <1>2, <1>4, LoadedAndPushed

(* A component is stored (store_to_pointer).                                      *)
LEMMA ComponentStored ==
  ASSUME NEW g, Sound(g), Len(g.stack) >= 1, NEW to, NEW h, h = StoreComponent(g, to)
  PROVE  Sound(h) /\ Len(h.stack) = Len(g.stack) - 1
<1>1. Sequence(g.stack) /\ Len(g.stack) \in Nat /\ g.stack # <<>> /\ Head(g.stack) = g.stack[1]
  <2>1. Sequence(g.stack) /\ Len(g.stack) \in Nat
    BY DEF Sound, Generation, Sequence
  <2>2. g.stack # <<>>
    BY NoneIsSequence
  <2> QED
    BY <2>1, <2>2, FirstTakenOff
<1>2. PICK a, from : a = Pop(g, 1) /\ from = g.stack[1] /\ h = code_copy(a, to, from)
  BY <1>1 DEF StoreComponent
<1>3. 1 \in 0 .. Len(g.stack) /\ 1 \in 1 .. 1 /\ Generation(g)
  BY <1>1 DEF Sound
<1>4. Sound(a) /\ Len(a.stack) = Len(g.stack) - 1 /\ (Fatal(a) \/ Holdable(a, from))
  BY <1>2, <1>3, Popped
<1>5. Fatal(a) \/ (InRegister(from) /\ ~from.keep => Unused(a, from.reg))
  BY <1>4 DEF Holdable
<1> QED
  BY <1>2, <1>4, <1>5, Copied

(* The operation of a PUSH_VALUE and of a POP_VALUE.                               *)
LEMMA LoadedFromPointer ==
  ASSUME NEW g, Sound(g), NEW l
  PROVE  Sound(load_from_pointer(g, l))
<1>1. PICK a : a = LoadComponent(g, Component(l, 0))
  OBVIOUS
<1>2. Sound(a)
  BY <1>1, ComponentLoaded
<1>3. PICK b : b = LoadComponent(a, Component(l, 1))
  OBVIOUS
<1>4. Sound(b)
  BY <1>2, <1>3, ComponentLoaded
<1> QED
  BY <1>1, <1>2, <1>3, <1>4 DEF load_from_pointer

(* Components are stored when they are all there.                                  *)
LEMMA StoredToPointer ==
  ASSUME NEW g, Sound(g), NEW l, Len(g.stack) >= Len(Components(l.type))
  PROVE  Sound(store_to_pointer(g, l))
<1>1. Len(g.stack) \in Nat
  BY DEF Sound, Generation, Sequence
<1>2. CASE l.type = "range"
  <2>1. Len(g.stack) >= 2
    BY <1>2 DEF Components
  <2>2. PICK a : a = StoreComponent(g, Component(l, 1))
    OBVIOUS
  <2>3. Sound(a) /\ Len(a.stack) = Len(g.stack) - 1 /\ Len(g.stack) >= 1
    BY <1>1, <2>1, <2>2, ComponentStored
  <2>4. Len(a.stack) >= 1
    BY <1>1, <2>1, <2>3
  <2>5. PICK b : b = StoreComponent(a, Component(l, 0))
    OBVIOUS
  <2>6. Sound(b)
    BY <2>3, <2>4, <2>5, ComponentStored
  <2> QED
    BY <1>2, <2>2, <2>5, <2>6 DEF store_to_pointer
<1>3. CASE l.type # "range"
  <2>1. Len(g.stack) >= 1
    BY <1>3 DEF Components
  <2>2. PICK a : a = StoreComponent(g, Component(l, 0))
    OBVIOUS
  <2>3. Sound(a)
    BY <2>1, <2>2, ComponentStored
  <2> QED
    BY <1>3, <2>2, <2>3 DEF store_to_pointer
<1> QED
  BY <1>2, <1>3

(* Of two operands the left is in a register, which is given up or kept, and the     *)
(* right in one or in the code; the result gets a register of its own.              *)
LEMMA AppliedBinary ==
  ASSUME NEW g, Generation(g), Len(g.stack) >= 2, InRegister(g.stack[2]),
         Sound(Pop(g, 2)),
         \/ Fatal(g)
         \/ /\ ~g.stack[2].keep => Holdable(Pop(g, 2), g.stack[2])
            /\ InRegister(g.stack[1]) => Holdable(Pop(g, 2), g.stack[1]),
         NEW operator, NEW lhs_type,
         NEW h, h = arm64operator_apply_binary(g, operator, lhs_type)
  PROVE  Sound(h) /\ Len(h.stack) = Len(g.stack) - 1 /\ InRegister(h.stack[1])
<1>1. Len(g.stack) \in Nat /\ 2 \in 0 .. Len(g.stack)
  BY DEF Generation, Sequence
<1>2. PICK g0, lhs, r, rhs, g1 :
        /\ g0 = Pop(g, 2) /\ lhs = g.stack[2] /\ r = g.stack[1]
        /\ rhs = IF InRegister(r) THEN r ELSE Register(lhs_type, NextFree(g))
        /\ g1 = IF InRegister(r) THEN g0 ELSE code_copy(Hold(g0, rhs.reg), rhs, r)
  OBVIOUS
<1>3. PICK result, g2, g3, g4, l :
        /\ result = NextFree(g1)
        /\ \E c : g2 = Emit(Hold(g1, result), c)
        /\ g3 = IF lhs.keep THEN g2 ELSE Release(g2, lhs.reg)
        /\ g4 = IF rhs.keep THEN g3 ELSE Release(g3, rhs.reg)
        /\ \E type : l = Register(type, result)
        /\ h = Push(g4, l)
  <2>1. PICK result : result = NextFree(g1)
    OBVIOUS
  <2>2. PICK c : c = <<Alu(operator, lhs_type, result, lhs.reg, rhs.reg)>>
    OBVIOUS
  <2>3. PICK g2 : g2 = Emit(Hold(g1, result), c)
    OBVIOUS
  <2>4. PICK g3 : g3 = IF lhs.keep THEN g2 ELSE Release(g2, lhs.reg)
    OBVIOUS
  <2>5. PICK g4 : g4 = IF rhs.keep THEN g3 ELSE Release(g3, rhs.reg)
    OBVIOUS
  <2>6. PICK type : type = IF operator \in Relational THEN "bool" ELSE lhs_type
    OBVIOUS
  <2>7. h = Push(g4, Register(type, result))
    BY <1>2, <2>1, <2>2, <2>3, <2>4, <2>5, <2>6 DEF arm64operator_apply_binary
  <2> QED
    BY <2>1, <2>3, <2>4, <2>5, <2>7
<1>4. /\ Sound(g0) /\ g0.regs = g.regs /\ Len(g0.stack) = Len(g.stack) - 2
      /\ Fatal(g) <=> Fatal(g0)
  BY <1>1, <1>2, Popped DEF Fatal
<1>5. /\ Sound(g1) /\ g1.stack = g0.stack /\ g1.matches = g0.matches
      /\ Fatal(g0) => Fatal(g1)
      /\ Fatal(g1) \/ Holdable(g1, rhs)
      /\ Fatal(g1) \/ (~lhs.keep => Holdable(g1, lhs))
  <2>1. CASE InRegister(r)
    BY <1>2, <1>4, <2>1
  <2>2. CASE ~InRegister(r)
    <3>1. PICK f : f = NextFree(g0)
      OBVIOUS
    <3>2. rhs = Register(lhs_type, f) /\ rhs.reg = f
      BY <1>2, <1>4, <2>2, <3>1, PlacesMade DEF NextFree
    <3>3. g1 = code_copy(Hold(g0, f), Register(lhs_type, f), r)
      BY <1>2, <2>2, <3>2
    <3>4. /\ Sound(g1) /\ g1.stack = g0.stack /\ g1.matches = g0.matches
          /\ Fatal(g0) => Fatal(g1)
          /\ Fatal(g1) \/ (Holdable(g1, Register(lhs_type, f)) /\ f \notin g0.regs)
          /\ Fatal(g1) \/ g0.regs \subseteq g1.regs
      BY <1>4, <2>2, <3>1, <3>3, LoadedNext
    <3>5. ASSUME ~Fatal(g1), ~lhs.keep PROVE Holdable(g1, lhs)
      <4>1. Holdable(g0, lhs) /\ g0.regs \subseteq g1.regs
        BY <1>2, <1>4, <3>4, <3>5
      <4>2. InRegister(lhs) => Unused(g1, lhs.reg)
        BY <3>4, <4>1, StillUnused DEF Holdable
      <4> QED
        BY <4>1, <4>2 DEF Holdable, Plain
    <3> QED
      BY <3>2, <3>4, <3>5
  <2> QED
    BY <2>1, <2>2
<1>6. /\ Sound(g2) /\ g2.stack = g1.stack /\ g2.matches = g1.matches
      /\ Fatal(g1) => Fatal(g2)
      /\ Fatal(g2) \/ (result \notin g1.regs /\ Unused(g2, result) /\ result \in g2.regs)
  <2>1. PICK a, c : a = Hold(g1, result) /\ g2 = Emit(a, c)
    BY <1>3
  <2>2. /\ Sound(a) /\ a.stack = g1.stack /\ a.matches = g1.matches
        /\ a.regs = g1.regs \cup {result} /\ result \in a.regs
        /\ Fatal(a) \/ (result \notin g1.regs /\ Unused(a, result))
    BY <1>3, <1>5, <2>1, HeldNext
  <2>3. /\ Sound(g2) /\ g2.stack = a.stack /\ g2.matches = a.matches /\ g2.regs = a.regs
    BY <2>1, <2>2, Emitted DEF Sound
  <2>4. Unused(a, result) => Unused(g2, result)
    BY <2>3, StillUnused
  <2> QED
    BY <2>2, <2>3, <2>4 DEF Fatal
<1>7. /\ Sound(g3) /\ g3.stack = g1.stack /\ g3.matches = g1.matches
      /\ Fatal(g2) => Fatal(g3)
      /\ Fatal(g3) \/ (Unused(g3, result) /\ result \in g3.regs /\ result \notin g1.regs)
  <2>1. CASE lhs.keep
    BY <1>3, <1>6, <2>1
  <2>2. CASE ~lhs.keep
    <3>1. g3 = Release(g2, lhs.reg)
      BY <1>3, <2>2
    <3>2. Fatal(g2) \/ (Unused(g1, lhs.reg) /\ lhs.reg \in g1.regs)
      BY <1>2, <1>5, <1>6, <2>2 DEF Holdable, Plain
    <3>3. Fatal(g2) \/ Unused(g2, lhs.reg)
      BY <1>6, <3>2, StillUnused
    <3>4. /\ Sound(g3) /\ g3.stack = g2.stack /\ g3.matches = g2.matches
          /\ Fatal(g2) <=> Fatal(g3)
          /\ g3.regs = g2.regs \ ({lhs.reg} \ {NoRegister})
      BY <1>6, <3>1, <3>3, ReleasedUnused
    <3>5. Unused(g2, result) => Unused(g3, result)
      BY <3>4, StillUnused
    <3> QED
      BY <1>6, <3>2, <3>4, <3>5
  <2> QED
    BY <2>1, <2>2
<1>8. /\ Sound(g4) /\ g4.stack = g1.stack /\ g4.matches = g1.matches
      /\ Fatal(g4) \/ (Unused(g4, result) /\ result \in g4.regs)
  <2>1. CASE rhs.keep
    BY <1>3, <1>7, <2>1
  <2>2. CASE ~rhs.keep
    <3>1. g4 = Release(g3, rhs.reg)
      BY <1>3, <2>2
    <3>2. InRegister(rhs)
      BY <1>2, PlacesMade
    <3>3. Fatal(g3) \/ (Unused(g1, rhs.reg) /\ rhs.reg \in g1.regs)
      BY <1>5, <1>6, <1>7, <3>2 DEF Holdable, Plain
    <3>4. Fatal(g3) \/ Unused(g3, rhs.reg)
      BY <1>7, <3>3, StillUnused
    <3>5. /\ Sound(g4) /\ g4.stack = g3.stack /\ g4.matches = g3.matches
          /\ Fatal(g3) <=> Fatal(g4)
          /\ g4.regs = g3.regs \ ({rhs.reg} \ {NoRegister})
      BY <1>7, <3>1, <3>4, ReleasedUnused
    <3>6. Unused(g3, result) => Unused(g4, result)
      BY <3>5, StillUnused
    <3> QED
      BY <1>7, <3>3, <3>5, <3>6
  <2> QED
    BY <2>1, <2>2
<1>9. l.reg = result /\ InRegister(l) /\ (Fatal(g4) \/ Holdable(g4, l))
  <2>1. Place(l) /\ ~l.keep /\ l.reg = result /\ InRegister(l)
    BY <1>3, PlacesMade
  <2> QED
    BY <1>8, <2>1 DEF Holdable, Plain
<1>10. Generation(g4)
  BY <1>8 DEF Sound
<1>11. Sound(h) /\ Len(h.stack) = Len(g4.stack) + 1 /\ h.stack[1] = l
  BY <1>3, <1>8, <1>9, <1>10, Pushed
<1>12. Len(g4.stack) + 1 = Len(g.stack) - 1
  BY <1>1, <1>4, <1>5, <1>8
<1> QED
  BY <1>9, <1>11, <1>12

(* The value a jump depends on is taken off the stack and its register given up.     *)
LEMMA JumpedIfFalse ==
  ASSUME NEW g, Sound(g), Len(g.stack) >= 1, NEW label
  PROVE  Sound(JumpIfFalse(g, label))
<1>1. /\ Len(g.stack) \in Nat /\ Generation(g) /\ 1 \in 0 .. Len(g.stack) /\ 1 \in 1 .. 1
      /\ Head(g.stack) = g.stack[1]
  <2>1. Sequence(g.stack) /\ Len(g.stack) \in Nat /\ Generation(g)
    BY DEF Sound, Generation, Sequence
  <2>2. g.stack # <<>>
    BY NoneIsSequence
  <2> QED
    BY <2>1, <2>2, FirstTakenOff
<1>2. PICK g0, l, reg, loaded, a :
        /\ g0 = Pop(g, 1) /\ l = g.stack[1]
        /\ reg = IF InRegister(l) THEN l.reg ELSE NextFree(g)
        /\ loaded = IF InRegister(l) THEN g0 ELSE code_copy(Hold(g0, reg), Register("bool", reg), l)
        /\ \E c : a = Emit(loaded, c)
        /\ JumpIfFalse(g, label) = Release(a, reg)
  BY <1>1 DEF JumpIfFalse
<1>3. Sound(g0) /\ g0.regs = g.regs /\ (Fatal(g0) \/ Holdable(g0, l))
  BY <1>1, <1>2, Popped
<1>4. Sound(loaded) /\ (Fatal(loaded) \/ Unused(loaded, reg))
  <2>1. CASE InRegister(l)
    BY <1>2, <1>3, <2>1 DEF Holdable
  <2>2. CASE ~InRegister(l)
    <3>1. reg = NextFree(g0)
      BY <1>2, <1>3, <2>2 DEF NextFree
    <3>2. loaded = code_copy(Hold(g0, reg), Register("bool", reg), l)
      BY <1>2, <2>2
    <3>3. Sound(loaded) /\ (Fatal(loaded) \/ Holdable(loaded, Register("bool", reg)))
      BY <1>3, <2>2, <3>1, <3>2, LoadedNext
    <3>4. InRegister(Register("bool", reg)) /\ Register("bool", reg).reg = reg
      BY PlacesMade
    <3> QED
      BY <3>3, <3>4 DEF Holdable
  <2> QED
    BY <2>1, <2>2
<1>5. PICK c : a = Emit(loaded, c)
  BY <1>2
<1>6. /\ Sound(a) /\ a.stack = loaded.stack /\ a.matches = loaded.matches
      /\ a.regs = loaded.regs
  BY <1>4, <1>5, Emitted DEF Sound
<1>7. Fatal(a) \/ Unused(a, reg)
  BY <1>4, <1>6, StillUnused DEF Fatal
<1> QED
  BY <1>2, <1>6, <1>7, ReleasedUnused

(* The registers of the arguments are given up with them.                          *)
LEMMA Marshalled ==
  ASSUME NEW g, Generation(g), Held(g), NEW parameters, Parameters(parameters),
         Len(g.stack) >= Len(parameters),
         NEW h, h = arm64function_marshall_arguments(g, parameters)
  PROVE  Sound(h)
<1>1. PICK n \in Nat : n = Len(parameters) /\ DOMAIN parameters = 1 .. n
  BY DEF Parameters
<1>2. Len(g.stack) \in Nat /\ n \in 0 .. Len(g.stack)
  BY <1>1 DEF Generation, Sequence
<1>3. PICK G : G = {g.stack[k].reg : k \in {k \in DOMAIN parameters : InRegister(g.stack[k])}}
  OBVIOUS
<1>4. PICK a, b : /\ a = [g EXCEPT !.regs = g.regs \ G] /\ b = Pop(a, n)
                  /\ \E c : h = Emit(b, c)
  BY <1>1, <1>3 DEF arm64function_marshall_arguments
<1>5. /\ a = [stack |-> g.stack, matches |-> g.matches, regs |-> g.regs \ G,
              callee_saved |-> g.callee_saved, code |-> g.code]
  BY <1>4 DEF Generation
<1>6. /\ a.stack = g.stack /\ a.matches = g.matches /\ a.regs = g.regs \ G
      /\ a.callee_saved = g.callee_saved /\ Generation(a)
  BY <1>5 DEF Generation
<1>7. PICK d : d = Pop(g, n)
  OBVIOUS
<1>8. /\ Sound(d) /\ d.matches = g.matches /\ d.regs = g.regs
      /\ d.callee_saved = g.callee_saved
      /\ \A i \in 1 .. n : Fatal(d) \/ Holdable(d, g.stack[i])
  BY <1>2, <1>7, Popped DEF Sound
<1>9. /\ Generation(b) /\ b.matches = a.matches /\ b.regs = a.regs
      /\ b.callee_saved = a.callee_saved
  <2>1. n \in 0 .. Len(a.stack)
    BY <1>2, <1>6
  <2>2. Generation(a) /\ b = Pop(a, n)
    BY <1>4, <1>6
  <2> QED
    BY <2>1, <2>2, Popped
<1>10. b.stack = d.stack
  BY <1>4, <1>5, <1>7, <1>6 DEF Pop, Generation
<1>11. ~Fatal(g) /\ Held(d)
  <2>1. NoRegister \notin g.regs
    BY RegistersAssumption DEF Held, NoRegister
  <2> QED
    BY <1>8, <2>1 DEF Fatal, Sound
<1>12. ASSUME NEW r \in G PROVE Unused(d, r)
  <2>1. PICK k \in 1 .. n : InRegister(g.stack[k]) /\ r = g.stack[k].reg
    BY <1>1, <1>3
  <2>2. Holdable(d, g.stack[k])
    BY <1>8, <1>11 DEF Fatal
  <2> QED
    BY <2>1, <2>2 DEF Holdable
<1>13. Held(b)
  <2>1. /\ b.stack = d.stack /\ b.matches = d.matches /\ b.callee_saved = d.callee_saved
        /\ b.regs = d.regs \ G
    BY <1>6, <1>8, <1>9, <1>10
  <2>2. ASSUME NEW i \in DOMAIN b.stack PROVE Plain(b, b.stack[i])
    BY <1>11, <1>12, <2>1 DEF Held, Plain, Unused
  <2>3. ASSUME NEW i \in DOMAIN b.matches PROVE Plain(b, b.matches[i])
    BY <1>11, <1>12, <2>1 DEF Held, Plain, Unused
  <2> QED
    BY <1>11, <2>1, <2>2, <2>3 DEF Held
<1>14. Sound(b)
  BY <1>9, <1>13 DEF Sound
<1> QED
  BY <1>4, <1>9, <1>14, Emitted

(* The result of a call is discarded or goes to the next register.                  *)
LEMMA Returned ==
  ASSUME NEW g, Sound(g), NEW type, NEW discard
  PROVE  Sound(arm64function_marshall_return(g, type, discard))
<1>1. PICK c : c = [k \in DOMAIN SetToSortSeq(g.regs \cap Scratch, >) |->
                      PopRegs(<<SetToSortSeq(g.regs \cap Scratch, >)[k]>>)]
  OBVIOUS
<1>2. PICK a : a = Emit(g, c)
  OBVIOUS
<1>3. Sound(a) /\ a.regs = g.regs
  BY <1>2, Emitted DEF Sound
<1>4. PICK r, from : r = NextFree(g) /\ from = Register(type, X0)
  OBVIOUS
<1>5. PICK to : to = Register(type, r) /\ to.reg = r
  BY PlacesMade
<1>6. arm64function_marshall_return(g, type, discard) =
        IF discard THEN a
        ELSE Push(code_copy(Hold(a, r), Register(type, r), from), Register(type, r))
  BY <1>1, <1>2, <1>4, <1>5 DEF arm64function_marshall_return
<1>7. r = NextFree(a)
  BY <1>3, <1>4 DEF NextFree
<1>8. from.reg = NoRegister
  BY <1>4, PlacesMade DEF X0, NoRegister
<1>9. Sound(Push(code_copy(Hold(a, r), Register(type, r), from), Register(type, r)))
  BY <1>3, <1>7, <1>8, LoadedAndPushed
<1> QED
  BY <1>3, <1>6, <1>9

WithMatch(g, l) == [g EXCEPT !.matches = <<l>> \o @]

(* The value of a match gets a register of its own (IR_MATCH).                      *)
LEMMA MatchHeld ==
  ASSUME NEW g, Sound(g), NEW type,
         NEW r, r = NextFree(g), NEW h, h = WithMatch(Hold(g, r), Register(type, r))
  PROVE  Sound(h)
<1>1. PICK a, l : a = Hold(g, r) /\ l = Register(type, r) /\ h = WithMatch(a, l)
  OBVIOUS
<1>2. /\ Sound(a) /\ a.stack = g.stack /\ a.matches = g.matches
      /\ a.regs = g.regs \cup {r} /\ r \in a.regs
      /\ Fatal(a) \/ (r \notin g.regs /\ Unused(a, r) /\ r \in Scratch \cup Saved)
  BY <1>1, HeldNext
<1>3. h = [stack |-> a.stack, matches |-> <<l>> \o a.matches, regs |-> a.regs,
           callee_saved |-> a.callee_saved, code |-> a.code]
  BY <1>1, <1>2 DEF Sound, Generation, WithMatch
<1>4. /\ h.stack = a.stack /\ h.matches = <<l>> \o a.matches /\ h.regs = a.regs
      /\ h.callee_saved = a.callee_saved
  BY <1>3
<1>5. PICK s : s = a.matches /\ Sequence(s)
  BY <1>2 DEF Sound, Generation
<1>6. PICK t : t = <<l>> \o s
  OBVIOUS
<1>7. LET u == <<l>> \o s
      IN /\ Sequence(u) /\ Len(u) = Len(s) + 1 /\ u[1] = l
         /\ DOMAIN s = 1 .. Len(s) /\ DOMAIN u = 1 .. Len(s) + 1
         /\ \A i \in 1 .. Len(s) : u[i + 1] = s[i]
  <2>1. Sequence(s)
    BY <1>5
  <2> QED
    BY <2>1, InFront
<1>8. /\ Sequence(t) /\ t[1] = l /\ DOMAIN s = 1 .. Len(s) /\ DOMAIN t = 1 .. Len(s) + 1
      /\ \A i \in 1 .. Len(s) : t[i + 1] = s[i]
      /\ h.matches = t
  BY <1>4, <1>5, <1>6, <1>7
<1>9. Generation(h)
  <2>1. Sequence(a.stack)
    BY <1>2 DEF Sound, Generation
  <2> QED
    BY <1>3, <1>4, <1>8, <2>1 DEF Generation
<1>10. CASE Fatal(a)
  BY <1>4, <1>9, <1>10 DEF Sound, Fatal
<1>11. CASE ~Fatal(a)
  <2>1. Held(a) /\ Unused(a, r) /\ l.reg = r /\ InRegister(l) /\ Plain(h, l)
    BY <1>1, <1>2, <1>4, <1>11, PlacesMade DEF Sound, Plain
  <2>2. PICK n \in Nat : n = Len(s)
    BY <1>5 DEF Sequence
  <2>3. ASSUME NEW i \in 1 .. n + 1, i # 1
        PROVE  i - 1 \in 1 .. n /\ t[i] = s[i - 1] /\ i - 1 \in DOMAIN a.matches
    <3>1. i - 1 \in 1 .. n /\ (i - 1) + 1 = i
      BY <2>2, <2>3
    <3> QED
      BY <1>5, <1>8, <2>2, <3>1
  <2>4. \A x : Plain(a, x) => Plain(h, x)
    BY <1>4 DEF Plain
  <2>5. ASSUME NEW i \in 1 .. n + 1 PROVE Plain(h, t[i]) /\ InRegister(t[i])
    <3>1. CASE i = 1
      BY <1>8, <2>1, <3>1
    <3>2. CASE i # 1
      BY <1>5, <2>1, <2>3, <2>4, <3>2 DEF Held
    <3> QED
      BY <3>1, <3>2
  <2>6. ASSUME NEW i \in 1 .. n + 1, NEW j \in 1 .. n + 1, t[i].reg = t[j].reg
        PROVE  i = j
    <3>1. \A k \in DOMAIN a.matches : a.matches[k].reg # l.reg
      BY <2>1 DEF Unused
    <3>2. CASE i = 1 /\ j # 1
      <4>1. t[j] = a.matches[j - 1] /\ j - 1 \in DOMAIN a.matches
        BY <1>5, <2>3, <3>2
      <4> QED
        BY <1>8, <2>6, <3>2, <3>1, <4>1
    <3>3. CASE i # 1 /\ j = 1
      <4>1. t[i] = a.matches[i - 1] /\ i - 1 \in DOMAIN a.matches
        BY <1>5, <2>3, <3>3
      <4> QED
        BY <1>8, <2>6, <3>3, <3>1, <4>1
    <3>4. CASE i # 1 /\ j # 1
      <4>1. i - 1 = j - 1
        BY <1>5, <2>1, <2>3, <2>6, <3>4 DEF Held
      <4> QED
        BY <4>1
    <3> QED
      BY <3>2, <3>3, <3>4
  <2>7. ASSUME NEW i \in DOMAIN h.stack, NEW j \in 1 .. n + 1, InRegister(h.stack[i])
        PROVE  t[j].reg # h.stack[i].reg
    <3>1. CASE j = 1
      BY <1>4, <1>8, <2>1, <2>7, <3>1 DEF Unused
    <3>2. CASE j # 1
      BY <1>4, <1>5, <2>1, <2>3, <2>7, <3>2 DEF Held
    <3> QED
      BY <3>1, <3>2
  <2>8. /\ h.regs \subseteq Scratch \cup Saved /\ h.regs \cap Saved \subseteq h.callee_saved
        /\ \A i \in DOMAIN h.stack : Plain(h, h.stack[i])
        /\ \A i, j \in DOMAIN h.stack :
             InRegister(h.stack[i]) /\ InRegister(h.stack[j])
               /\ h.stack[i].reg = h.stack[j].reg => i = j
    BY <1>4, <2>1, <2>4 DEF Held
  <2>9. DOMAIN h.matches = 1 .. n + 1 /\ h.matches = t
    BY <1>8, <2>2
  <2>10. \A i \in 1 .. n + 1, j \in 1 .. n + 1 : t[i].reg = t[j].reg => i = j
    BY <2>6
  <2>11. /\ \A i \in DOMAIN h.matches : Plain(h, h.matches[i]) /\ InRegister(h.matches[i])
         /\ \A i, j \in DOMAIN h.matches : h.matches[i].reg = h.matches[j].reg => i = j
         /\ \A i \in DOMAIN h.stack, j \in DOMAIN h.matches :
              InRegister(h.stack[i]) => h.matches[j].reg # h.stack[i].reg
    BY <2>5, <2>7, <2>9, <2>10
  <2>12. Held(h)
    BY <2>8, <2>11 DEF Held
  <2> QED
    BY <1>9, <2>12 DEF Sound
<1> QED
  BY <1>10, <1>11

(* Its place goes from the match to the stack (IR_END_MATCH).                       *)
LEMMA MatchEnded ==
  ASSUME NEW g, Sound(g), g.matches # <<>>,
         NEW h, h = [Push(g, Head(g.matches)) EXCEPT !.matches = Tail(@)]
  PROVE  Sound(h)
<1>1. PICK s, l, t : s = g.matches /\ l = Head(s) /\ t = Tail(s) /\ Sequence(s)
  BY DEF Sound, Generation
<1>2. /\ Sequence(t) /\ Len(t) = Len(s) - 1 /\ l = s[1] /\ Len(s) >= 1
      /\ DOMAIN s = 1 .. Len(s) /\ DOMAIN t = 1 .. Len(s) - 1
      /\ \A i \in 1 .. Len(s) - 1 : t[i] = s[i + 1]
  BY <1>1, FirstTakenOff
<1>3. PICK n \in Nat : n = Len(s) /\ n >= 1
  BY <1>1, <1>2 DEF Sequence
(* a: without the match, but with its register still in use.                        *)
<1>4. PICK a : a = [g EXCEPT !.matches = t]
  OBVIOUS
<1>5. a = [stack |-> g.stack, matches |-> t, regs |-> g.regs,
           callee_saved |-> g.callee_saved, code |-> g.code]
  BY <1>4 DEF Sound, Generation
<1>6. /\ a.stack = g.stack /\ a.matches = t /\ a.regs = g.regs
      /\ a.callee_saved = g.callee_saved
  BY <1>5
<1>7. Generation(a)
  BY <1>2, <1>5, <1>6 DEF Sound, Generation
<1>8. \A i \in 1 .. n - 1 : i + 1 \in DOMAIN s /\ t[i] = s[i + 1]
  BY <1>2, <1>3
<1>9. ASSUME Held(g) PROVE Held(a) /\ Holdable(a, l)
  <2>1. \A x : Plain(g, x) => Plain(a, x)
    BY <1>6 DEF Plain
  <2>2. ASSUME NEW i \in 1 .. n - 1 PROVE Plain(a, t[i]) /\ InRegister(t[i])
    BY <1>1, <1>8, <1>9, <2>1 DEF Held
  <2>3. ASSUME NEW i \in 1 .. n - 1, NEW j \in 1 .. n - 1, t[i].reg = t[j].reg PROVE i = j
    <3>1. i + 1 = j + 1
      BY <1>1, <1>8, <1>9, <2>3 DEF Held
    <3> QED
      BY <3>1
  <2>4. ASSUME NEW i \in DOMAIN g.stack, NEW j \in 1 .. n - 1, InRegister(g.stack[i])
        PROVE  t[j].reg # g.stack[i].reg
    BY <1>1, <1>8, <1>9, <2>4 DEF Held
  <2>5. DOMAIN a.matches = 1 .. n - 1 /\ a.matches = t
    BY <1>2, <1>3, <1>6
  <2>6. /\ a.regs \subseteq Scratch \cup Saved /\ a.regs \cap Saved \subseteq a.callee_saved
        /\ \A i \in DOMAIN a.stack : Plain(a, a.stack[i])
        /\ \A i, j \in DOMAIN a.stack :
             InRegister(a.stack[i]) /\ InRegister(a.stack[j])
               /\ a.stack[i].reg = a.stack[j].reg => i = j
    BY <1>6, <1>9, <2>1 DEF Held
  <2>7. Held(a)
    BY <1>6, <2>2, <2>3, <2>4, <2>5, <2>6 DEF Held
  <2>8. 1 \in DOMAIN g.matches /\ l = g.matches[1]
    BY <1>1, <1>2, <1>3
  <2>9. Plain(a, l) /\ InRegister(l)
    BY <1>9, <2>1, <2>8 DEF Held
  <2>10. \A i \in DOMAIN a.stack : InRegister(a.stack[i]) => a.stack[i].reg # l.reg
    BY <1>6, <1>9, <2>8 DEF Held
  <2>11. ASSUME NEW i \in DOMAIN a.matches PROVE a.matches[i].reg # l.reg
    <3>1. i + 1 \in DOMAIN g.matches /\ t[i] = g.matches[i + 1] /\ i + 1 # 1
      BY <1>1, <1>3, <1>8, <2>5
    <3> QED
      BY <1>9, <2>5, <2>8, <3>1 DEF Held
  <2> QED
    BY <2>7, <2>9, <2>10, <2>11 DEF Holdable, Unused
<1>10. Sound(a) /\ (Fatal(a) \/ Holdable(a, l))
  BY <1>6, <1>7, <1>9 DEF Sound, Fatal
<1>11. h = Push(a, l)
  BY <1>1, <1>4 DEF Push, Sound, Generation
<1> QED
  BY <1>7, <1>10, <1>11, Pushed

(* What is held depends on the places and the registers only.                      *)
LEMMA SamePlaces ==
  ASSUME NEW g, NEW h, Held(g), h.stack = g.stack, h.matches = g.matches, h.regs = g.regs,
         h.callee_saved = g.callee_saved
  PROVE  Held(h)
BY DEF Held, Plain

(* Sequences with the same members are the same.                                 *)
LEMMA SameMembers ==
  ASSUME NEW s, Sequence(s), NEW t, Sequence(t), Len(s) = Len(t),
         \A i \in 1 .. Len(s) : s[i] = t[i]
  PROVE  s = t
<1>1. PICK n \in Nat : n = Len(s) /\ s = [i \in 1 .. n |-> s[i]] /\ t = [i \in 1 .. n |-> t[i]]
  BY DEF Sequence
<1>2. [i \in 1 .. n |-> s[i]] = [i \in 1 .. n |-> t[i]]
  BY <1>1
<1> QED
  BY <1>1, <1>2

(* What is put on the stack comes off again.                                      *)
LEMMA PushedPopped ==
  ASSUME NEW g, Generation(g), NEW l, NEW h, h = Push(g, l), NEW d, d = Pop(h, 1)
  PROVE  /\ d.stack = g.stack /\ d.matches = g.matches /\ d.regs = g.regs
         /\ d.callee_saved = g.callee_saved /\ Generation(d)
<1>1. /\ Generation(h) /\ h.matches = g.matches
      /\ h.regs = g.regs /\ h.callee_saved = g.callee_saved
      /\ Len(h.stack) = Len(g.stack) + 1
      /\ \A i \in 1 .. Len(g.stack) : h.stack[i + 1] = g.stack[i]
  BY Pushed
<1>2. Len(g.stack) \in Nat /\ Sequence(g.stack)
  BY DEF Generation, Sequence
<1>3. 1 \in 0 .. Len(h.stack)
  BY <1>1, <1>2
<1>4. /\ Generation(d) /\ d.matches = h.matches /\ d.regs = h.regs
      /\ d.callee_saved = h.callee_saved /\ Len(d.stack) = Len(h.stack) - 1
      /\ \A i \in 1 .. Len(h.stack) - 1 : d.stack[i] = h.stack[i + 1]
  <2>1. Generation(h)
    BY <1>1
  <2> QED
    BY <1>3, <2>1, Popped
<1>5. Sequence(d.stack) /\ Len(d.stack) = Len(g.stack)
  BY <1>1, <1>2, <1>4 DEF Generation
<1>6. \A i \in 1 .. Len(d.stack) : d.stack[i] = g.stack[i]
  BY <1>1, <1>2, <1>4, <1>5
<1>7. d.stack = g.stack
  BY <1>2, <1>5, <1>6, SameMembers
<1> QED
  BY <1>1, <1>4, <1>7

(* One and one more come off as two do.                                           *)
LEMMA PoppedTwice ==
  ASSUME NEW g, Generation(g), Len(g.stack) >= 2, NEW a, a = Pop(g, 1), NEW b, b = Pop(a, 1),
         NEW d, d = Pop(g, 2)
  PROVE  /\ d.stack = b.stack /\ d.matches = b.matches /\ d.regs = b.regs
         /\ d.callee_saved = b.callee_saved /\ Generation(d) /\ Generation(a)
         /\ a.stack[1] = g.stack[2] /\ Len(a.stack) = Len(g.stack) - 1
<1>1. PICK n \in Nat : n = Len(g.stack) /\ n >= 2
  BY DEF Generation, Sequence
<1>2. 1 \in 0 .. Len(g.stack) /\ 2 \in 0 .. Len(g.stack)
  BY <1>1
<1>3. /\ Generation(a) /\ a.matches = g.matches /\ a.regs = g.regs
      /\ a.callee_saved = g.callee_saved /\ Len(a.stack) = n - 1
      /\ \A i \in 1 .. n - 1 : a.stack[i] = g.stack[i + 1]
  BY <1>1, <1>2, Popped
<1>4. /\ Generation(d) /\ d.matches = g.matches /\ d.regs = g.regs
      /\ d.callee_saved = g.callee_saved /\ Len(d.stack) = n - 2
      /\ \A i \in 1 .. n - 2 : d.stack[i] = g.stack[i + 2]
  BY <1>1, <1>2, Popped
<1>5. 1 \in 0 .. Len(a.stack)
  BY <1>1, <1>3
<1>6. /\ Generation(b) /\ b.matches = a.matches /\ b.regs = a.regs
      /\ b.callee_saved = a.callee_saved /\ Len(b.stack) = Len(a.stack) - 1
      /\ \A i \in 1 .. Len(a.stack) - 1 : b.stack[i] = a.stack[i + 1]
  BY <1>3, <1>5, Popped
<1>7. Len(b.stack) = n - 2 /\ \A i \in 1 .. n - 2 : b.stack[i] = g.stack[i + 2]
  <2>1. \A i \in 1 .. n - 2 : /\ i \in 1 .. Len(a.stack) - 1 /\ i + 1 \in 1 .. n - 1
                             /\ (i + 1) + 1 = i + 2
    BY <1>1, <1>3
  <2>2. Len(b.stack) = n - 2
    BY <1>1, <1>3, <1>6
  <2> QED
    BY <1>3, <1>6, <2>1, <2>2
<1>8. Sequence(d.stack) /\ Sequence(b.stack) /\ Len(d.stack) = Len(b.stack)
  BY <1>4, <1>6, <1>7 DEF Generation
<1>9. \A i \in 1 .. Len(d.stack) : d.stack[i] = b.stack[i]
  BY <1>4, <1>7
<1>10. d.stack = b.stack
  BY <1>8, <1>9, SameMembers
<1>11. a.stack[1] = g.stack[2]
  BY <1>1, <1>3
<1> QED
  BY <1>1, <1>3, <1>4, <1>6, <1>10, <1>11

(* A CASE puts a copy on the stack that keeps its register.                        *)
LEMMA CaseCopied ==
  ASSUME NEW g, Generation(g), Held(g), Len(g.stack) >= 1, NEW c,
         NEW h, h = Push(Emit(g, c), [Head(g.stack) EXCEPT !.keep = TRUE])
  PROVE  Generation(h) /\ CopyOnTop(h)
<1>1. Len(g.stack) \in Nat /\ Head(g.stack) = g.stack[1] /\ 1 \in DOMAIN g.stack
  <2>1. Sequence(g.stack) /\ Len(g.stack) \in Nat
    BY DEF Generation, Sequence
  <2>2. g.stack # <<>>
    BY NoneIsSequence
  <2> QED
    BY <2>1, <2>2, FirstTakenOff
<1>2. PICK x, l, a : /\ x = g.stack[1] /\ l = [x EXCEPT !.keep = TRUE] /\ a = Emit(g, c)
                     /\ h = Push(a, l)
  BY <1>1
<1>3. Place(x)
  BY <1>1, <1>2 DEF Held, Plain
<1>4. l.keep = TRUE /\ (InRegister(l) => InRegister(x) /\ l.reg = x.reg)
  BY <1>2, <1>3 DEF Place, InRegister
<1>5. /\ Generation(a) /\ a.stack = g.stack /\ a.matches = g.matches
      /\ a.regs = g.regs /\ a.callee_saved = g.callee_saved
  BY <1>2, Emitted
<1>6. /\ Generation(h) /\ Len(h.stack) = Len(a.stack) + 1 /\ h.stack[1] = l
      /\ \A i \in 1 .. Len(a.stack) : h.stack[i + 1] = a.stack[i]
  BY <1>2, <1>5, Pushed
<1>7. h.stack[2] = x /\ Len(h.stack) >= 2
  <2>1. 1 \in 1 .. Len(a.stack) /\ 1 + 1 = 2 /\ a.stack[1] = x
    BY <1>1, <1>2, <1>5
  <2>2. h.stack[2] = a.stack[1]
    BY <1>6, <2>1
  <2> QED
    BY <1>1, <1>5, <1>6, <2>1, <2>2
<1>8. PICK d : d = Pop(h, 1)
  OBVIOUS
<1>9. /\ d.stack = a.stack /\ d.matches = a.matches /\ d.regs = a.regs
      /\ d.callee_saved = a.callee_saved
  BY <1>2, <1>5, <1>8, PushedPopped
<1>10. Held(d)
  BY <1>5, <1>9, SamePlaces
<1> QED
  BY <1>4, <1>6, <1>7, <1>8, <1>10 DEF CopyOnTop

(* The value of the case comes on top of it.                                      *)
LEMMA ConstantOnTop ==
  ASSUME NEW g, Generation(g), CopyOnTop(g), NEW value, NEW h, h = Push(g, Immediate(value))
  PROVE  Generation(h) /\ HeldWith(h, 2)
<1>1. Len(g.stack) \in Nat /\ Sequence(g.stack)
  BY DEF Generation, Sequence
<1>2. PICK l : l = Immediate(value) /\ ~InRegister(l)
  BY PlacesMade
<1>3. /\ Generation(h) /\ Len(h.stack) = Len(g.stack) + 1 /\ h.stack[1] = l
  BY <1>2, Pushed
<1>4. PICK d : d = Pop(h, 1)
  OBVIOUS
<1>5. /\ d.stack = g.stack /\ d.matches = g.matches /\ d.regs = g.regs
      /\ d.callee_saved = g.callee_saved /\ Generation(d)
  BY <1>4, PushedPopped
<1>6. PICK a, b : a = Pop(g, 1) /\ b = Pop(d, 1)
  OBVIOUS
<1>7. /\ b.stack = a.stack /\ b.matches = a.matches /\ b.regs = a.regs
      /\ b.callee_saved = a.callee_saved
  <2>1. 1 \in 0 .. Len(g.stack) /\ 1 \in 0 .. Len(d.stack)
    BY <1>1, <1>5 DEF CopyOnTop
  <2>2. a.stack = SubSeq(g.stack, 2, Len(g.stack)) /\ b.stack = SubSeq(d.stack, 2, Len(d.stack))
    BY <1>5, <1>6 DEF Pop, Generation
  <2>3. a.matches = g.matches /\ a.regs = g.regs /\ a.callee_saved = g.callee_saved
    BY <1>6, <2>1, Popped
  <2>4. b.matches = d.matches /\ b.regs = d.regs /\ b.callee_saved = d.callee_saved
    BY <1>5, <1>6, <2>1, Popped
  <2> QED
    BY <1>5, <2>2, <2>3, <2>4
<1>8. Held(b)
  BY <1>6, <1>7, SamePlaces DEF CopyOnTop
<1>9. CopyOnTop(d)
  BY <1>5, <1>6, <1>8 DEF CopyOnTop
<1>10. Len(h.stack) >= 3
  BY <1>1, <1>3 DEF CopyOnTop
<1> QED
  BY <1>2, <1>3, <1>4, <1>9, <1>10 DEF HeldWith

(* A WHEN compares them, and the value of the match is left.                       *)
LEMMA CaseCompared ==
  ASSUME NEW g, Generation(g), HeldWith(g, 2), InRegister(g.stack[2]), NEW label
  PROVE  Sound(JumpIfFalse(arm64operator_apply_binary(g, "EQUALS", "bool"), label))
<1>1. /\ Len(g.stack) >= 3 /\ Len(g.stack) \in Nat /\ ~InRegister(g.stack[1])
      /\ CopyOnTop(Pop(g, 1))
  BY DEF HeldWith, Generation, Sequence
<1>2. PICK a, b, d : a = Pop(g, 1) /\ b = Pop(a, 1) /\ d = Pop(g, 2)
  OBVIOUS
<1>3. Len(g.stack) >= 2
  BY <1>1
<1>4. /\ d.stack = b.stack /\ d.matches = b.matches /\ d.regs = b.regs
      /\ d.callee_saved = b.callee_saved /\ Generation(d) /\ Generation(a)
      /\ a.stack[1] = g.stack[2]
  BY <1>2, <1>3, PoppedTwice
<1>5. Held(b) /\ a.stack[1].keep
  BY <1>1, <1>2 DEF CopyOnTop
<1>6. Held(d)
  BY <1>4, <1>5, SamePlaces
<1>7. Sound(d)
  BY <1>4, <1>6 DEF Sound
<1>8. g.stack[2].keep
  BY <1>4, <1>5
<1>9. PICK h : h = arm64operator_apply_binary(g, "EQUALS", "bool")
  OBVIOUS
<1>10. Sound(h) /\ Len(h.stack) = Len(g.stack) - 1
  BY <1>1, <1>2, <1>3, <1>7, <1>8, <1>9, AppliedBinary
<1>11. Len(h.stack) >= 1
  BY <1>1, <1>10
<1> QED
  BY <1>9, <1>10, <1>11, JumpedIfFalse

(* Two operands that are held.                                                   *)
LEMMA AppliedHeld ==
  ASSUME NEW g, Sound(g), Len(g.stack) >= 2, InRegister(g.stack[2]), NEW operator, NEW lhs_type,
         NEW h, h = arm64operator_apply_binary(g, operator, lhs_type)
  PROVE  Sound(h) /\ Len(h.stack) = Len(g.stack) - 1
<1>1. Generation(g) /\ Len(g.stack) \in Nat /\ 2 \in 0 .. Len(g.stack)
  BY DEF Sound, Generation, Sequence
<1>2. PICK d : d = Pop(g, 2)
  OBVIOUS
<1>3. /\ Sound(d) /\ d.regs = g.regs
      /\ \A i \in 1 .. 2 : Fatal(d) \/ Holdable(d, g.stack[i])
  BY <1>1, <1>2, Popped
<1>4. Fatal(g) \/ (Holdable(d, g.stack[1]) /\ Holdable(d, g.stack[2]))
  BY <1>3 DEF Fatal
<1> QED
  BY <1>1, <1>2, <1>3, <1>4, AppliedBinary

-----------------------------------------------------------------------------
(* All places of a generation, those of the matches last.                        *)

Places(g) == g.stack \o g.matches

(* One of the stack or one of the matches.                                       *)
LEMMA PlacesAre ==
  ASSUME NEW g, Generation(g)
  PROVE  /\ Len(g.stack) \in Nat /\ Len(g.matches) \in Nat
         /\ DOMAIN g.stack = 1 .. Len(g.stack) /\ DOMAIN g.matches = 1 .. Len(g.matches)
         /\ Len(Places(g)) = Len(g.stack) + Len(g.matches)
         /\ DOMAIN Places(g) = 1 .. Len(g.stack) + Len(g.matches)
         /\ \A i \in 1 .. Len(g.stack) + Len(g.matches) :
              Places(g)[i] = IF i <= Len(g.stack) THEN g.stack[i]
                             ELSE g.matches[i - Len(g.stack)]
<1>1. PICK s, t : s = g.stack /\ t = g.matches /\ Sequence(s) /\ Sequence(t)
  BY DEF Generation
<1>2. PICK m \in Nat, n \in Nat : m = Len(s) /\ n = Len(t)
  BY <1>1 DEF Sequence
<1> DEFINE S == {s[i] : i \in 1 .. m} \cup {t[i] : i \in 1 .. n}
<1>3. (\A i \in 1 .. m : s[i] \in S) /\ (\A i \in 1 .. n : t[i] \in S)
  OBVIOUS
<1> HIDE DEF S
<1>4. s \in Seq(S) /\ t \in Seq(S) /\ DOMAIN s = 1 .. m /\ DOMAIN t = 1 .. n
  <2>1. s \in Seq(S) /\ DOMAIN s = 1 .. m
    BY <1>1, <1>2, <1>3, SequenceOver
  <2>2. t \in Seq(S) /\ DOMAIN t = 1 .. n
    BY <1>1, <1>2, <1>3, SequenceOver
  <2> QED
    BY <2>1, <2>2
<1>5. /\ s \o t \in Seq(S) /\ Len(s \o t) = m + n
      /\ \A i \in 1 .. m + n : (s \o t)[i] = IF i <= m THEN s[i] ELSE t[i - m]
  BY <1>2, <1>4, ConcatProperties
<1>6. DOMAIN (s \o t) = 1 .. m + n
  BY <1>5, LenProperties
<1> QED
  BY <1>1, <1>2, <1>4, <1>5, <1>6 DEF Places

(* What is held is held once.                                                    *)
LEMMA HeldOnce ==
  ASSUME NEW g, Generation(g), Held(g), NEW i \in DOMAIN Places(g), InRegister(Places(g)[i])
  PROVE  /\ Places(g)[i].reg \in g.regs
         /\ \A j \in DOMAIN Places(g) :
              InRegister(Places(g)[j]) /\ Places(g)[j].reg = Places(g)[i].reg => i = j
<1>1. PICK m \in Nat, n \in Nat : m = Len(g.stack) /\ n = Len(g.matches)
  BY PlacesAre
<1>2. /\ DOMAIN g.stack = 1 .. m /\ DOMAIN g.matches = 1 .. n /\ DOMAIN Places(g) = 1 .. m + n
      /\ \A k \in 1 .. m + n :
           Places(g)[k] = IF k <= m THEN g.stack[k] ELSE g.matches[k - m]
  BY <1>1, PlacesAre
<1>3. ASSUME NEW k \in 1 .. m + n
      PROVE  \/ k \in DOMAIN g.stack /\ Places(g)[k] = g.stack[k]
             \/ k - m \in DOMAIN g.matches /\ Places(g)[k] = g.matches[k - m]
  <2>1. k \in 1 .. m \/ (k - m \in 1 .. n /\ ~ (k <= m))
    OBVIOUS
  <2> QED
    BY <1>2, <2>1
<1>4. Places(g)[i].reg \in g.regs
  BY <1>2, <1>3 DEF Held, Plain
<1>5. ASSUME NEW j \in DOMAIN Places(g), InRegister(Places(g)[j]),
             Places(g)[j].reg = Places(g)[i].reg
      PROVE  i = j
  <2>1. CASE i \in DOMAIN g.stack /\ Places(g)[i] = g.stack[i]
    <3>1. ~ (j - m \in DOMAIN g.matches /\ Places(g)[j] = g.matches[j - m])
      BY <1>5, <2>1 DEF Held
    <3>2. j \in DOMAIN g.stack /\ Places(g)[j] = g.stack[j]
      BY <1>2, <1>3, <1>5, <3>1
    <3> QED
      BY <1>5, <2>1, <3>2 DEF Held
  <2>2. CASE i - m \in DOMAIN g.matches /\ Places(g)[i] = g.matches[i - m]
    <3>1. ~ (j \in DOMAIN g.stack /\ Places(g)[j] = g.stack[j])
      BY <1>5, <2>2 DEF Held
    <3>2. j - m \in DOMAIN g.matches /\ Places(g)[j] = g.matches[j - m]
      BY <1>2, <1>3, <1>5, <3>1
    <3>3. i - m = j - m
      BY <1>5, <2>2, <3>2 DEF Held
    <3>4. i \in Int /\ j \in Int
      BY <1>2, <1>5
    <3> QED
      BY <3>3, <3>4
  <2> QED
    BY <1>2, <1>3, <2>1, <2>2
<1> QED
  BY <1>4, <1>5

(* Without the top of the stack the others are one place further up.               *)
LEMMA PlacesBelow ==
  ASSUME NEW g, Generation(g), Len(g.stack) >= 1, NEW d, d = Pop(g, 1)
  PROVE  /\ Generation(d) /\ d.regs = g.regs
         /\ DOMAIN Places(g) \subseteq Nat /\ DOMAIN Places(d) \subseteq Nat
         /\ Places(g)[1] = g.stack[1]
         /\ \A i \in DOMAIN Places(d) :
              i + 1 \in DOMAIN Places(g) /\ Places(g)[i + 1] = Places(d)[i]
         /\ \A i \in DOMAIN Places(g) :
              i >= 1 /\ (i # 1 => /\ i - 1 \in DOMAIN Places(d)
                                  /\ Places(g)[i] = Places(d)[i - 1])
<1>1. PICK m \in Nat, n \in Nat : m = Len(g.stack) /\ n = Len(g.matches) /\ m >= 1
  BY PlacesAre
<1>2. /\ DOMAIN Places(g) = 1 .. m + n
      /\ \A k \in 1 .. m + n :
           Places(g)[k] = IF k <= m THEN g.stack[k] ELSE g.matches[k - m]
  BY <1>1, PlacesAre
<1>3. 1 \in 0 .. Len(g.stack)
  BY <1>1
<1>4. /\ Generation(d) /\ d.matches = g.matches /\ d.regs = g.regs
      /\ Len(d.stack) = m - 1 /\ \A i \in 1 .. m - 1 : d.stack[i] = g.stack[i + 1]
  BY <1>1, <1>3, Popped
<1>5. /\ DOMAIN Places(d) = 1 .. (m - 1) + n
      /\ \A k \in 1 .. (m - 1) + n :
           Places(d)[k] = IF k <= m - 1 THEN d.stack[k] ELSE d.matches[k - (m - 1)]
  <2>1. Generation(d) /\ Len(d.stack) = m - 1 /\ Len(d.matches) = n
    BY <1>1, <1>4
  <2> QED
    BY <2>1, PlacesAre
<1>6. m \in Nat /\ n \in Nat /\ m >= 1
  BY <1>1
<1>7. ASSUME NEW i \in 1 .. (m - 1) + n
      PROVE  i + 1 \in 1 .. m + n /\ Places(g)[i + 1] = Places(d)[i]
  <2>1. i \in Nat /\ i >= 1 /\ i <= (m - 1) + n
    BY <1>6
  <2>2. i + 1 \in 1 .. m + n /\ (i + 1) - m = i - (m - 1)
    BY <1>6, <2>1
  <2>3. (i + 1 <= m => i <= m - 1) /\ (i <= m - 1 => i + 1 <= m)
    BY <1>6, <2>1
  <2>4. i + 1 \in 1 .. m + n /\ (i + 1) - m = i - (m - 1) /\ (i + 1 <= m <=> i <= m - 1)
    BY <2>2, <2>3
  <2>5. Places(g)[i + 1] = IF i <= m - 1 THEN g.stack[i + 1] ELSE g.matches[i - (m - 1)]
    BY <1>2, <2>4
  <2>6. i <= m - 1 => d.stack[i] = g.stack[i + 1]
    BY <1>4
  <2> QED
    BY <1>4, <1>5, <2>4, <2>5, <2>6
<1>8. ASSUME NEW i \in 1 .. m + n, i # 1
      PROVE  i - 1 \in 1 .. (m - 1) + n /\ Places(g)[i] = Places(d)[i - 1]
  <2>1. i \in Nat /\ i >= 1 /\ i <= m + n
    BY <1>6
  <2>2. i - 1 \in 1 .. (m - 1) + n /\ (i - 1) + 1 = i
    BY <1>8, <1>6, <2>1
  <2> QED
    BY <1>7, <2>2
<1>9. Places(g)[1] = g.stack[1] /\ 1 \in 1 .. m + n
  <2>1. 1 \in 1 .. m + n /\ 1 <= m
    BY <1>6
  <2> QED
    BY <1>2, <2>1
<1> QED
  BY <1>2, <1>4, <1>5, <1>7, <1>8, <1>9

(* A copy on top shares its register with what is below it, and with nothing else.  *)
LEMMA CopyShares ==
  ASSUME NEW g, Generation(g), CopyOnTop(g), NEW i \in DOMAIN Places(g),
         InRegister(Places(g)[i])
  PROVE  /\ Places(g)[i].reg \in g.regs
         /\ \A j \in DOMAIN Places(g) :
              InRegister(Places(g)[j]) /\ i < j /\ Places(g)[j].reg = Places(g)[i].reg =>
                Places(g)[i].keep /\ j = i + 1
<1>1. PICK d : d = Pop(g, 1) /\ Held(d)
  BY DEF CopyOnTop
<1>2. Len(g.stack) >= 2 /\ Len(g.stack) >= 1 /\ Len(g.stack) \in Nat
  BY PlacesAre DEF CopyOnTop
<1>3. /\ Generation(d) /\ d.regs = g.regs
      /\ DOMAIN Places(g) \subseteq Nat /\ DOMAIN Places(d) \subseteq Nat
      /\ Places(g)[1] = g.stack[1]
      /\ \A k \in DOMAIN Places(g) :
           k >= 1 /\ (k # 1 => /\ k - 1 \in DOMAIN Places(d)
                               /\ Places(g)[k] = Places(d)[k - 1])
  BY <1>1, <1>2, PlacesBelow
<1>4. 2 \in DOMAIN Places(g) /\ Places(g)[2] = g.stack[2]
  <2>1. PICK m \in Nat, n \in Nat : m = Len(g.stack) /\ n = Len(g.matches) /\ m >= 2
    BY <1>2, PlacesAre
  <2>2. m >= 2
    BY <2>1
  <2>3. 2 \in 1 .. m + n /\ 2 <= m
    BY <2>2
  <2> QED
    BY <2>1, <2>3, PlacesAre
<1>5. 1 \in DOMAIN Places(d) /\ Places(d)[1] = g.stack[2]
  BY <1>3, <1>4
<1>6. CASE i = 1
  <2>1. /\ g.stack[1].keep /\ InRegister(g.stack[1])
        /\ InRegister(g.stack[2]) /\ g.stack[1].reg = g.stack[2].reg
    BY <1>3, <1>6 DEF CopyOnTop
  <2>2. Places(g)[i].reg \in g.regs
    BY <1>1, <1>3, <1>5, <1>6, <2>1, HeldOnce
  <2>3. ASSUME NEW j \in DOMAIN Places(g), InRegister(Places(g)[j]), i < j,
               Places(g)[j].reg = Places(g)[i].reg
        PROVE  j = i + 1
    <3>1. j - 1 \in DOMAIN Places(d) /\ Places(g)[j] = Places(d)[j - 1]
      BY <1>3, <1>6, <2>3
    <3>2. j - 1 = 1
      BY <1>1, <1>3, <1>5, <1>6, <2>1, <2>3, <3>1, HeldOnce
    <3>3. j \in Nat
      BY <1>3
    <3> QED
      BY <1>6, <3>2, <3>3
  <2> QED
    BY <1>3, <1>6, <2>1, <2>2, <2>3
<1>7. CASE i # 1
  <2>1. i - 1 \in DOMAIN Places(d) /\ Places(g)[i] = Places(d)[i - 1] /\ i \in Nat
    BY <1>3, <1>7
  <2>2. Places(g)[i].reg \in g.regs
    BY <1>1, <1>3, <2>1, HeldOnce
  <2>3. ASSUME NEW j \in DOMAIN Places(g), InRegister(Places(g)[j]), i < j,
               Places(g)[j].reg = Places(g)[i].reg
        PROVE  FALSE
    <3>1. j # 1 /\ j \in Nat
      BY <1>3, <1>7, <2>1, <2>3
    <3>2. j - 1 \in DOMAIN Places(d) /\ Places(g)[j] = Places(d)[j - 1]
      BY <1>3, <3>1
    <3>3. i - 1 = j - 1
      BY <1>1, <1>3, <2>1, <2>3, <3>2, HeldOnce
    <3> QED
      BY <2>1, <2>3, <3>1, <3>3
  <2> QED
    BY <2>2, <2>3
<1> QED
  BY <1>6, <1>7

(* Where the second pass is makes no difference.                                  *)
LEMMA HoldingHolds ==
  ASSUME NEW g, Generation(g), NEW p \in 0 .. 2, HeldWith(g, p), NEW i \in DOMAIN Places(g),
         InRegister(Places(g)[i])
  PROVE  /\ Places(g)[i].reg \in g.regs
         /\ \A j \in DOMAIN Places(g) :
              InRegister(Places(g)[j]) /\ i < j /\ Places(g)[i].reg = Places(g)[j].reg =>
                Places(g)[i].keep /\ j = i + 1
<1>1. CASE p = 0
  <2>1. Held(g) /\ DOMAIN Places(g) \subseteq Nat
    BY <1>1, PlacesAre DEF HeldWith
  <2> QED
    BY <2>1, HeldOnce
<1>2. CASE p = 1
  <2>1. CopyOnTop(g)
    BY <1>2 DEF HeldWith
  <2> QED
    BY <2>1, CopyShares
<1>3. CASE p = 2
  <2>1. /\ ~InRegister(g.stack[1]) /\ CopyOnTop(Pop(g, 1)) /\ Len(g.stack) >= 1
        /\ Len(g.stack) \in Nat
    BY <1>3, PlacesAre DEF HeldWith
  <2>2. PICK d : d = Pop(g, 1)
    OBVIOUS
  <2>3. /\ Generation(d) /\ d.regs = g.regs
        /\ DOMAIN Places(g) \subseteq Nat /\ DOMAIN Places(d) \subseteq Nat
        /\ Places(g)[1] = g.stack[1]
        /\ \A k \in DOMAIN Places(g) :
             k >= 1 /\ (k # 1 => /\ k - 1 \in DOMAIN Places(d)
                                 /\ Places(g)[k] = Places(d)[k - 1])
    BY <2>1, <2>2, PlacesBelow
  <2>4. i # 1
    BY <2>1, <2>3
  <2>5. i - 1 \in DOMAIN Places(d) /\ Places(g)[i] = Places(d)[i - 1] /\ i \in Nat
    BY <2>3, <2>4
  <2>6. /\ Places(g)[i].reg \in g.regs
        /\ \A j \in DOMAIN Places(d) :
             InRegister(Places(d)[j]) /\ i - 1 < j /\ Places(d)[j].reg = Places(g)[i].reg =>
               Places(g)[i].keep /\ j = (i - 1) + 1
    BY <2>1, <2>2, <2>3, <2>5, CopyShares
  <2>7. ASSUME NEW j \in DOMAIN Places(g), InRegister(Places(g)[j]), i < j,
               Places(g)[i].reg = Places(g)[j].reg
        PROVE  Places(g)[i].keep /\ j = i + 1
    <3>1. j \in Nat /\ j # 1
      BY <2>3, <2>5, <2>7
    <3>2. j - 1 \in DOMAIN Places(d) /\ Places(g)[j] = Places(d)[j - 1] /\ i - 1 < j - 1
      BY <2>3, <2>5, <2>7, <3>1
    <3>3. Places(g)[i].keep /\ j - 1 = (i - 1) + 1
      BY <2>6, <2>7, <3>2
    <3> QED
      BY <2>5, <3>1, <3>3
  <2> QED
    BY <2>6, <2>7
<1> QED
  BY <1>1, <1>2, <1>3

-----------------------------------------------------------------------------
(* The second pass: its steps.                                                   *)

(* Where the pass is between a CASE and its WHEN.                                  *)
LEMMA PointsCompared ==
  ASSUME NEW o, WellFormed(o), NEW k \in 1 .. Len(o)
  PROVE  /\ Compared(o, k) \in 0 .. 2 /\ Compared(o, k + 1) \in 0 .. 2
         /\ o[k].op \notin {"PUSH_BOOL_CONSTANT", "WHEN"} => Compared(o, k) = 0
         /\ o[k].op = "CASE" => Compared(o, k + 1) = 1
         /\ o[k].op = "PUSH_BOOL_CONSTANT" =>
              \/ Compared(o, k) = 0 /\ Compared(o, k + 1) = 0
              \/ Compared(o, k) = 1 /\ Compared(o, k + 1) = 2
         /\ o[k].op = "WHEN" => Compared(o, k) \in {0, 2}
         /\ o[k].op \notin {"CASE", "PUSH_BOOL_CONSTANT"} => Compared(o, k + 1) = 0
<1>1. /\ Len(o) \in Nat /\ DOMAIN o = 1 .. Len(o)
      /\ \A j \in DOMAIN o : o[j].op = "CASE" =>
           /\ o[j + 1].op = "PUSH_BOOL_CONSTANT" /\ o[j + 2].op = "WHEN"
  BY DEF WellFormed
<1>2. /\ k \in Nat /\ k >= 1 /\ (k + 1) - 1 = k /\ (k + 1) - 2 = k - 1
      /\ k + 1 > 1 /\ (k + 1 > 2 <=> k > 1)
  BY <1>1
<1>3. Compared(o, k + 1) = IF o[k].op = "CASE" THEN 1
                           ELSE IF k > 1 /\ o[k - 1].op = "CASE" THEN 2 ELSE 0
  BY <1>2 DEF Compared
<1>4. k > 1 /\ o[k - 1].op = "CASE" => o[k].op = "PUSH_BOOL_CONSTANT"
  <2>1. SUFFICES ASSUME k > 1, o[k - 1].op = "CASE" PROVE o[k].op = "PUSH_BOOL_CONSTANT"
    OBVIOUS
  <2>2. k - 1 \in DOMAIN o /\ (k - 1) + 1 = k
    BY <1>1, <1>2, <2>1
  <2> QED
    BY <1>1, <2>1, <2>2
<1>5. k > 2 /\ o[k - 2].op = "CASE" => o[k].op = "WHEN"
  <2>1. SUFFICES ASSUME k > 2, o[k - 2].op = "CASE" PROVE o[k].op = "WHEN"
    OBVIOUS
  <2>2. k - 2 \in DOMAIN o /\ (k - 2) + 2 = k
    BY <1>1, <1>2, <2>1
  <2> QED
    BY <1>1, <2>1, <2>2
<1>6. Compared(o, k) = IF k > 1 /\ o[k - 1].op = "CASE" THEN 1
                       ELSE IF k > 2 /\ o[k - 2].op = "CASE" THEN 2 ELSE 0
  BY DEF Compared
<1> QED
  BY <1>3, <1>4, <1>5, <1>6

Stays == UNCHANGED <<walk, gen>>

(* On to the next operation.                                                     *)
Moves(scope) ==
  walk' = [walk EXCEPT !.at = @ + 1, !.scope = scope] /\ NoRegister \notin gen'.regs

(* What a step of the second pass has to show.                                    *)
LEMMA StepKept ==
  ASSUME IInv, walk # <<>>, walk.at <= Len(walk.ops), UNCHANGED <<source, todo>>,
         missteps \subseteq missteps', NEW scope,
         scope = Layouts(program[walk.fn], walk.ops)[walk.at].scope,
         \/ Stays
         \/ /\ Moves(scope)
            /\ "unary" \notin missteps' =>
                 Generation(gen') /\ HeldWith(gen', Compared(walk.ops, walk.at + 1))
  PROVE  IInv'
<1>1. /\ Walking /\ source \in DOMAIN Sources /\ todo \in Seq(Compiled) /\ todo # <<>>
      /\ "unary" \notin missteps => Holding
  BY DEF IInv
<1>2. /\ source' \in DOMAIN Sources /\ todo' \in Seq(Compiled)' /\ Compiled' = Compiled
      /\ program' = program /\ todo' # <<>>
  BY <1>1 DEF Compiled, program
<1>3. CASE Stays
  <2>1. Walking'
    BY <1>1, <1>2, <1>3 DEF Walking, Stays
  <2>2. "unary" \notin missteps' => Holding'
    BY <1>1, <1>3 DEF Holding, Stays
  <2>3. (gen # <<>> => walk # <<>>)'
    BY <1>3 DEF Stays
  <2> QED
    BY <1>2, <2>1, <2>2, <2>3 DEF IInv
<1>4. CASE Moves(scope) /\ ("unary" \notin missteps' =>
             Generation(gen') /\ HeldWith(gen', Compared(walk.ops, walk.at + 1)))
  <2>1. /\ walk' = [fn |-> walk.fn, ops |-> walk.ops, frame |-> walk.frame, at |-> walk.at + 1,
                    scope |-> scope]
    BY <1>1, <1>4 DEF Walking, Moves
  <2>2. /\ walk'.fn = walk.fn /\ walk'.ops = walk.ops /\ walk'.frame = walk.frame
        /\ walk'.at = walk.at + 1 /\ walk'.scope = scope
    BY <2>1
  <2>3. walk' # <<>>
    <3>1. "fn" \in DOMAIN walk' /\ DOMAIN <<>> = {}
      BY <2>1
    <3> QED
      BY <3>1
  <2>4. Len(walk.ops) \in Nat
    BY <1>1, CompiledFits DEF Walking, WellFormed
  <2>5. walk.at + 1 \in 1 .. Len(walk.ops) + 1 /\ (walk.at + 1) - 1 = walk.at
    BY <1>1, <2>4 DEF Walking
  <2>6. Walking'
    <3>1. /\ walk' = [fn |-> walk'.fn, ops |-> walk'.ops, frame |-> walk'.frame,
                      at |-> walk'.at, scope |-> walk'.scope]
      BY <2>1, <2>2
    <3>2. /\ walk'.fn \in Compiled' /\ walk'.ops = Operations[source'][walk'.fn]
          /\ walk'.frame = Layouts(program'[walk'.fn], walk'.ops)[Len(walk'.ops)]
      BY <1>1, <1>2, <2>2 DEF Walking
    <3>3. walk'.at \in 1 .. Len(walk'.ops) + 1
      BY <2>2, <2>5
    <3>4. walk'.scope = Layouts(program'[walk'.fn], walk'.ops)[walk'.at - 1].scope
      BY <1>2, <2>2, <2>5
    <3> QED
      BY <3>1, <3>2, <3>3, <3>4 DEF Walking
  <2>7. "unary" \notin missteps' => Holding'
    BY <1>4, <2>2 DEF Holding, Fatal, Moves
  <2> QED
    BY <1>2, <2>3, <2>6, <2>7 DEF IInv
<1> QED
  BY <1>3, <1>4

(* An operation that has nothing to do with scopes stays in its own.                *)
LEMMA SameScope ==
  ASSUME IInv, walk # <<>>, walk.at <= Len(walk.ops),
         walk.ops[walk.at].op \notin {"SCOPE_BEGIN", "SCOPE_END"}
  PROVE  walk.scope = Layouts(program[walk.fn], walk.ops)[walk.at].scope
<1>1. Walking /\ source \in DOMAIN Sources
  BY DEF IInv
<1>2. PICK o : o = walk.ops /\ WellFormed(o)
  BY <1>1, CompiledFits DEF Walking
<1>3. Len(o) \in Nat /\ Parameters(program[walk.fn].parameters)
  BY <1>1, <1>2, CompiledFits DEF Walking, WellFormed
<1>4. PICK f : /\ f = Layouts(program[walk.fn], o)
               /\ \A k \in 0 .. Len(o) : LaidOut(f[k], k, o)
               /\ \A k \in 1 .. Len(o) : f[k] = LayOut(f[k - 1], k, o[k])
  BY <1>2, <1>3, LayoutsComputed, LayoutsKept
<1>5. PICK k \in 1 .. Len(o) : k = walk.at
  BY <1>1, <1>2, <1>3 DEF Walking
<1>6. PICK L, M : L = f[k - 1] /\ M = f[k]
  OBVIOUS
<1>7. k - 1 \in 0 .. Len(o)
  BY <1>3
<1>8. /\ M = LayOut(L, k, o[k])
      /\ L = [scope |-> L.scope, stack_depth |-> L.stack_depth, scopes |-> L.scopes]
  BY <1>4, <1>6, <1>7 DEF LaidOut, Frames
<1>9. M.scope = L.scope
  <2>1. CASE o[k].op = "DECL_VAR"
    BY <1>8, <2>1 DEF LayOut, DeclareVar
  <2>2. CASE o[k].op # "DECL_VAR"
    BY <1>2, <1>5, <1>8, <2>2 DEF LayOut
  <2> QED
    BY <2>1, <2>2
<1> QED
  BY <1>1, <1>2, <1>4, <1>5, <1>6, <1>9 DEF Walking

(* The three cases of HeldWith.                                                  *)
LEMMA HeldCases ==
  ASSUME NEW g
  PROVE  /\ HeldWith(g, 0) <=> Held(g)
         /\ HeldWith(g, 1) <=> CopyOnTop(g)
         /\ HeldWith(g, 2) <=>
              Len(g.stack) >= 3 /\ ~InRegister(g.stack[1]) /\ CopyOnTop(Pop(g, 1))
BY DEF HeldWith

(* The operations that no CASE depends on.                                        *)
LEMMA OrdinaryKept ==
  ASSUME IInv, walk # <<>>, walk.at <= Len(walk.ops),
         walk.ops[walk.at].op \notin {"CASE", "PUSH_BOOL_CONSTANT", "WHEN", "SCOPE_BEGIN",
                                      "SCOPE_END"},
         UNCHANGED <<source, todo>>, missteps \subseteq missteps',
         \/ Stays
         \/ /\ Moves(walk.scope)
            /\ "unary" \notin missteps' /\ Generation(gen) /\ Held(gen) => Sound(gen')
  PROVE  IInv'
<1>1. Walking /\ source \in DOMAIN Sources
  BY DEF IInv
<1>2. PICK o : o = walk.ops /\ WellFormed(o) /\ Len(o) \in Nat
  BY <1>1, CompiledFits DEF Walking, WellFormed
<1>3. PICK k \in 1 .. Len(o) : k = walk.at
  BY <1>1, <1>2 DEF Walking
<1>4. Compared(o, k) = 0 /\ Compared(o, k + 1) = 0
  BY <1>2, <1>3, PointsCompared
<1>5. "unary" \notin missteps' => Generation(gen) /\ Held(gen)
  <2> SUFFICES ASSUME "unary" \notin missteps' PROVE Generation(gen) /\ Held(gen)
    OBVIOUS
  <2>1. Generation(gen) /\ HeldWith(gen, Compared(walk.ops, walk.at))
    BY DEF IInv, Holding
  <2>2. Compared(walk.ops, walk.at) = 0
    BY <1>2, <1>3, <1>4
  <2> QED
    BY <2>1, <2>2, HeldCases
<1>6. walk.scope = Layouts(program[walk.fn], walk.ops)[walk.at].scope
  BY SameScope
<1>7. ASSUME Moves(walk.scope), "unary" \notin missteps', Sound(gen')
      PROVE  Generation(gen') /\ HeldWith(gen', Compared(walk.ops, walk.at + 1))
  <2>1. Compared(walk.ops, walk.at + 1) = 0
    BY <1>2, <1>3, <1>4
  <2>2. ~Fatal(gen')
    BY <1>7 DEF Moves, Fatal
  <2>3. Generation(gen') /\ Held(gen')
    BY <1>7, <2>2 DEF Sound
  <2> QED
    BY <2>1, <2>3, HeldCases
<1> QED
  BY <1>5, <1>6, <1>7, StepKept

(* The top of the stack, when there is one.                                       *)
LEMMA TopIs ==
  ASSUME NEW g, Generation(g), Len(g.stack) >= 1
  PROVE  Head(g.stack) = g.stack[1] /\ 1 \in 0 .. Len(g.stack) /\ Len(g.stack) \in Nat
<1>1. Sequence(g.stack) /\ Len(g.stack) \in Nat
  BY DEF Generation, Sequence
<1>2. g.stack # <<>>
  BY NoneIsSequence
<1> QED
  BY <1>1, <1>2, FirstTakenOff

(* What the generation is after IR_JUMP.                                         *)
LEMMA JumpAlwaysKept ==
  ASSUME IInv, JumpAlways
  PROVE  IInv'
<1>1. PICK g : g = Emit(gen, <<B(CodeLabel(op.label))>>)
  OBVIOUS
<1>2. Generation(gen) /\ Held(gen) => Sound(g)
  BY <1>1, Emitted DEF Sound
<1>3. /\ walk # <<>> /\ walk.at <= Len(walk.ops) /\ walk.ops[walk.at].op = "JUMP"
      /\ UNCHANGED <<source, todo>> /\ missteps \subseteq missteps'
      /\ Stays \/ (Moves(walk.scope) /\ gen' = g)
  BY <1>1 DEF JumpAlways, Operation, Generated, GeneratedIn, Stays, Moves, op
<1> QED
  BY <1>2, <1>3, OrdinaryKept

(* IR_LABEL.                                                                    *)
LEMMA LabelHereKept ==
  ASSUME IInv, LabelHere
  PROVE  IInv'
<1>1. PICK g : g = Emit(gen, <<At(CodeLabel(op.label))>>)
  OBVIOUS
<1>2. Generation(gen) /\ Held(gen) => Sound(g)
  BY <1>1, Emitted DEF Sound
<1>3. /\ walk # <<>> /\ walk.at <= Len(walk.ops) /\ walk.ops[walk.at].op = "LABEL"
      /\ UNCHANGED <<source, todo>> /\ missteps \subseteq missteps'
      /\ Stays \/ (Moves(walk.scope) /\ gen' = g)
  BY <1>1 DEF LabelHere, Operation, Generated, GeneratedIn, Stays, Moves
<1> QED
  BY <1>2, <1>3, OrdinaryKept

(* IR_DECL_VAR.                                                                 *)
LEMMA DeclareVariableKept ==
  ASSUME IInv, DeclareVariable
  PROVE  IInv'
<1>1. PICK g : g = gen
  OBVIOUS
<1>2. Generation(gen) /\ Held(gen) => Sound(g)
  BY <1>1 DEF Sound
<1>3. /\ walk # <<>> /\ walk.at <= Len(walk.ops) /\ walk.ops[walk.at].op = "DECL_VAR"
      /\ UNCHANGED <<source, todo>> /\ missteps \subseteq missteps'
      /\ Stays \/ (Moves(walk.scope) /\ gen' = g)
  BY <1>1 DEF DeclareVariable, Operation, Generated, GeneratedIn, Stays, Moves
<1> QED
  BY <1>2, <1>3, OrdinaryKept

(* IR_MATCH.                                                                    *)
LEMMA MatchKept ==
  ASSUME IInv, Match
  PROVE  IInv'
<1>1. PICK g : g = WithMatch(Hold(gen, NextFree(gen)), Register(op.type, NextFree(gen)))
  OBVIOUS
<1>2. Generation(gen) /\ Held(gen) => Sound(g)
  <2> SUFFICES ASSUME Generation(gen), Held(gen) PROVE Sound(g)
    OBVIOUS
  <2>1. PICK r : r = NextFree(gen)
    OBVIOUS
  <2> QED
    BY <1>1, <2>1, MatchHeld DEF Sound
<1>3. /\ walk # <<>> /\ walk.at <= Len(walk.ops) /\ walk.ops[walk.at].op = "MATCH"
      /\ UNCHANGED <<source, todo>> /\ missteps \subseteq missteps'
      /\ Stays \/ (Moves(walk.scope) /\ gen' = g)
  BY <1>1 DEF Match, Operation, Generated, GeneratedIn, Stays, Moves, WithMatch
<1> QED
  BY <1>2, <1>3, OrdinaryKept

(* IR_CAST.                                                                     *)
LEMMA CastKept ==
  ASSUME IInv, Cast
  PROVE  IInv'
<1>1. PICK g : g = Push(Pop(Emit(Hold(gen, NextFree(gen)),
                              <<Narrow(op.type, NextFree(gen), top.reg)>>), 1),
                     Register(op.type, NextFree(gen)))
  OBVIOUS
<1>2. Generation(gen) /\ Held(gen) /\ Len(gen.stack) >= 1 => Sound(g)
  <2> SUFFICES ASSUME Generation(gen), Held(gen), Len(gen.stack) >= 1 PROVE Sound(g)
    OBVIOUS
  <2>1. PICK r, l, c : /\ r = NextFree(gen) /\ l = Register(op.type, r)
                       /\ c = <<Narrow(op.type, r, top.reg)>>
    OBVIOUS
  <2>2. PICK g1 : g1 = Hold(gen, r)
    OBVIOUS
  <2>3. PICK g2 : g2 = Emit(g1, c)
    OBVIOUS
  <2>4. PICK g3 : g3 = Pop(g2, 1)
    OBVIOUS
  <2>5. g = Push(g3, l)
    BY <1>1, <2>1, <2>2, <2>3, <2>4
  <2>6. /\ Sound(g1) /\ g1.stack = gen.stack /\ g1.matches = gen.matches
        /\ Fatal(g1) \/ (r \in g1.regs /\ Unused(g1, r))
    BY <2>1, <2>2, HeldNext DEF Sound
  <2>7. /\ Sound(g2) /\ Generation(g2) /\ g2.stack = gen.stack /\ g2.matches = g1.matches
        /\ g2.regs = g1.regs
    BY <2>3, <2>6, Emitted DEF Sound
  <2>8. 1 \in 0 .. Len(g2.stack) /\ Len(gen.stack) \in Nat
    BY <2>7, TopIs
  <2>9. /\ Sound(g3) /\ Generation(g3) /\ g3.matches = g1.matches /\ g3.regs = g1.regs
        /\ DOMAIN gen.stack = 1 .. Len(gen.stack) /\ DOMAIN g3.stack = 1 .. Len(gen.stack) - 1
        /\ \A i \in 1 .. Len(gen.stack) - 1 : g3.stack[i] = gen.stack[i + 1]
    BY <2>4, <2>7, <2>8, Popped
  <2>10. Fatal(g3) \/ Holdable(g3, l)
    <3> SUFFICES ASSUME ~Fatal(g3) PROVE Holdable(g3, l)
      OBVIOUS
    <3>1. r \in g3.regs /\ Unused(g1, r)
      BY <2>6, <2>9 DEF Fatal
    <3>2. ASSUME NEW i \in DOMAIN g3.stack, InRegister(g3.stack[i])
          PROVE  g3.stack[i].reg # r
      <4>1. i + 1 \in DOMAIN g1.stack /\ g3.stack[i] = g1.stack[i + 1]
        BY <2>6, <2>8, <2>9
      <4> QED
        BY <3>1, <3>2, <4>1 DEF Unused
    <3>3. Unused(g3, r)
      BY <2>9, <3>1, <3>2 DEF Unused
    <3> QED
      BY <2>1, <3>1, <3>3, PlacesMade DEF Holdable, Plain
  <2> QED
    BY <2>5, <2>9, <2>10, Pushed
<1>3. /\ walk # <<>> /\ walk.at <= Len(walk.ops) /\ walk.ops[walk.at].op = "CAST"
      /\ UNCHANGED <<source, todo>> /\ missteps \subseteq missteps'
      /\ Stays \/ (Moves(walk.scope) /\ gen' = g /\ Len(gen.stack) >= 1)
  BY <1>1 DEF Cast, Operation, Generated, GeneratedIn, Stays, Moves, Depth
<1> QED
  BY <1>2, <1>3, OrdinaryKept

(* IR_PUSH_INT_CONSTANT.                                                        *)
LEMMA PushIntConstantKept ==
  ASSUME IInv, PushIntConstant
  PROVE  IInv'
<1>1. PICK g : g = Push(Emit(Hold(gen, NextFree(gen)), <<MovImmediate(NextFree(gen), op.int)>>),
                     Register(op.type, NextFree(gen)))
  OBVIOUS
<1>2. Generation(gen) /\ Held(gen) => Sound(g)
  <2> SUFFICES ASSUME Generation(gen), Held(gen) PROVE Sound(g)
    OBVIOUS
  <2>1. PICK r, l, c : /\ r = NextFree(gen) /\ l = Register(op.type, r)
                       /\ c = <<MovImmediate(r, op.int)>>
    OBVIOUS
  <2>2. PICK g1 : g1 = Hold(gen, r)
    OBVIOUS
  <2>3. PICK g2 : g2 = Emit(g1, c)
    OBVIOUS
  <2>4. g = Push(g2, l)
    BY <1>1, <2>1, <2>2, <2>3
  <2>5. Sound(g1) /\ (Fatal(g1) \/ (r \in g1.regs /\ Unused(g1, r)))
    BY <2>1, <2>2, HeldNext DEF Sound
  <2>6. /\ Sound(g2) /\ Generation(g2) /\ g2.stack = g1.stack /\ g2.matches = g1.matches
        /\ g2.regs = g1.regs
    BY <2>3, <2>5, Emitted DEF Sound
  <2>7. Fatal(g2) \/ (r \in g2.regs /\ Unused(g2, r))
    BY <2>5, <2>6, StillUnused DEF Fatal
  <2>8. Fatal(g2) \/ Holdable(g2, l)
    BY <2>1, <2>7, PlacesMade DEF Holdable, Plain
  <2> QED
    BY <2>4, <2>6, <2>8, Pushed
<1>3. /\ walk # <<>> /\ walk.at <= Len(walk.ops) /\ walk.ops[walk.at].op = "PUSH_INT_CONSTANT"
      /\ UNCHANGED <<source, todo>> /\ missteps \subseteq missteps'
      /\ Stays \/ (Moves(walk.scope) /\ gen' = g)
  BY <1>1 DEF PushIntConstant, Operation, Generated, GeneratedIn, Stays, Moves, Register
<1> QED
  BY <1>2, <1>3, OrdinaryKept

(* IR_PUSH_VALUE.                                                               *)
LEMMA PushValueKept ==
  ASSUME IInv, PushValue
  PROVE  IInv'
<1>1. PICK g : g = load_from_pointer(Pop(gen, 1), top)
  OBVIOUS
<1>2. Generation(gen) /\ Held(gen) /\ Len(gen.stack) >= 1 => Sound(g)
  <2> SUFFICES ASSUME Generation(gen), Held(gen), Len(gen.stack) >= 1 PROVE Sound(g)
    OBVIOUS
  <2>1. PICK d : d = Pop(gen, 1)
    OBVIOUS
  <2>2. 1 \in 0 .. Len(gen.stack)
    BY TopIs
  <2>3. Sound(d)
    BY <2>1, <2>2, Popped DEF Sound
  <2> QED
    BY <1>1, <2>1, <2>3, LoadedFromPointer
<1>3. /\ walk # <<>> /\ walk.at <= Len(walk.ops) /\ walk.ops[walk.at].op = "PUSH_VALUE"
      /\ UNCHANGED <<source, todo>> /\ missteps \subseteq missteps'
      /\ Stays \/ (Moves(walk.scope) /\ gen' = g /\ Len(gen.stack) >= 1)
  BY <1>1 DEF PushValue, Operation, Generated, GeneratedIn, Stays, Moves, Depth
<1> QED
  BY <1>2, <1>3, OrdinaryKept

(* IR_PUSH_VAR_ADDRESS.                                                         *)
LEMMA PushVariableAddressKept ==
  ASSUME IInv, PushVariableAddress
  PROVE  IInv'
<1>1. PICK g : g = Push(gen, Pointer(variable_by_name(op.name).type,
                                  walk.frame.stack_depth - variable_by_name(op.name).offset))
  OBVIOUS
<1>2. Generation(gen) /\ Held(gen) => Sound(g)
  <2> SUFFICES ASSUME Generation(gen), Held(gen) PROVE Sound(g)
    OBVIOUS
  <2>1. PICK l : /\ l = Pointer(variable_by_name(op.name).type,
                                walk.frame.stack_depth - variable_by_name(op.name).offset)
                 /\ Holdable(gen, l)
    BY PointersHoldable
  <2> QED
    BY <1>1, <2>1, Pushed DEF Sound
<1>3. /\ walk # <<>> /\ walk.at <= Len(walk.ops) /\ walk.ops[walk.at].op = "PUSH_VAR_ADDRESS"
      /\ UNCHANGED <<source, todo>> /\ missteps \subseteq missteps'
      /\ Stays \/ (Moves(walk.scope) /\ gen' = g)
  BY <1>1 DEF PushVariableAddress, Operation, Generated, GeneratedIn, Stays, Moves
<1> QED
  BY <1>2, <1>3, OrdinaryKept

(* IR_SUBSCRIPT.                                                                *)
LEMMA TakeComponentKept ==
  ASSUME IInv, TakeComponent
  PROVE  IInv'
<1>1. PICK g : g = Push(Pop(gen, 1), Component(top, op.component))
  OBVIOUS
<1>2. Generation(gen) /\ Held(gen) /\ Len(gen.stack) >= 1 => Sound(g)
  <2> SUFFICES ASSUME Generation(gen), Held(gen), Len(gen.stack) >= 1 PROVE Sound(g)
    OBVIOUS
  <2>1. PICK d, l : d = Pop(gen, 1) /\ l = Component(top, op.component)
    OBVIOUS
  <2>2. 1 \in 0 .. Len(gen.stack)
    BY TopIs
  <2>3. Sound(d)
    BY <2>1, <2>2, Popped DEF Sound
  <2>4. Holdable(d, l)
    BY <2>1, PointersHoldable DEF Component
  <2> QED
    BY <1>1, <2>1, <2>3, <2>4, Pushed DEF Sound
<1>3. /\ walk # <<>> /\ walk.at <= Len(walk.ops) /\ walk.ops[walk.at].op = "SUBSCRIPT"
      /\ UNCHANGED <<source, todo>> /\ missteps \subseteq missteps'
      /\ Stays \/ (Moves(walk.scope) /\ gen' = g /\ Len(gen.stack) >= 1)
  BY <1>1 DEF TakeComponent, Operation, Generated, GeneratedIn, Stays, Moves, Depth
<1> QED
  BY <1>2, <1>3, OrdinaryKept

(* IR_POP_VALUE.                                                                *)
LEMMA PopValueKept ==
  ASSUME IInv, PopValue
  PROVE  IInv'
<1>1. PICK g : g = store_to_pointer(Pop(gen, 1), top)
  OBVIOUS
<1>2. Generation(gen) /\ Held(gen) /\ Len(gen.stack) >= 1 + Len(Components(top.type)) => Sound(g)
  <2> SUFFICES ASSUME Generation(gen), Held(gen),
                  Len(gen.stack) >= 1 + Len(Components(top.type)) PROVE Sound(g)
    OBVIOUS
  <2>1. PICK d : d = Pop(gen, 1)
    OBVIOUS
  <2>2. Len(Components(top.type)) \in {1, 2}
    BY DEF Components
  <2>3. Len(gen.stack) \in Nat
    BY DEF Generation, Sequence
  <2>4. 1 \in 0 .. Len(gen.stack)
    BY <2>2, <2>3
  <2>5. Sound(d) /\ Len(d.stack) = Len(gen.stack) - 1
    BY <2>1, <2>4, Popped DEF Sound
  <2>6. Len(d.stack) >= Len(Components(top.type))
    BY <2>2, <2>3, <2>5
  <2> QED
    BY <1>1, <2>1, <2>5, <2>6, StoredToPointer
<1>3. /\ walk # <<>> /\ walk.at <= Len(walk.ops) /\ walk.ops[walk.at].op = "POP_VALUE"
      /\ UNCHANGED <<source, todo>> /\ missteps \subseteq missteps'
      /\ Stays \/ (Moves(walk.scope) /\ gen' = g /\ Len(gen.stack) >= 1 + Len(Components(top.type)))
  BY <1>1 DEF PopValue, Operation, Generated, GeneratedIn, Stays, Moves, Depth
<1> QED
  BY <1>2, <1>3, OrdinaryKept

(* IR_JUMP_F.                                                                   *)
LEMMA JumpFKept ==
  ASSUME IInv, JumpF
  PROVE  IInv'
<1>1. PICK g : g = JumpIfFalse(gen, op.label)
  OBVIOUS
<1>2. Generation(gen) /\ Held(gen) /\ Len(gen.stack) >= 1 => Sound(g)
  BY <1>1, JumpedIfFalse DEF Sound
<1>3. /\ walk # <<>> /\ walk.at <= Len(walk.ops) /\ walk.ops[walk.at].op = "JUMP_F"
      /\ UNCHANGED <<source, todo>> /\ missteps \subseteq missteps'
      /\ Stays \/ (Moves(walk.scope) /\ gen' = g /\ Len(gen.stack) >= 1)
  BY <1>1 DEF JumpF, Operation, Generated, GeneratedIn, Stays, Moves, Depth
<1> QED
  BY <1>2, <1>3, OrdinaryKept

(* IR_RETURN.                                                                   *)
LEMMA ReturnKept ==
  ASSUME IInv, Return
  PROVE  IInv'
<1>1. PICK g : g = Emit(code_copy(Pop(gen, 1), Register(program[walk.fn].type, X0), top),
                     <<B(CodeLabel(0))>>)
  OBVIOUS
<1>2. Generation(gen) /\ Held(gen) /\ Len(gen.stack) >= 1 => Sound(g)
  <2> SUFFICES ASSUME Generation(gen), Held(gen), Len(gen.stack) >= 1 PROVE Sound(g)
    OBVIOUS
  <2>1. PICK x0 : x0 = Register(program[walk.fn].type, X0)
    OBVIOUS
  <2>2. PICK d : d = Pop(gen, 1)
    OBVIOUS
  <2>3. PICK h : h = code_copy(d, x0, top)
    OBVIOUS
  <2>4. g = Emit(h, <<B(CodeLabel(0))>>)
    BY <1>1, <2>1, <2>2, <2>3
  <2>5. top = gen.stack[1] /\ 1 \in 0 .. Len(gen.stack)
    BY TopIs DEF top
  <2>6. Sound(d) /\ (Fatal(d) \/ Holdable(d, gen.stack[1]))
    BY <2>2, <2>5, Popped DEF Sound
  <2>7. Fatal(d) \/ (InRegister(top) /\ ~top.keep => Unused(d, top.reg))
    BY <2>5, <2>6 DEF Holdable
  <2>8. Sound(h)
    BY <2>3, <2>6, <2>7, Copied
  <2> QED
    BY <2>4, <2>8, Emitted DEF Sound
<1>3. /\ walk # <<>> /\ walk.at <= Len(walk.ops) /\ walk.ops[walk.at].op = "RETURN"
      /\ UNCHANGED <<source, todo>> /\ missteps \subseteq missteps'
      /\ Stays \/ (Moves(walk.scope) /\ gen' = g /\ Len(gen.stack) >= 1)
  BY <1>1 DEF Return, Operation, Generated, GeneratedIn, Stays, Moves, Depth
<1> QED
  BY <1>2, <1>3, OrdinaryKept

(* IR_END_CASE.                                                                 *)
LEMMA EndCaseKept ==
  ASSUME IInv, EndCase
  PROVE  IInv'
<1>1. PICK g : g = IF op.label = 0
                THEN code_copy(Pop(gen, 1), Head(gen.matches), top)
                ELSE Emit(code_copy(Pop(gen, 1), Head(gen.matches), top),
                          <<B(CodeLabel(op.label))>>)
  OBVIOUS
<1>2. Generation(gen) /\ Held(gen) /\ Len(gen.stack) >= 1 => Sound(g)
  <2> SUFFICES ASSUME Generation(gen), Held(gen), Len(gen.stack) >= 1 PROVE Sound(g)
    OBVIOUS
  <2>1. PICK to : to = Head(gen.matches)
    OBVIOUS
  <2>2. PICK d : d = Pop(gen, 1)
    OBVIOUS
  <2>3. PICK h : h = code_copy(d, to, top)
    OBVIOUS
  <2>4. g = h \/ g = Emit(h, <<B(CodeLabel(op.label))>>)
    BY <1>1, <2>1, <2>2, <2>3
  <2>5. top = gen.stack[1] /\ 1 \in 0 .. Len(gen.stack)
    BY TopIs DEF top
  <2>6. Sound(d) /\ (Fatal(d) \/ Holdable(d, gen.stack[1]))
    BY <2>2, <2>5, Popped DEF Sound
  <2>7. Fatal(d) \/ (InRegister(top) /\ ~top.keep => Unused(d, top.reg))
    BY <2>5, <2>6 DEF Holdable
  <2>8. Sound(h)
    BY <2>3, <2>6, <2>7, Copied
  <2> QED
    BY <2>4, <2>8, Emitted DEF Sound
<1>3. /\ walk # <<>> /\ walk.at <= Len(walk.ops) /\ walk.ops[walk.at].op = "END_CASE"
      /\ UNCHANGED <<source, todo>> /\ missteps \subseteq missteps'
      /\ Stays \/ (Moves(walk.scope) /\ gen' = g /\ Len(gen.stack) >= 1)
  BY <1>1 DEF EndCase, Operation, Generated, GeneratedIn, Stays, Moves, Depth
<1> QED
  BY <1>2, <1>3, OrdinaryKept

(* IR_END_MATCH.                                                                *)
LEMMA EndMatchKept ==
  ASSUME IInv, EndMatch
  PROVE  IInv'
<1>1. PICK g : g = [Push(Pop(Emit(gen, <<At(CodeLabel(op.label))>>), 1), Head(gen.matches))
                 EXCEPT !.matches = Tail(@)]
  OBVIOUS
<1>2. Generation(gen) /\ Held(gen) /\ Len(gen.stack) >= 1 /\ gen.matches # <<>> => Sound(g)
  <2> SUFFICES ASSUME Generation(gen), Held(gen), Len(gen.stack) >= 1, gen.matches # <<>>
               PROVE  Sound(g)
    OBVIOUS
  <2>1. PICK h : h = Emit(gen, <<At(CodeLabel(op.label))>>)
    OBVIOUS
  <2>2. PICK d : d = Pop(h, 1)
    OBVIOUS
  <2>3. /\ Sound(h) /\ Generation(h) /\ h.stack = gen.stack /\ h.matches = gen.matches
    BY <2>1, Emitted DEF Sound
  <2>4. 1 \in 0 .. Len(h.stack)
    BY <2>3, TopIs
  <2>5. Sound(d) /\ d.matches = gen.matches
    BY <2>2, <2>3, <2>4, Popped
  <2>6. g = [Push(d, Head(d.matches)) EXCEPT !.matches = Tail(@)]
    BY <1>1, <2>1, <2>2, <2>5
  <2> QED
    BY <2>5, <2>6, MatchEnded
<1>3. /\ walk # <<>> /\ walk.at <= Len(walk.ops) /\ walk.ops[walk.at].op = "END_MATCH"
      /\ UNCHANGED <<source, todo>> /\ missteps \subseteq missteps'
      /\ Stays \/ (Moves(walk.scope) /\ gen' = g /\ Len(gen.stack) >= 1 /\ gen.matches # <<>>)
  BY <1>1 DEF EndMatch, Operation, Generated, GeneratedIn, Stays, Moves, Depth
<1> QED
  BY <1>2, <1>3, OrdinaryKept

(* IR_UNARY_OPERATOR, where the operator leaves the value as it is.             *)
LEMMA UnaryOperatorKept ==
  ASSUME IInv, UnaryOperator
  PROVE  IInv'
<1>1. PICK g : g = Hold(gen, NextFree(gen))
  OBVIOUS
<1>2. Generation(gen) /\ Held(gen) => Sound(g)
  <2> SUFFICES ASSUME Generation(gen), Held(gen) PROVE Sound(g)
    OBVIOUS
  <2>1. PICK r : r = NextFree(gen)
    OBVIOUS
  <2> QED
    BY <1>1, <2>1, HeldNext DEF Sound
<1>3. /\ walk # <<>> /\ walk.at <= Len(walk.ops) /\ walk.ops[walk.at].op = "UNARY_OPERATOR"
      /\ UNCHANGED <<source, todo>> /\ missteps \subseteq missteps'
      /\ Stays \/ (Moves(walk.scope) /\ ("unary" \notin missteps' => gen' = g))
  BY <1>1 DEF UnaryOperator, Operation, Generated, GeneratedIn, Stays, Moves
<1> QED
  BY <1>2, <1>3, OrdinaryKept

(* IR_BINARY_OPERATOR.                                                          *)
LEMMA BinaryOperatorKept ==
  ASSUME IInv, BinaryOperator
  PROVE  IInv'
<1>1. PICK g : g = IF op.operator = "RANGE" THEN gen
                ELSE arm64operator_apply_binary(gen, op.operator, op.lhs)
  OBVIOUS
<1>2. Generation(gen) /\ Held(gen) /\ (op.operator = "RANGE" \/ BinaryFine(op.lhs, op.rhs)) =>
        Sound(g)
  <2> SUFFICES ASSUME Generation(gen), Held(gen),
                  op.operator = "RANGE" \/ BinaryFine(op.lhs, op.rhs) PROVE Sound(g)
    OBVIOUS
  <2>1. CASE op.operator = "RANGE"
    BY <1>1, <2>1 DEF Sound
  <2>2. CASE op.operator # "RANGE"
    <3>1. Len(gen.stack) >= 2 /\ InRegister(gen.stack[2])
      BY <2>2 DEF BinaryFine, Depth
    <3> QED
      BY <1>1, <2>2, <3>1, AppliedHeld DEF Sound
  <2> QED
    BY <2>1, <2>2
<1>3. /\ walk # <<>> /\ walk.at <= Len(walk.ops) /\ walk.ops[walk.at].op = "BINARY_OPERATOR"
      /\ UNCHANGED <<source, todo>> /\ missteps \subseteq missteps'
      /\ \/ Stays
         \/ /\ Moves(walk.scope) /\ gen' = g
            /\ op.operator = "RANGE" \/ BinaryFine(op.lhs, op.rhs)
  BY <1>1 DEF BinaryOperator, Operation, Generated, GeneratedIn, Stays, Moves
<1> QED
  BY <1>2, <1>3, OrdinaryKept

(* IR_CALL.                                                                     *)
LEMMA CallKept ==
  ASSUME IInv, Call
  PROVE  IInv'
<1>0. Parameters(program[op.name].parameters)
  <2>1. Walking /\ source \in DOMAIN Sources /\ walk.at <= Len(walk.ops) /\ op.op = "CALL"
    BY DEF IInv, Call, Operation, op
  <2>2. WellFormed(walk.ops) /\ walk.ops = Operations[source][walk.fn]
    BY <2>1, CompiledFits DEF Walking
  <2>3. walk.at \in DOMAIN walk.ops
    BY <2>1, <2>2 DEF Walking, WellFormed
  <2>4. /\ walk.fn \in DOMAIN Sources[source] /\ ~Sources[source][walk.fn].native
    BY <2>1 DEF Walking, Compiled, program
  <2>5. op.name \in DOMAIN Sources[source]
    BY <2>1, <2>2, <2>3, <2>4, SourcesAssumption DEF op
  <2> QED
    BY <2>1, <2>5, SourcesAssumption DEF program
<1>1. PICK g : g = arm64function_marshall_return(
                  Emit(arm64function_marshall_arguments(gen, program[op.name].parameters),
                       <<IF program[op.name].native THEN BlNative(op.name) ELSE Bl(op.name)>>),
                  program[op.name].type, op.discard)
  OBVIOUS
<1>2. Generation(gen) /\ Held(gen) /\ Len(gen.stack) >= Len(program[op.name].parameters) => Sound(g)
  <2> SUFFICES ASSUME Generation(gen), Held(gen),
                  Len(gen.stack) >= Len(program[op.name].parameters) PROVE Sound(g)
    OBVIOUS
  <2>1. PICK p, c : /\ p = program[op.name].parameters
                    /\ c = <<IF program[op.name].native THEN BlNative(op.name) ELSE Bl(op.name)>>
    OBVIOUS
  <2>2. PICK h : h = arm64function_marshall_arguments(gen, p)
    OBVIOUS
  <2>3. PICK b : b = Emit(h, c)
    OBVIOUS
  <2>4. g = arm64function_marshall_return(b, program[op.name].type, op.discard)
    BY <1>1, <2>1, <2>2, <2>3
  <2>5. Parameters(p)
    BY <1>0, <2>1
  <2>6. Sound(h)
    BY <2>1, <2>2, <2>5, Marshalled
  <2>7. Sound(b)
    BY <2>3, <2>6, Emitted DEF Sound
  <2> QED
    BY <2>4, <2>7, Returned
<1>3. /\ walk # <<>> /\ walk.at <= Len(walk.ops) /\ walk.ops[walk.at].op = "CALL"
      /\ UNCHANGED <<source, todo>> /\ missteps \subseteq missteps'
      /\ \/ Stays
         \/ /\ Moves(walk.scope) /\ gen' = g
            /\ Len(gen.stack) >= Len(program[op.name].parameters)
  BY <1>1 DEF Call, Operation, Generated, GeneratedIn, Stays, Moves, Depth
<1> QED
  BY <1>2, <1>3, OrdinaryKept

(* A scope's up is the innermost of the scopes around it.                          *)
LEMMA UpFromAround ==
  ASSUME NEW k, NEW L, Chained(L, k), NEW m, NEW M, Chained(M, m),
         NEW s \in DOMAIN L.scopes, s \in DOMAIN M.scopes, s # 0,
         M.scopes[s].around = L.scopes[s].around
  PROVE  L.scopes[s].up = M.scopes[s].up
<1>1. PICK a, b : a = L.scopes[s].up /\ b = M.scopes[s].up
  OBVIOUS
<1>2. PICK X, Y : X = L.scopes[a].around /\ Y = M.scopes[b].around
  OBVIOUS
<1>3. s \in 0 .. k
  BY DEF Chained
<1>4. a \in DOMAIN L.scopes /\ a < s /\ L.scopes[s].around = X \cup {s}
  BY <1>1, <1>2 DEF Chained
<1>5. b \in DOMAIN M.scopes /\ b < s /\ M.scopes[s].around = Y \cup {s}
  BY <1>1, <1>2 DEF Chained
<1>6. a \in X /\ X \subseteq 0 .. a
  BY <1>2, <1>4 DEF Chained
<1>7. b \in Y /\ Y \subseteq 0 .. b
  BY <1>2, <1>5 DEF Chained
<1>8. a \in Nat /\ b \in Nat /\ s \in Nat /\ a # s /\ b # s
  BY <1>3, <1>4, <1>5, <1>6, <1>7
<1>9. a \in Y /\ b \in X
  BY <1>4, <1>5, <1>6, <1>7, <1>8
<1>10. a <= b /\ b <= a
  BY <1>6, <1>7, <1>9
<1> QED
  BY <1>1, <1>8, <1>10

(* Where the code is, as the first pass saw it.                                   *)
LEMMA WhereItIs ==
  ASSUME IInv, walk # <<>>, walk.at <= Len(walk.ops)
  PROVE  \E o, f, k :
           /\ o = walk.ops /\ WellFormed(o) /\ Len(o) \in Nat
           /\ f = Layouts(program[walk.fn], o) /\ k = walk.at /\ k \in 1 .. Len(o)
           /\ walk.frame = f[Len(o)] /\ walk.scope = f[k - 1].scope
           /\ f[k] = LayOut(f[k - 1], k, o[k])
           /\ LaidOut(f[k - 1], k - 1, o) /\ LaidOut(f[Len(o)], Len(o), o)
           /\ Extends(f[k - 1], f[Len(o)], k - 1)
<1>1. Walking /\ source \in DOMAIN Sources
  BY DEF IInv
<1>2. PICK o : o = walk.ops /\ WellFormed(o)
  BY <1>1, CompiledFits DEF Walking
<1>3. Len(o) \in Nat /\ Parameters(program[walk.fn].parameters)
  BY <1>1, <1>2, CompiledFits DEF Walking, WellFormed
<1>4. PICK f : /\ f = Layouts(program[walk.fn], o)
               /\ \A k \in 0 .. Len(o) : LaidOut(f[k], k, o)
               /\ \A k \in 1 .. Len(o) : f[k] = LayOut(f[k - 1], k, o[k])
  BY <1>2, <1>3, LayoutsComputed, LayoutsKept
<1>5. PICK k \in 1 .. Len(o) : k = walk.at
  BY <1>1, <1>2, <1>3 DEF Walking
<1>6. k - 1 \in 0 .. Len(o) /\ Len(o) \in 0 .. Len(o)
  BY <1>3
<1>7. Extends(f[k - 1], f[Len(o)], k - 1)
  BY <1>2, <1>3, <1>4, <1>6, FrameExtends
<1>8. walk.frame = f[Len(o)] /\ walk.scope = f[k - 1].scope
  BY <1>1, <1>2, <1>4, <1>5 DEF Walking
<1> QED
  BY <1>2, <1>3, <1>4, <1>5, <1>6, <1>7, <1>8

(* Where no comparison is under way the places are held, and no CASE is before.    *)
LEMMA NothingCompared ==
  ASSUME IInv, walk # <<>>, walk.at <= Len(walk.ops),
         walk.ops[walk.at].op \notin {"CASE", "PUSH_BOOL_CONSTANT", "WHEN"}
  PROVE  /\ Compared(walk.ops, walk.at + 1) = 0
         /\ "unary" \notin missteps => Generation(gen) /\ Held(gen)
<1>1. PICK o, k : /\ o = walk.ops /\ WellFormed(o) /\ k = walk.at /\ k \in 1 .. Len(o)
  BY WhereItIs
<1>2. Compared(o, k) = 0 /\ Compared(o, k + 1) = 0
  BY <1>1, PointsCompared
<1>3. "unary" \notin missteps => Generation(gen) /\ HeldWith(gen, Compared(walk.ops, walk.at))
  BY DEF IInv, Holding
<1> QED
  BY <1>1, <1>2, <1>3, HeldCases

(* IR_SCOPE_BEGIN.                                                              *)
LEMMA ScopeBeginKept ==
  ASSUME IInv, ScopeBegin
  PROVE  IInv'
<1>1. /\ walk # <<>> /\ walk.at <= Len(walk.ops) /\ walk.ops[walk.at].op = "SCOPE_BEGIN"
      /\ UNCHANGED <<source, todo>> /\ missteps \subseteq missteps' /\ missteps' = missteps
      /\ Stays \/ (Moves(walk.at) /\ gen' = gen)
  BY DEF ScopeBegin, Operation, GeneratedIn, Stays, Moves
<1>2. PICK o, f, k : /\ o = walk.ops /\ f = Layouts(program[walk.fn], o) /\ k = walk.at
                     /\ f[k] = LayOut(f[k - 1], k, o[k]) /\ LaidOut(f[k - 1], k - 1, o)
  BY <1>1, WhereItIs
<1>3. PICK L, M : L = f[k - 1] /\ M = f[k]
  OBVIOUS
<1>4. M = BeginScope(L, k)
  BY <1>1, <1>2, <1>3 DEF LayOut
<1>5. L = [scope |-> L.scope, stack_depth |-> L.stack_depth, scopes |-> L.scopes]
  BY <1>2, <1>3 DEF LaidOut, Frames
<1>6. M.scope = k
  BY <1>4, <1>5 DEF BeginScope, Nested
<1>7. walk.at = Layouts(program[walk.fn], walk.ops)[walk.at].scope
  BY <1>2, <1>3, <1>6
<1>8. /\ Compared(walk.ops, walk.at + 1) = 0
      /\ "unary" \notin missteps => Generation(gen) /\ Held(gen)
  BY <1>1, NothingCompared
<1>9. \/ Stays
      \/ /\ Moves(walk.at)
         /\ "unary" \notin missteps' =>
              Generation(gen') /\ HeldWith(gen', Compared(walk.ops, walk.at + 1))
  BY <1>1, <1>8, HeldCases
<1> QED
  BY <1>1, <1>7, <1>9, StepKept

(* IR_SCOPE_END.                                                                *)
LEMMA ScopeEndKept ==
  ASSUME IInv, ScopeEnd
  PROVE  IInv'
<1>1. PICK up : up = walk.frame.scopes[walk.scope].up
  OBVIOUS
<1>2. /\ walk # <<>> /\ walk.at <= Len(walk.ops) /\ walk.ops[walk.at].op = "SCOPE_END"
      /\ UNCHANGED <<source, todo>> /\ missteps \subseteq missteps' /\ missteps' = missteps
      /\ Stays \/ (Moves(up) /\ gen' = gen)
  BY <1>1 DEF ScopeEnd, Operation, GeneratedIn, Stays, Moves
<1>3. PICK o, f, k : /\ o = walk.ops /\ WellFormed(o) /\ Len(o) \in Nat
                     /\ f = Layouts(program[walk.fn], o) /\ k = walk.at /\ k \in 1 .. Len(o)
                     /\ walk.frame = f[Len(o)] /\ walk.scope = f[k - 1].scope
                     /\ f[k] = LayOut(f[k - 1], k, o[k])
                     /\ LaidOut(f[k - 1], k - 1, o) /\ LaidOut(f[Len(o)], Len(o), o)
                     /\ Extends(f[k - 1], f[Len(o)], k - 1)
  BY <1>2, WhereItIs
<1>4. PICK L, M, F : L = f[k - 1] /\ M = f[k] /\ F = f[Len(o)]
  OBVIOUS
<1>5. M = EndScope(L)
  BY <1>2, <1>3, <1>4 DEF LayOut
<1>6. /\ L = [scope |-> L.scope, stack_depth |-> L.stack_depth, scopes |-> L.scopes]
      /\ L.scope \in DOMAIN L.scopes
  BY <1>3, <1>4 DEF LaidOut, Frames
<1>7. M.scope = L.scopes[L.scope].up
  BY <1>5, <1>6 DEF EndScope
<1>8. L.scope # 0
  <2>1. o[k].op = "SCOPE_END" /\ k \in DOMAIN o
    BY <1>2, <1>3 DEF WellFormed
  <2>2. /\ Nesting(o)[0] = 0 /\ Nesting(o)[k] = Nesting(o)[k - 1] - 1
    BY <1>3, <2>1, NestingComputed
  <2>3. Nesting(o)[L.scope] = Nesting(o)[k - 1]
    BY <1>3, <1>4 DEF LaidOut, AsDeep
  <2>4. k - 1 = 0 \/ Nesting(o)[k - 1] > 0
    <3>1. k - 1 # 0 => k - 1 \in DOMAIN o /\ k - 1 < Len(o)
      BY <1>3 DEF WellFormed
    <3> QED
      BY <3>1, <1>3 DEF WellFormed
  <2>5. k # 1
    BY <1>3, <2>1 DEF WellFormed
  <2> QED
    BY <1>3, <2>2, <2>3, <2>4, <2>5
<1>9. L.scopes[L.scope].up = F.scopes[L.scope].up
  <2>1. Chained(L, k - 1) /\ Chained(F, Len(o)) /\ Extends(L, F, k - 1)
    BY <1>3, <1>4 DEF LaidOut
  <2>2. L.scope \in DOMAIN F.scopes /\ F.scopes[L.scope].around = L.scopes[L.scope].around
    BY <1>6, <2>1 DEF Extends
  <2> QED
    BY <1>6, <1>8, <2>1, <2>2, UpFromAround
<1>10. up = Layouts(program[walk.fn], walk.ops)[walk.at].scope
  BY <1>1, <1>3, <1>4, <1>7, <1>9
<1>11. /\ Compared(walk.ops, walk.at + 1) = 0
       /\ "unary" \notin missteps => Generation(gen) /\ Held(gen)
  BY <1>2, NothingCompared
<1>12. \/ Stays
       \/ /\ Moves(up)
          /\ "unary" \notin missteps' =>
               Generation(gen') /\ HeldWith(gen', Compared(walk.ops, walk.at + 1))
  BY <1>2, <1>11, HeldCases
<1> QED
  BY <1>2, <1>10, <1>12, StepKept

(* IR_CASE: the value to be compared is copied, and the copy keeps its register.   *)
LEMMA CaseKept ==
  ASSUME IInv, Case
  PROVE  IInv'
<1>1. PICK g : g = Push(Emit(gen, <<At(CodeLabel(op.label))>>), [top EXCEPT !.keep = TRUE])
  OBVIOUS
<1>2. /\ walk # <<>> /\ walk.at <= Len(walk.ops) /\ walk.ops[walk.at].op = "CASE"
      /\ UNCHANGED <<source, todo>> /\ missteps \subseteq missteps' /\ missteps' = missteps
      /\ Stays \/ (Moves(walk.scope) /\ gen' = g /\ Len(gen.stack) >= 1)
  BY <1>1 DEF Case, Operation, Generated, GeneratedIn, Stays, Moves, Depth
<1>3. PICK o, k : o = walk.ops /\ WellFormed(o) /\ k = walk.at /\ k \in 1 .. Len(o)
  BY <1>2, WhereItIs
<1>4. Compared(o, k) = 0 /\ Compared(o, k + 1) = 1
  BY <1>2, <1>3, PointsCompared
<1>5. "unary" \notin missteps => Generation(gen) /\ Held(gen)
  <2>1. "unary" \notin missteps => Generation(gen) /\ HeldWith(gen, Compared(walk.ops, walk.at))
    BY <1>2 DEF IInv, Holding
  <2> QED
    BY <1>3, <1>4, <2>1, HeldCases
<1>6. Generation(gen) /\ Held(gen) /\ Len(gen.stack) >= 1 => Generation(g) /\ HeldWith(g, 1)
  BY <1>1, CaseCopied, HeldCases DEF top
<1>7. walk.scope = Layouts(program[walk.fn], walk.ops)[walk.at].scope
  BY <1>2, SameScope
<1>8. \/ Stays
      \/ /\ Moves(walk.scope)
         /\ "unary" \notin missteps' =>
              Generation(gen') /\ HeldWith(gen', Compared(walk.ops, walk.at + 1))
  BY <1>2, <1>3, <1>4, <1>5, <1>6
<1> QED
  BY <1>2, <1>7, <1>8, StepKept

(* IR_PUSH_BOOL_CONSTANT: on its own, or what a CASE compares with.                *)
LEMMA PushBoolConstantKept ==
  ASSUME IInv, PushBoolConstant
  PROVE  IInv'
<1>1. PICK g : g = Push(gen, Immediate(Flag(op.bool)))
  OBVIOUS
<1>2. /\ walk # <<>> /\ walk.at <= Len(walk.ops)
      /\ walk.ops[walk.at].op = "PUSH_BOOL_CONSTANT"
      /\ UNCHANGED <<source, todo>> /\ missteps \subseteq missteps' /\ missteps' = missteps
      /\ Stays \/ (Moves(walk.scope) /\ gen' = g)
  BY <1>1 DEF PushBoolConstant, Operation, Generated, GeneratedIn, Stays, Moves
<1>3. PICK o, k : o = walk.ops /\ WellFormed(o) /\ k = walk.at /\ k \in 1 .. Len(o)
  BY <1>2, WhereItIs
<1>4. \/ Compared(o, k) = 0 /\ Compared(o, k + 1) = 0
      \/ Compared(o, k) = 1 /\ Compared(o, k + 1) = 2
  BY <1>2, <1>3, PointsCompared
<1>5. /\ "unary" \notin missteps =>
           Generation(gen) /\ ~Fatal(gen) /\ HeldWith(gen, Compared(walk.ops, walk.at))
  BY <1>2 DEF IInv, Holding
<1>6. Generation(gen) /\ ~Fatal(gen) /\ HeldWith(gen, 0) => Generation(g) /\ HeldWith(g, 0)
  <2> SUFFICES ASSUME Generation(gen), ~Fatal(gen), Held(gen)
               PROVE  Generation(g) /\ Held(g)
    BY HeldCases
  <2>1. PICK l : l = Immediate(Flag(op.bool)) /\ Holdable(gen, l)
    BY PointersHoldable
  <2>2. Sound(g) /\ Generation(g) /\ g.regs = gen.regs
    BY <1>1, <2>1, Pushed DEF Sound
  <2> QED
    BY <2>2 DEF Sound, Fatal
<1>7. Generation(gen) /\ HeldWith(gen, 1) => Generation(g) /\ HeldWith(g, 2)
  BY <1>1, ConstantOnTop, HeldCases
<1>8. walk.scope = Layouts(program[walk.fn], walk.ops)[walk.at].scope
  BY <1>2, SameScope
<1>9. \/ Stays
      \/ /\ Moves(walk.scope)
         /\ "unary" \notin missteps' =>
              Generation(gen') /\ HeldWith(gen', Compared(walk.ops, walk.at + 1))
  BY <1>2, <1>3, <1>4, <1>5, <1>6, <1>7
<1> QED
  BY <1>2, <1>8, <1>9, StepKept

(* IR_WHEN: the comparison gives up the copy but not the register it kept.          *)
LEMMA WhenKept ==
  ASSUME IInv, When
  PROVE  IInv'
<1>1. PICK g : g = JumpIfFalse(arm64operator_apply_binary(gen, "EQUALS", "bool"), op.label)
  OBVIOUS
<1>2. /\ walk # <<>> /\ walk.at <= Len(walk.ops) /\ walk.ops[walk.at].op = "WHEN"
      /\ UNCHANGED <<source, todo>> /\ missteps \subseteq missteps' /\ missteps' = missteps
      /\ Stays \/ (Moves(walk.scope) /\ gen' = g /\ BinaryFine("bool", "bool"))
  BY <1>1 DEF When, Operation, Generated, GeneratedIn, Stays, Moves
<1>3. PICK o, k : o = walk.ops /\ WellFormed(o) /\ k = walk.at /\ k \in 1 .. Len(o)
  BY <1>2, WhereItIs
<1>4. Compared(o, k) \in {0, 2} /\ Compared(o, k + 1) = 0
  BY <1>2, <1>3, PointsCompared
<1>5. /\ "unary" \notin missteps =>
           Generation(gen) /\ HeldWith(gen, Compared(walk.ops, walk.at))
  BY <1>2 DEF IInv, Holding
<1>6. BinaryFine("bool", "bool") => Len(gen.stack) >= 2 /\ InRegister(gen.stack[2])
  BY DEF BinaryFine, Depth
<1>7. Generation(gen) /\ HeldWith(gen, 0) /\ BinaryFine("bool", "bool") => Sound(g)
  <2> SUFFICES ASSUME Generation(gen), Held(gen), BinaryFine("bool", "bool") PROVE Sound(g)
    BY HeldCases
  <2>1. PICK h : h = arm64operator_apply_binary(gen, "EQUALS", "bool")
    OBVIOUS
  <2>2. Sound(h) /\ Len(h.stack) = Len(gen.stack) - 1
    BY <1>6, <2>1, AppliedHeld DEF Sound
  <2>3. Len(h.stack) >= 1
    BY <1>6, <2>2 DEF Generation, Sequence
  <2> QED
    BY <1>1, <2>1, <2>2, <2>3, JumpedIfFalse
<1>8. Generation(gen) /\ HeldWith(gen, 2) /\ BinaryFine("bool", "bool") => Sound(g)
  BY <1>1, <1>6, CaseCompared
<1>9. walk.scope = Layouts(program[walk.fn], walk.ops)[walk.at].scope
  BY <1>2, SameScope
<1>10. ASSUME Moves(walk.scope), gen' = g, BinaryFine("bool", "bool"), "unary" \notin missteps'
       PROVE  Generation(gen') /\ HeldWith(gen', Compared(walk.ops, walk.at + 1))
  <2>1. Sound(gen')
    BY <1>2, <1>3, <1>4, <1>5, <1>7, <1>8, <1>10
  <2>2. Generation(gen') /\ Held(gen')
    BY <1>10, <2>1 DEF Sound, Fatal, Moves
  <2> QED
    BY <1>3, <1>4, <2>2, HeldCases
<1> QED
  BY <1>2, <1>9, <1>10, StepKept

-----------------------------------------------------------------------------
(* The specification.                                                           *)

(* The functions that are compiled are finitely many.                              *)
LEMMA CompiledInSequence ==
  ASSUME source \in DOMAIN Sources
  PROVE  SetToSeq(Compiled) \in Seq(Compiled)
<1>1. IsFiniteSet(Compiled)
  <2>1. IsFiniteSet(DOMAIN program) /\ Compiled \subseteq DOMAIN program
    BY SourcesAssumption DEF program, Compiled
  <2> QED
    BY <2>1, FS_Subset
<1>2. Cardinality(Compiled) \in Nat
  BY <1>1, FS_CardinalityType
<1>3. \E f : f \in [1 .. Cardinality(Compiled) -> Compiled] /\ IsInjective(f)
  <2>1. ExistsBijection(1 .. Cardinality(Compiled), Compiled)
    BY <1>1, FS_CardinalityType
  <2>2. PICK b : b \in Bijection(1 .. Cardinality(Compiled), Compiled)
    BY <2>1 DEF ExistsBijection
  <2>3. b \in [1 .. Cardinality(Compiled) -> Compiled] /\ IsInjective(b)
    BY <2>2 DEF Bijection, Injection, IsInjective
  <2> QED
    BY <2>3
<1>4. SetToSeq(Compiled) \in [1 .. Cardinality(Compiled) -> Compiled]
  BY <1>3 DEF SetToSeq
<1> QED
  BY <1>2, <1>4

(* The invariant holds at the start.                                              *)
LEMMA StartsHolding ==
  ASSUME Init
  PROVE  IInv
<1>1. source \in DOMAIN Sources /\ todo = SetToSeq(Compiled) /\ walk = <<>> /\ gen = <<>>
  BY DEF Init
<1>2. todo \in Seq(Compiled)
  BY <1>1, CompiledInSequence
<1> QED
  BY <1>1, <1>2 DEF IInv

(* A function begins with nothing on the stack and no register in use
   (generate_function).                                                        *)
LEMMA EnterFunctionKept ==
  ASSUME IInv, EnterFunction
  PROVE  IInv'
<1>1. PICK fn, o, f : /\ fn = Head(todo) /\ o = Operations[source][fn]
                      /\ f = Layouts(program[fn], o)
  OBVIOUS
<1>2. /\ walk' = [fn |-> fn, ops |-> o, frame |-> f[Len(o)], at |-> 1, scope |-> 0]
      /\ gen' = [stack |-> <<>>, matches |-> <<>>, regs |-> {}, callee_saved |-> {},
                 code |-> arm64function_enter(f[Len(o)])]
      /\ UNCHANGED <<source, todo>>
  BY <1>1 DEF EnterFunction, Declared
<1>3. source \in DOMAIN Sources /\ todo \in Seq(Compiled) /\ todo # <<>>
  BY DEF IInv, EnterFunction
<1>4. fn \in Compiled
  BY <1>1, <1>3
<1>5. /\ source' \in DOMAIN Sources /\ todo' \in Seq(Compiled)' /\ Compiled' = Compiled
      /\ program' = program /\ todo' # <<>>
  BY <1>2, <1>3 DEF Compiled, program
<1>6. Len(o) \in Nat \ {0}
  BY <1>1, <1>3, <1>4, CompiledFits DEF WellFormed
<1>7. f[0].scope = 0
  BY <1>1, <1>6, LayoutsComputed
<1>8. /\ walk'.fn = fn /\ walk'.ops = o /\ walk'.frame = f[Len(o)] /\ walk'.at = 1
      /\ walk'.scope = 0
  BY <1>2
<1>9. walk' # <<>>
  <2>1. "fn" \in DOMAIN walk' /\ DOMAIN <<>> = {}
    BY <1>2
  <2> QED
    BY <2>1
<1>10. Walking'
  <2>1. walk' = [fn |-> walk'.fn, ops |-> walk'.ops, frame |-> walk'.frame,
                 at |-> walk'.at, scope |-> walk'.scope]
    BY <1>2, <1>8
  <2>2. /\ walk'.fn \in Compiled' /\ walk'.ops = Operations[source'][walk'.fn]
        /\ walk'.frame = Layouts(program'[walk'.fn], walk'.ops)[Len(walk'.ops)]
    BY <1>1, <1>2, <1>4, <1>5, <1>8
  <2>3. walk'.at \in 1 .. Len(walk'.ops) + 1
    BY <1>6, <1>8
  <2>4. walk'.scope = Layouts(program'[walk'.fn], walk'.ops)[walk'.at - 1].scope
    BY <1>1, <1>5, <1>7, <1>8
  <2> QED
    BY <2>1, <2>2, <2>3, <2>4 DEF Walking
<1>11. Holding'
  <2>1. /\ gen'.stack = <<>> /\ gen'.matches = <<>> /\ gen'.regs = {}
        /\ gen' = [stack |-> gen'.stack, matches |-> gen'.matches, regs |-> gen'.regs,
                   callee_saved |-> gen'.callee_saved, code |-> gen'.code]
    BY <1>2
  <2>2. Generation(gen') /\ Held(gen') /\ ~Fatal(gen')
    BY <2>1, NoneIsSequence DEF Generation, Held, Fatal
  <2>3. Compared(walk'.ops, walk'.at) = 0
    BY <1>8 DEF Compared
  <2> QED
    BY <2>2, <2>3, HeldCases DEF Holding
<1> QED
  BY <1>5, <1>9, <1>10, <1>11 DEF IInv

(* The next function comes after one is done (generate_function).                   *)
LEMMA LeaveFunctionKept ==
  ASSUME IInv, LeaveFunction
  PROVE  IInv'
<1>1. /\ walk' = <<>> /\ gen' = <<>> /\ todo' = Tail(todo) /\ source' = source
      /\ todo \in Seq(Compiled) /\ todo # <<>> /\ source \in DOMAIN Sources
  BY DEF IInv, LeaveFunction
<1>2. Compiled' = Compiled
  BY <1>1 DEF Compiled, program
<1>3. todo' \in Seq(Compiled)
  BY <1>1
<1> QED
  BY <1>1, <1>2, <1>3 DEF IInv

(* Every step keeps the invariant.                                               *)
LEMMA NextKept ==
  ASSUME IInv, [Next]_vars
  PROVE  IInv'
<1>1. CASE UNCHANGED vars
  <2>1. UNCHANGED <<source, todo, walk, gen, missteps>>
    BY <1>1 DEF vars
  <2>2. Compiled' = Compiled /\ program' = program
    BY <2>1 DEF Compiled, program
  <2>3. /\ Walking => Walking'
        /\ Holding => Holding'
    BY <2>1, <2>2 DEF Walking, Holding
  <2> QED
    BY <2>1, <2>2, <2>3 DEF IInv
<1>2. CASE Next
  BY <1>2, EnterFunctionKept, LeaveFunctionKept, BinaryOperatorKept, UnaryOperatorKept, CallKept,
     CaseKept, CastKept, DeclareVariableKept, EndCaseKept, EndMatchKept, JumpAlwaysKept,
     JumpFKept, LabelHereKept, MatchKept, PopValueKept, PushBoolConstantKept,
     PushIntConstantKept, PushValueKept, PushVariableAddressKept, ReturnKept, ScopeBeginKept,
     ScopeEndKept, TakeComponentKept, WhenKept
     DEF Next
<1> QED
  BY <1>1, <1>2

(* The code generator always is where the first pass says it is, and knows of every *)
(* value that waits in a register (generate_function).                             *)
THEOREM Invariance == Spec => []IInv
<1>1. Init => IInv
  BY StartsHolding
<1>2. IInv /\ [Next]_vars => IInv'
  BY NextKept
<1> QED
  BY <1>1, <1>2, PTL DEF Spec

(* Whatever the program, the variables that are visible and declared where the code *)
(* is have slots of the frame that lie in it and do not overlap (IR_DECL_VAR,       *)
(* IR_SCOPE_BEGIN, IR_SCOPE_END in generate_function_declaration).                 *)
THEOREM SlotsHold == Spec => []SlotsApart
<1>1. IInv => SlotsApart
  <2>1. ASSUME IInv, walk # <<>> PROVE SlotsApart
    BY <2>1, WalkingApart DEF IInv
  <2>2. ASSUME walk = <<>> PROVE SlotsApart
    BY <2>2 DEF SlotsApart
  <2> QED
    BY <2>1, <2>2
<1> QED
  BY <1>1, Invariance, PTL

(* Whatever the program and however many registers there are, a value that waits in *)
(* a register has it to itself until it is used, but for the copy a CASE compares    *)
(* (arm64function_allocate_register, arm64function_release_register).              *)
THEOREM LocationsHold == Spec => []LocationsHeld
<1>1. IInv => LocationsHeld
  <2> SUFFICES ASSUME IInv, gen # <<>>, "unary" \notin missteps,
                      NEW i \in DOMAIN Places(gen), InRegister(Places(gen)[i])
               PROVE  /\ Places(gen)[i].reg \in gen.regs
                      /\ \A j \in DOMAIN Places(gen) :
                           InRegister(Places(gen)[j]) /\ i < j
                             /\ Places(gen)[i].reg = Places(gen)[j].reg =>
                           Places(gen)[i].keep /\ j = i + 1
    BY DEF LocationsHeld, Places
  <2>1. PICK p : p = Compared(walk.ops, walk.at)
    OBVIOUS
  <2>2. p \in 0 .. 2
    BY <2>1 DEF Compared
  <2>3. Generation(gen) /\ HeldWith(gen, p)
    BY <2>1 DEF IInv, Holding
  <2> QED
    BY <2>2, <2>3, HoldingHolds
<1> QED
  BY <1>1, Invariance, PTL

=============================================================================
