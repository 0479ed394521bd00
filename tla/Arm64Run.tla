------------------------------- MODULE Arm64Run -------------------------------
(***************************************************************************)
(* The code of a program, once it is generated, run on the machine, and what *)
(* it does compared with what the program means.                             *)
(***************************************************************************)
EXTENDS Arm64, Arm64Machine

CONSTANT Steps  \* how many instructions a run may take

ASSUME StepsAssumption == Steps \in Nat \ {0} /\ \A s \in DOMAIN Sources : "main" \in DOMAIN Sources[s]

RunProgram ==
  /\ Generating /\ walk = <<>> /\ todo = <<>>
  /\ LET m == RunFrom(code, Reset(Position(code, <<"main", -1>>)), Steps)
     IN outcome' = [how |-> CASE m.pc = 0 -> "done" [] m.pc \in DOMAIN code -> "endless"
                              [] OTHER -> "wild",
                    out |-> m.out, exit |-> m.regs[X0]]
  /\ UNCHANGED <<source, todo, walk, gen, code, missteps>>

RunNext == Next \/ RunProgram

RunSpec == Init /\ [][RunNext]_vars

(* A program the compiler accepts runs to its end, prints what it means and has   *)
(* its exit code, unless it is one the code is known to get wrong: registers,      *)
(* frame slots, labels, calls and returns all have to fit for that.               *)
ComputesMeaning ==
  missteps = {} =>
    /\ outcome.how \notin {"endless", "wild"}
    /\ outcome.how = "done" =>
         [out |-> outcome.out, exit |-> outcome.exit] = ProgramMeaning(program)
=============================================================================
