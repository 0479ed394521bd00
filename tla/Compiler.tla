------------------------------ MODULE Compiler ------------------------------
(* From a text to a program that can be generated: the parser, and behind it   *)
(* the passes of the binder (bind_program, binder.c:1800). A text with errors  *)
(* does not come to the binder (backend.c:87).                                 *)
EXTENDS Parser, Language

VARIABLES
    bound,      \* the bound tree, and what the last pass counted
    pass,       \* the passes there were
    outcome,    \* none yet, accepted, refused, crash; astray where a pass goes on in the wrong node
    strayed     \* the missteps of the binder
compilerVars == <<vars, bound, pass, outcome, strayed>>

INT32_MAX == 2147483647
NotBound == [bound |-> Context, module |-> Nothing, std |-> Nothing, first |-> 0]

CompilerInit ==
    /\ Init
    /\ bound = NotBound /\ pass = 0 /\ outcome = "none" /\ strayed = {}

Waits == UNCHANGED <<bound, pass, outcome, strayed>>

Imported == SelectSeq(imports, LAMBDA i : i[2] = "'std'")
StdModule == IF Imported = << >> THEN <<"module", << >> >> ELSE Imported[1][3]

\* Mutant: as many unbound nodes as before are taken for progress.
OutcomeAfterStandstill(b, current) ==
    IF b.missteps \cap {"crash", "skipped"} # {} THEN "crash"
    ELSE IF b.errors > 0 \/ b.unbound > current THEN "refused"
    ELSE IF b.unbound = 0 THEN "accepted" ELSE "none"

(* What a pass leaves when this many were unbound before it.                   *)
Outcome(b, current) ==
    IF "skipped" \in b.missteps THEN "astray"
    ELSE IF "crash" \in b.missteps THEN "crash"
    ELSE IF b.errors > 0 \/ b.unbound >= current THEN "refused"
    ELSE IF b.unbound = 0 THEN "accepted" ELSE "none"

FirstPass ==
    /\ fate = "done" /\ ~errors /\ missteps = {} /\ pass = 0
    /\ Bindable(module)
    /\ bound' = BindProgram(module, StdModule)
    /\ pass' = 1
    /\ outcome' = Outcome(bound'.bound, INT32_MAX)
    /\ strayed' = bound'.bound.missteps
    /\ UNCHANGED vars

(* A pass that binds some nodes and by that comes to as many unbound ones that *)
(* it could not see before is taken for one that made no progress.             *)
NextPass ==
    /\ pass > 0 /\ outcome = "none"
    /\ bound' = RebindProgram(bound)
    /\ pass' = pass + 1
    /\ outcome' = Outcome(bound'.bound, bound.bound.unbound)
    /\ strayed' = bound'.bound.missteps
                  \cup When(outcome' = "refused" /\ bound'.bound.errors = 0 /\ bound'.module # bound.module, "grown")
    /\ UNCHANGED vars

CompilerNext ==
    \/ ImportPackage /\ Waits
    \/ ParseText /\ Waits
    \/ UsesDeadLexer /\ Waits
    \/ ModuleItem /\ Waits
    \/ OpenBody /\ Waits
    \/ BodyStatement /\ Waits
    \/ CloseBody /\ Waits
    \/ ParseImport /\ Waits
    \/ FinishModule /\ Waits
    \/ FirstPass
    \/ NextPass
CompilerSpec == CompilerInit /\ [][CompilerNext]_compilerVars

-----------------------------------------------------------------------------
(* A program that is accepted is bound to the last node, and what is bound is  *)
(* every statement that was written, in the place where it was written.        *)
AcceptedIsBound ==
    outcome = "accepted" /\ strayed = {} =>
        ~HasUnbound(bound.module) /\ Outline(bound.module) = Written(module)

(* The passes of the binder, in whatever order the program declares its names, *)
(* accept the programs that make sense and no others.                          *)
SensibleIsAccepted ==
    outcome # "none" /\ strayed = {} => (outcome = "accepted" <=> WellFormed(module, StdModule))

(* Every pass but the first binds something, so there are no more of them than *)
(* there were unbound nodes after the first.                                   *)
BinderEnds == pass <= 1 + bound.first
=============================================================================
