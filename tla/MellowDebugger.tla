--------------------------- MODULE MellowDebugger ---------------------------
(***************************************************************************)
(* Debugging sessions of the playground (playground/server.py) on the      *)
(* interpreter of MellowVM: before each instruction the main machine may   *)
(* pause (vm/debugger_groups/stepping.py), and goes on at the user's next  *)
(* command.  Nested machines run to their end without pausing.             *)
(*                                                                         *)
(* A breakpoint names an opcode; those that name an instruction or a line  *)
(* are the same test of another field.  Left out: conditional breakpoints, *)
(* what a pause shows, the time limit, two commands at once, and commands  *)
(* to a session that has failed.                                           *)
(***************************************************************************)
EXTENDS MellowVM

CONSTANTS
    Debugged,       \* programs that also run in a session
    Breakpoints,    \* sets of opcodes to break at
    MaxCommands     \* bound: commands; from then on the user only steps into

VARIABLE dbg        \* the session: see NoSession

debugVars == <<vars, dbg>>

(* plan: the stepping command under way, given at call depth depth; skip:  *)
(* the next instruction is executed without asking.                        *)
NoSession == [on |-> FALSE, breaks |-> {}, started |-> FALSE, paused |-> FALSE,
              plan |-> "none", depth |-> 0, skip |-> FALSE, commands |-> 0]

DebugInit ==
    /\ Init
    /\ dbg \in {NoSession} \cup {[NoSession EXCEPT !.on = TRUE, !.breaks = b] :
                                    b \in IF prog \in Debugged THEN Breakpoints ELSE {}}

Depth == Len(VM.calls)

(* At the start, where the plan says so, or at a breakpoint.               *)
PauseIsDue ==
    \/ ~dbg.started
    \/ dbg.plan = "into"
    \/ dbg.plan = "over" /\ Depth <= dbg.depth
    \/ dbg.plan = "out" /\ Depth < dbg.depth
    \/ Code[VM.pc].op \in dbg.breaks

(* The debugger is asked between the step counter and the instruction, of  *)
(* the main machine alone.                                                 *)
Asked == dbg.on /\ ~Nested /\ VM.left > 0 /\ VM.pc \in DOMAIN Code

Execute ==
    /\ ~dbg.paused
    /\ Asked /\ ~dbg.skip => ~PauseIsDue
    /\ Next
    /\ dbg' = IF Asked THEN [dbg EXCEPT !.skip = FALSE, !.started = TRUE] ELSE dbg

(* A pause costs a step of the limit too.                                  *)
Pause ==
    /\ status = "running" /\ ~dbg.paused
    /\ Asked /\ ~dbg.skip /\ PauseIsDue
    /\ Put([VM EXCEPT !.left = @ - 1])
    /\ dbg' = [dbg EXCEPT !.paused = TRUE, !.plan = "none", !.started = TRUE]
    /\ Silent

(* debugger_command: "continue" does not skip the breakpoint it stands at, *)
(* and so pauses there again.                                              *)
Resume(mode) ==
    /\ dbg.paused
    /\ mode = "into" \/ dbg.commands < MaxCommands
    /\ dbg' = [dbg EXCEPT !.paused = FALSE, !.depth = Depth,
                          !.plan = IF mode = "continue" THEN "none" ELSE mode,
                          !.skip = mode # "continue",
                          !.commands = IF @ < MaxCommands THEN @ + 1 ELSE @]
    /\ UNCHANGED vars

DebugNext == Execute \/ Pause \/ \E mode \in {"continue", "into", "over", "out"} : Resume(mode)

(* The user goes on with a session.                                        *)
DebugSpec == DebugInit /\ [][DebugNext]_debugVars /\ WF_debugVars(DebugNext)
=============================================================================
