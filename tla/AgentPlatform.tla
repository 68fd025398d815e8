--------------------------- MODULE AgentPlatform ---------------------------
(***************************************************************************)
(* The command groups of `mellow agent` side by side                       *)
(* (cli/commands/agent_groups): the control plane, the packages and the    *)
(* runs.  They share no file, so a step of one group leaves the others'    *)
(* state alone and it is enough to follow the commands of one of them.     *)
(***************************************************************************)
EXTENDS ControlPlane, AgentPackages, AgentRuns

VARIABLE group  \* whose commands are given

platformVars == <<vars, pkgVars, runVars, group>>

PlatformInit ==
    /\ group \in {"control-plane", "packages", "runs"}
    /\ Init /\ RunsInit
    /\ PkgInit /\ (group # "packages" => own = CHOOSE r \in OwnReleases : TRUE)

PlatformNext ==
    /\ UNCHANGED group
    /\ \/ group = "control-plane" /\ Next    /\ UNCHANGED <<pkgVars, runVars>>
       \/ group = "packages"      /\ PkgNext /\ UNCHANGED <<vars, runVars>>
       \/ group = "runs"          /\ RunsNext /\ UNCHANGED <<vars, pkgVars>>

PlatformSpec == PlatformInit /\ [][PlatformNext]_platformVars
=============================================================================
