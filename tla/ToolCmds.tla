-------------------------------- MODULE ToolCmds --------------------------------
(***************************************************************************)
(* The commands of the simulators: the templates of rtl_simulation.yaml    *)
(* filled in by get_tool_cmds (riscvdv_interface.py, scripts_lib.py) and   *)
(* the options of the Ibex configuration (ibex_cmd.py, ibex_config.py).    *)
(*                                                                         *)
(* A command is the set of the placeholders <_> left in it; the value that *)
(* replaces a placeholder is again the set of the placeholders it holds.   *)
(***************************************************************************)
EXTENDS Sequences, FiniteSets, SequencesExt

CONSTANTS
    SimulatorYaml,  \* tool -> [compile, sim, env_var]; compile and sim are
                    \* [cmd: sequence of commands, opts: sequence of <<key, value>>]
    Environ         \* the environment variables that are set
-------------------------------------------------------------------------------
(* Substitution *)

subst_opt(cmd, name, value) == IF name \in cmd THEN (cmd \ {name}) \cup value ELSE cmd

\* The entries of the dictionary one after the other: a placeholder that a
\* value brings in is only replaced by a later entry.
subst_dict(cmd, dict) == FoldLeft(LAMBDA c, kv : subst_opt(c, kv[1], kv[2]), cmd, dict)

\* subst_env_vars wants every variable of the list, used or not.
EnvRaises(env_var) == ~(env_var \subseteq Environ)
-------------------------------------------------------------------------------
(* get_tool_cmds *)

OptsOf(entry, enables) ==
    [i \in DOMAIN entry.opts |->
        <<entry.opts[i][1], IF entry.opts[i][1] \in enables THEN entry.opts[i][2] ELSE {}>>]

\* The options of the entry; then the values of the calling script, which
\* are plain text; then the environment.
Formatted(tool, cmd_type, cmd, enables, user) ==
    subst_dict(cmd, OptsOf(SimulatorYaml[tool][cmd_type], enables))
        \ (user \cup SimulatorYaml[tool].env_var)

\* An unknown simulator, a variable that is not set, a placeholder left over.
ToolCmdsRaise(tool, cmd_type, enables, user) ==
    \/ tool \notin DOMAIN SimulatorYaml
    \/ EnvRaises(SimulatorYaml[tool].env_var)
    \/ \E cmd \in Range(SimulatorYaml[tool][cmd_type].cmd) :
          Formatted(tool, cmd_type, cmd, enables, user) # {}
-------------------------------------------------------------------------------
(* Configuration options.  A simulator takes the parameters when the       *)
(* testbench is compiled, when it is run, or the strings at the first and  *)
(* the numbers at the second.                                              *)

SIM_CFGS == [vcs     |-> [compile |-> TRUE, sim |-> FALSE],
             riviera |-> [compile |-> TRUE, sim |-> TRUE],
             questa  |-> [compile |-> TRUE, sim |-> TRUE],
             xlm     |-> [compile |-> TRUE, sim |-> FALSE],
             dsim    |-> [compile |-> TRUE, sim |-> FALSE]]

XOptsRaise(tool) == tool \notin DOMAIN SIM_CFGS

\* _get_x_opts: the parameters passed at a stage, of those in fields.
XOpts(tool, stage, fields) ==
    LET both == SIM_CFGS[tool].compile /\ SIM_CFGS[tool].sim
        strings == {f \in DOMAIN fields : fields[f] = "str"}
    IN IF ~SIM_CFGS[tool][stage] THEN {}
       ELSE IF ~both THEN DOMAIN fields
       ELSE IF stage = "compile" THEN strings ELSE DOMAIN fields \ strings
-------------------------------------------------------------------------------
(* reloc_word knows the build directory of three simulators. *)
sim_relocs == {"vcs", "xlm", "dsim"}
RelocRaises(tool) == tool \notin sim_relocs
===============================================================================
