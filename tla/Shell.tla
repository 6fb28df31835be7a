--------------------------------- MODULE Shell ---------------------------------
(***************************************************************************)
(* What the conductor's shell() promises the coroutine that awaits it:     *)
(* every command that is requested is answered once, with an exit code of  *)
(* its own, or without one if it had a timeout, and sooner or later some   *)
(* command is answered while one is awaited, unless the shell is stuck.    *)
(* Scheduling, killing for memory and restarting do not show.              *)
(***************************************************************************)
CONSTANTS Codes,    \* Codes[k]: exit codes of a command of kind k
          NoCode

VARIABLES
    job,            \* the commands of the program, by id <<task, kind>>
    stuck           \* the command whose turn it is can never be run, or runs
                    \* without an end

Awaited == {p \in DOMAIN job : job[p].state = "waiting"}

Init == job = <<>>

\* The program requests commands, forgetting answered ones; it may cancel
\* a command as soon as it has requested it.
Request ==
    /\ \A p \in DOMAIN job' :
         \/ job'[p].state \in {"waiting", "cancelled"} /\ job'[p].code = NoCode
         \/ p \in DOMAIN job /\ job'[p] = job[p]
    /\ \A p \in Awaited : p \in DOMAIN job' /\ job'[p] = job[p]

\* Some awaited commands are answered.
Settle ==
    \E S \in (SUBSET Awaited) \ {{}} :
      /\ DOMAIN job' = DOMAIN job
      /\ \A p \in DOMAIN job \ S : job'[p] = job[p]
      /\ \A p \in S : /\ job'[p].state = "done" /\ job'[p].timed = job[p].timed
                      /\ \/ job'[p].code \in Codes[p[2]]
                         \/ job'[p].code = NoCode /\ job[p].timed

\* The program fails: nobody awaits its commands any longer.
Cancel ==
    job' = [p \in DOMAIN job |->
              IF p \in Awaited THEN [job[p] EXCEPT !.state = "cancelled"] ELSE job[p]]

\* The program ends, or is killed.
Abandon == job' = <<>>

Next == Request \/ Settle \/ Cancel \/ Abandon

\* Weak fairness of Settle, which is enabled when a command is awaited: not
\* written with ENABLED, so that it keeps its meaning under a refinement
\* mapping.
Progress == []<>(Awaited = {}) \/ []<><<Settle>>_job \/ <>[]stuck

Safety == Init /\ [][Next]_job

Spec == Safety /\ Progress
===============================================================================
