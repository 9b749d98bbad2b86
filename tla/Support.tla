------------------------------- MODULE Support -------------------------------
(***************************************************************************)
(* The code that supports the rest of sched/, each part run on its own:    *)
(* the console with the kernel monitor, formatted output, the copying of   *)
(* memory and the search for debugging information.                        *)
(***************************************************************************)
EXTENDS Console, Printfmt, MemMove, DebugInfo

vars == <<csVars, pfVars, mvVars, dbVars>>

Init ==
    \/ CsInit /\ PfIdle /\ MvIdle /\ DbIdle
    \/ CsIdle /\ PfInit /\ MvIdle /\ DbIdle
    \/ CsIdle /\ PfIdle /\ MvInit /\ DbIdle
    \/ CsIdle /\ PfIdle /\ MvIdle /\ DbInit

Routine ==
    \/ PfNext /\ UNCHANGED <<csVars, mvVars, dbVars>>
    \/ MvNext /\ UNCHANGED <<csVars, pfVars, dbVars>>
    \/ DbNext /\ UNCHANGED <<csVars, pfVars, mvVars>>

Next ==
    \/ CsNext /\ UNCHANGED <<pfVars, mvVars, dbVars>>
    \/ Routine

\* The CPU keeps executing; nobody has to type.
Fairness == WF_vars(Cpu /\ UNCHANGED <<pfVars, mvVars, dbVars>>) /\ WF_vars(Routine)

Spec == Init /\ [][Next]_vars /\ Fairness

\* Each routine returns: the loops of vprintfmt, which goes back in the format for
\* an escape it does not know, of memmove, and of stab_binsearch, which may look at
\* the same stab again, all end.
Returns == <>(done /\ rep.count = 0 /\ phase \in {"idle", "done", "failed"})
=============================================================================
