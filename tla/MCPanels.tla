------------------------------ MODULE MCPanels ------------------------------
(* Values for Panels: two processes, two programs of one name and a third that   *)
(* may not be opened, every text of up to four symbols, screens from the         *)
(* smallest to a high one.                                                       *)
EXTENDS Panels

MCDetails == UNION {[1..n -> {"a", "cr", "lf", "#", "tag", "-", " "}] : n \in 0..4}
Is(e, h, w) == [exe |-> e, holds |-> h, win |-> w]
MCBeginnings ==
    {[p \in Processes |-> IF p = 1 THEN pair[1] ELSE pair[2]] : pair \in
        {<<Gone, Gone>>, <<Is("stable", "files", 0), Is("stable", "files", 2)>>,
         <<Is("stable", "hook", 2), Is("stable", "nothing", 3)>>, <<Is("stable", "files", 2), Is("beta", "files", 0)>>,
         <<Is("closed", "hook", 0), Is("closed", "hook", 2)>>}}
MCVersions == {<<>>, <<15, 0>>} \cup ({13, 14, 15} \X {49, 50, 51} \X {35718, 35719, 35720})
MCAppName == [e \in Exes |-> IF e = "closed" THEN "hidden" ELSE "browser"]
MCDescription == [e \in Exes |-> IF e = "beta" THEN "browser beta" ELSE "browser"]
MCFolder == [e \in Exes |-> IF e = "stable" THEN "browser (stable)" ELSE "other"]
=============================================================================
