------------------------------ MODULE MCRules ------------------------------
(***************************************************************************)
(* A window of an application, a window of the same bundle under its new   *)
(* name, and a browser with a window on a site and one on none.            *)
(***************************************************************************)
EXTENDS Rules, TLC

CONSTANTS editor, renamed, tab, blank

MCWindows == {editor, renamed, tab, blank}

MCAppOf == (editor :> "Code" @@ renamed :> "Coder"
            @@ tab :> "Safari" @@ blank :> "Safari")

\* Reports of the application's old name may lack the bundle identifier
MCReported ==
    [w \in MCWindows |-> IF w \in {tab, blank} THEN {"safari"}
                        ELSE IF w = editor THEN {"code", None} ELSE {"code"}]

MCHostOf == [w \in MCWindows |-> IF w = tab THEN "site" ELSE None]

MCPluginSays ==
    [w \in MCWindows |-> [category |-> "UNLOGGED", user |-> FALSE, confident |-> FALSE]]
=============================================================================
