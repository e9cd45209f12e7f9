------------------------------- MODULE Client -------------------------------
(***************************************************************************)
(* One machine's epull with all its commands: register and provision       *)
(* (Epull), and selfupdate (SelfUpdate), one command at a time. They share *)
(* the identity: selfupdate needs one that loads.                          *)
(***************************************************************************)
EXTENDS Epull, SelfUpdate

vars == <<epullVars, updateVars>>

TypeOK == EpullTypeOK /\ UpdateTypeOK

Init == EpullInit /\ UpdateInit

Authenticated == settings /\ ca /\ cert = key /\ cert = enrolled

Next ==
    \/ /\ EpullNext /\ UNCHANGED updateVars
       /\ cpc # "idle" => pc' = pc
    \/ /\ UpdateNext /\ UNCHANGED epullVars
       /\ cpc = "idle" /\ cpc' # "idle" => pc = "idle" /\ Authenticated

Spec == Init /\ [][Next]_vars
=============================================================================
