------------------------------ MODULE OneResult --------------------------------
(****************************************************************************)
(* What a requested export promises its requester: one verdict, once; what  *)
(* can be downloaded afterwards never changes and never disappears.         *)
(****************************************************************************)
EXTENDS Naturals

VARIABLES verdict, content   \* "open", "ready", "failed"; the bundle that can be downloaded, 0 is none

resultVars == <<verdict, content>>

ResultInit == verdict = "open" /\ content = 0
Deliver == verdict = "open" /\ verdict' = "ready" /\ content' \in Nat \ {0}
GiveUp == verdict = "open" /\ verdict' = "failed" /\ content' = 0
ResultNext == Deliver \/ GiveUp
ResultSafe == ResultInit /\ [][ResultNext]_resultVars
ResultSpec == ResultSafe /\ WF_resultVars(GiveUp)
================================================================================
