---------------------------- MODULE MCStageAttempt ----------------------------
(***************************************************************************)
(* Instances of StageAttempt for TLC: who is at work on the row at once.   *)
(***************************************************************************)
EXTENDS StageAttempt, TLC

CONSTANTS tab1, tab2, owner, cron

\* The candidate's tab, the minute cron, and a job that may be the candidate's
\* second tab or the owner and her graders, one operation at a time.
Everybody ==
    tab1 :> {"start", "submit"} @@ cron :> {"expire"}
        @@ owner :> {"start", "submit", "approve", "grade"}
TwoTabs == tab1 :> {"start"} @@ tab2 :> {"start"}
TabAndCron == tab1 :> {"start", "submit"} @@ cron :> {"expire"}
=============================================================================
