------------------------------- MODULE MCJobs -------------------------------
(* Jobs with two jobs, in one transaction or in two.                       *)
EXTENDS Jobs

Scenario(grouped, finalize, dismiss, fails) ==
  [grouped |-> grouped, manual_finalize |-> finalize,
   manual_dismiss |-> dismiss, prepare_fails |-> fails]

\* Jobs that share a transaction have no .prepare, as in this program.
MCScenarios ==
  {Scenario(TRUE, {}, {}, {}), Scenario(TRUE, {1}, {1, 2}, {}),
   Scenario(FALSE, {2}, {1}, {1})}
=============================================================================
