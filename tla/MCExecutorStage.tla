--------------------------- MODULE MCExecutorStage ---------------------------
(* One VM per platform, three ids the backend can issue, two the ledger will  *)
(* admit, and an old report of another sample under id 2.                     *)
EXTENDS ExecutorStage

MCRawIds == 1..3
MCStaleIds == {2}

=============================================================================
