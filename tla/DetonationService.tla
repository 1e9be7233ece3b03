-------------------------- MODULE DetonationService --------------------------
(***************************************************************************)
(* What the QEMU backend promises to its caller: a submission is given a   *)
(* number once, is bound to the bytes taken then, and ends at most once,   *)
(* as a failure or with a report of its own container about these bytes.   *)
(* A submission that raises stays accepted for ever: its caller never      *)
(* learns the number.                                                      *)
(***************************************************************************)
CONSTANTS Jobs, Bytes, None

VARIABLE job    \* the submission behind each number

Fresh == [st |-> "none", bytes |-> None, by |-> None, ran |-> None]

ServiceTypeOK ==
  job \in [Jobs -> [st : {"none", "accepted", "failed", "reported"},
                    bytes : Bytes \union {None}, by : Jobs \union {None},
                    ran : Bytes \union {None}]]

Init == job = [j \in Jobs |-> Fresh]

Accept(j, b) ==
  /\ job[j] = Fresh
  /\ job' = [job EXCEPT ![j].st = "accepted", ![j].bytes = b]

Fail(j) ==
  /\ job[j].st = "accepted"
  /\ job' = [job EXCEPT ![j].st = "failed"]

\* The evidence, if there is any, is of the submitted bytes.
Report(j) ==
  /\ job[j].st = "accepted"
  /\ \E evidence \in {job[j].bytes, None} :
       job' = [job EXCEPT ![j].st = "reported", ![j].by = j, ![j].ran = evidence]

Next == \E j \in Jobs : Fail(j) \/ Report(j) \/ \E b \in Bytes : Accept(j, b)

Spec == Init /\ [][Next]_job
=============================================================================
