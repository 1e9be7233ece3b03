-------------------------- MODULE MCSubmissionPlan --------------------------
(* Both backends; an Architect that may fill the plan and correct itself once,  *)
(* one write per adjustment and per loop of the Executor.                       *)
EXTENDS SubmissionPlan

MCLeaves == {Target, Proposed, Mode, Enforced, Package, Platform, Timeout, Options, Error, Hint,
             Corrections}

MCOffered == [leaf \in MCLeaves |->
  {Null, Object} \union
  CASE leaf = Target -> {Text("linux"), Text("unknown")}
    [] leaf \in {Proposed, Mode} -> {Text("nat"), Text("bridged")}
    [] leaf = Package -> {Text("elf"), Text("generic"), Text(" ")}
    [] leaf = Platform -> {Text("linux"), Text("windows")}
    [] leaf = Timeout -> {Number(5), Number(10), Number(1800)}
    [] leaf \in {Options, Enforced} -> {Words({"network=internet", "human=1"})}
    [] leaf = Error -> {Text("no machine")}
    [] leaf = Hint -> {Text("WRONG_PACKAGE"), Text("TIMEOUT"), Number(1)}
    [] leaf = Corrections -> {List}]

MCWrites == [scout |-> 2, architect |-> 4, adjust |-> 1, executor |-> 1]
=============================================================================
