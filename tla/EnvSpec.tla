------------------------------- MODULE EnvSpec -------------------------------
(***************************************************************************)
(* The shared document of a run and its write policy (core/env_spec.py,    *)
(* core/spec_policy.py).  A path is a sequence of names; of the document   *)
(* only the values at Leaves are kept.  A value is a tuple that starts     *)
(* with its type; text is the set of its words, {} for the empty string.   *)
(* An absent leaf and a null one are the same to get().                    *)
(*                                                                         *)
(* Left out: the limits on the form of a path, and ACL entries matching    *)
(* siblings whose name starts like theirs ("passes_x" for "passes").       *)
(***************************************************************************)
EXTENDS Integers, SequencesExt

Null == <<"null">>
Object == <<"object">>
List == <<"list">>
Number(n) == <<"int", n>>
Words(words) == <<"text", words>>
Text(word) == Words({word})
IsOf(v, type) == v[1] = type

\* A value of Python is false when it is None or empty.
Truthy(v) == v \notin {Null, Words({})}

Under(section, names) == {<<section, n>> : n \in names}

-----------------------------------------------------------------------------
(* The tables of spec_policy.py. *)

ControllerOwned ==
  {<<"run_id">>, <<"created_at">>, <<"report">>, <<"token_usage">>, <<"sandbox", "actual">>}
  \union Under("sample", {"path", "sha256", "size_bytes", "source", "repo_url"})
  \union Under("network", {"mode", "route_enforced"})
  \union Under("cape_submission",
           {"pass1_task_id", "pass2_task_id", "final_task_id", "network_mode_enforced",
            "available_machines", "backend_capabilities", "actual", "validation_errors"})
  \union Under("executor",
           {"passes_completed", "final_task_id", "validation_failed", "validation_error",
            "report_sha256_verified", "report_sha256_seen", "report_quality",
            "report_fetch_error", "run_dir"})

\* Branches owned below (the reports under pass2.artefacts among them).
OwnedPrefixes ==
  {<<"pass2", "artefacts">>, <<"provenance">>, <<"sandbox", "actual">>,
   <<"cape_submission", "actual">>, <<"cape_submission", "validation_errors">>}

\* An entry of ControllerOwned owns that path alone, a prefix all that is below.
OwnedByController(path) ==
  \/ path \in ControllerOwned
  \/ \E p \in OwnedPrefixes : IsStrictPrefix(p, path)

Described == Under("network", {"intercept_dns", "intercept_http", "c2_server", "reasoning"})

\* Mutant of RoleWritable: Scout may write network as a whole.
RoleWritableWithNetwork ==
  [Scout |-> {<<"sample", "os_target">>, <<"network">>},
   Architect |-> Under("cape_submission", {"package", "timeout", "options", "platform", "error"}),
   Executor |-> {<<"pass1">>, <<"executor", "corrections">>}]

RoleWritable ==
  [Scout |->
     Under("sample", {"format", "os_target", "architecture", "packed", "interpreter",
                      "file_type", "pe_is_dll", "proposed_path"})
     \union Described \union {<<"network", "proposed_mode">>}
     \union Under("sandbox", {"isolation", "os", "arch", "ram_mb", "disk_gb", "reasoning"})
     \union {<<"environment">>, <<"classification">>, <<"monitors">>, <<"scout">>},
   Architect |->
     Under("cape_submission", {"package", "timeout", "enforce_timeout", "options", "memory",
                               "machine", "platform", "priority", "tags", "reasoning", "error"})
     \union Described \union {<<"environment">>, <<"host">>, <<"architect">>},
   Executor |->
     Under("executor", {"current_pass", "corrections", "empty_data_retry_done", "observations"})
     \union {<<"pass1">>, <<"pass2", "completed">>, <<"passes">>, <<"monitors">>},
   Analyst |->
     Under("classification", {"family", "confidence"}) \union {<<"analysis">>, <<"analyst">>}]

\* FIELD_TYPES, by type.
FieldTypes ==
  [text |->
     Under("sample", {"format", "os_target", "architecture", "interpreter", "file_type",
                      "proposed_path"})
     \union Under("network", {"proposed_mode", "c2_server", "reasoning"})
     \union Under("cape_submission", {"tags", "reasoning", "error", "package", "options",
                                      "machine", "platform"})
     \union Under("classification", {"type", "confidence", "family"})
     \union Under("sandbox", {"isolation", "os", "arch", "reasoning"}),
   bool |->
     Under("sample", {"packed", "pe_is_dll"}) \union Under("network", {"intercept_dns", "intercept_http"})
     \union Under("cape_submission", {"enforce_timeout", "memory"})
     \union {<<"pass1", "completed">>, <<"pass2", "completed">>, <<"executor", "empty_data_retry_done">>},
   int |->
     Under("sandbox", {"ram_mb", "disk_gb"}) \union Under("cape_submission", {"timeout", "priority"})
     \union {<<"executor", "current_pass">>},
   numeric |-> {<<"pass1", "duration_s">>},
   list |->
     {<<"classification", "basis">>, <<"pass1", "observations">>, <<"passes">>,
      <<"executor", "corrections">>},
   object |-> {<<"analysis", "report">>, <<"monitors">>}]

FieldEnums(path) ==
  CASE path = <<"cape_submission", "platform">> -> {"windows", "linux", "macos", "android"}
    [] path = <<"network", "proposed_mode">> -> {"isolated", "fakenet", "nat", "internet"}
    [] path = <<"classification", "confidence">> -> {"high", "medium", "low", "unknown"}
    [] path = <<"sample", "os_target">> ->
         {"windows", "linux", "macos", "android", "cross-platform", "unknown"}

Enumerated ==
  {<<"cape_submission", "platform">>, <<"network", "proposed_mode">>,
   <<"classification", "confidence">>, <<"sample", "os_target">>}

FieldBounds(path) ==
  CASE path = <<"cape_submission", "timeout">> -> 10..1800
    [] path = <<"cape_submission", "priority">> -> 1..3
    [] path = <<"sandbox", "ram_mb">> -> 256..65536
    [] path = <<"sandbox", "disk_gb">> -> 1..2048
    [] path = <<"executor", "current_pass">> -> 0..16

-----------------------------------------------------------------------------
\* The type, enumeration and bounds of the exact path; null always passes.
Conforms(path, v) ==
  \/ v = Null
  \/ /\ \A type \in DOMAIN FieldTypes :
          path \in FieldTypes[type] =>
            \/ IsOf(v, type)
            \/ type = "numeric" /\ IsOf(v, "int")
     /\ path \in Enumerated => \E word \in FieldEnums(path) : v = Text(word)
     /\ path \in FieldTypes.int => v[2] \in FieldBounds(path)

\* check_write(), for an agent.
CheckWrite(path, v, role) ==
  /\ ~OwnedByController(path)
  /\ \E entry \in RoleWritable[role] : IsPrefix(entry, path)
  /\ Conforms(path, v)

\* EnvironmentSpec.set(), once allowed.  A name below a leaf makes the leaf an
\* object; a value put in place of a branch takes the leaves of the branch away.
Put(doc, path, v) ==
  [leaf \in DOMAIN doc |->
     IF leaf = path THEN v
     ELSE IF IsStrictPrefix(leaf, path) THEN Object
     ELSE IF IsStrictPrefix(path, leaf) THEN Null
     ELSE doc[leaf]]
=============================================================================
