------------------------- MODULE SubmissionPlanProofs -------------------------
(***************************************************************************)
(* The plan for every document, every value an agent may offer, every      *)
(* number of writes, rounds and corrections.  What the controller owns is  *)
(* kept because no entry of a role's table is above or below an owned path *)
(* (TablesApart).                                                          *)
(***************************************************************************)
EXTENDS SubmissionPlan, TLAPS

-----------------------------------------------------------------------------
(* Paths. *)

IsSeq(s) == s \in Seq({s[i] : i \in DOMAIN s})

\* Two paths part at some name that both have: neither is above the other.
Apart(s, t) == \E i \in 1..Len(s) : i \in 1..Len(t) /\ s[i] # t[i]

\* One or two names are a path.
LEMMA ShortPaths ==
  ASSUME NEW a, NEW n
  PROVE  /\ IsSeq(<<a>>) /\ <<a>> # << >> /\ <<a>>[1] = a
         /\ IsSeq(<<a, n>>) /\ <<a, n>> # << >> /\ <<a, n>>[1] = a /\ <<a, n>>[2] = n
<1>1. <<a>> \in Seq({<<a>>[i] : i \in DOMAIN <<a>>})
  OBVIOUS
<1>2. <<a, n>> \in Seq({<<a, n>>[i] : i \in DOMAIN <<a, n>>})
  OBVIOUS
<1>3. <<a>> # << >> /\ <<a, n>> # << >>
  OBVIOUS
<1>4. <<a>>[1] = a /\ <<a, n>>[1] = a /\ <<a, n>>[2] = n
  OBVIOUS
<1> QED
  BY <1>1, <1>2, <1>3, <1>4 DEF IsSeq

\* A prefix has the names of the path.
LEMMA PrefixNames ==
  ASSUME NEW s, IsSeq(s), NEW t, IsSeq(t), IsPrefix(s, t), NEW i \in 1..Len(s)
  PROVE  i \in 1..Len(t) /\ s[i] = t[i]
<1>1. Len(s) \in Nat /\ Len(t) \in Nat /\ Len(s) <= Len(t)
  BY DEF IsPrefix, IsSeq
<1>2. SubSeq(s, 1, Len(s))[i] = SubSeq(t, 1, Len(s))[i]
  BY DEF IsPrefix
<1>3. SubSeq(s, 1, Len(s))[i] = s[i] /\ SubSeq(t, 1, Len(s))[i] = t[i]
  BY <1>1 DEF IsSeq
<1> QED
  BY <1>1, <1>2, <1>3

LEMMA PrefixSelf ==
  ASSUME NEW s, IsSeq(s)
  PROVE  IsPrefix(s, s)
BY DEF IsPrefix, IsSeq

\* What is below two paths that part, parts.
LEMMA BelowApart ==
  ASSUME NEW s, IsSeq(s), NEW t, IsSeq(t), NEW below, IsSeq(below), NEW under, IsSeq(under),
         Apart(s, t), IsPrefix(s, below), IsPrefix(t, under)
  PROVE  Apart(below, under)
<1>1. PICK i \in 1..Len(s) : i \in 1..Len(t) /\ s[i] # t[i]
  BY DEF Apart
<1>2. i \in 1..Len(below) /\ s[i] = below[i]
  BY <1>1, PrefixNames
<1>3. i \in 1..Len(under) /\ t[i] = under[i]
  BY <1>1, PrefixNames
<1> QED
  BY <1>1, <1>2, <1>3 DEF Apart

\* A write does not touch a leaf that its path parts from.
LEMMA PutApart ==
  ASSUME NEW d, NEW path, IsSeq(path), NEW leaf \in DOMAIN d, IsSeq(leaf), NEW v,
         Apart(path, leaf)
  PROVE  Put(d, path, v)[leaf] = d[leaf]
<1>1. PICK i \in 1..Len(path) : i \in 1..Len(leaf) /\ path[i] # leaf[i]
  BY DEF Apart
<1>2. leaf # path
  BY <1>1
<1>3. ~IsPrefix(leaf, path)
  BY <1>1, PrefixNames
<1>4. ~IsPrefix(path, leaf)
  BY <1>1, PrefixNames
<1> QED
  BY <1>2, <1>3, <1>4 DEF Put, IsStrictPrefix

\* Paths part if the first names differ, or both have a second and these differ.
LEMMA FirstApart ==
  ASSUME NEW s, IsSeq(s), NEW t, IsSeq(t), s # << >>, t # << >>, s[1] # t[1]
  PROVE  Apart(s, t)
<1>1. 1 \in 1..Len(s) /\ 1 \in 1..Len(t)
  BY DEF IsSeq
<1> QED
  BY <1>1 DEF Apart

LEMMA SecondApart ==
  ASSUME NEW a, NEW m, NEW n, m # n
  PROVE  Apart(<<a, m>>, <<a, n>>)
<1>1. 2 \in 1..Len(<<a, m>>) /\ 2 \in 1..Len(<<a, n>>)
  OBVIOUS
<1> QED
  BY <1>1 DEF Apart

-----------------------------------------------------------------------------
(* The tables. *)

OwnedPaths == ControllerOwned \union OwnedPrefixes

\* Sections that the controller owns as a whole, and those in which it owns fields.
Whole == {"run_id", "created_at", "report", "token_usage", "provenance"}
Divided == {"sandbox", "pass2", "sample", "network", "cape_submission", "executor"}

\* The paths the controller owns, by their first name.
LEMMA OwnedShape ==
  ASSUME NEW b \in OwnedPaths
  PROVE  \/ \E w \in Whole : b = <<w>>
         \/ \E c \in Divided : \E k : b = <<c, k>>
<1>1. \/ \E w \in {"run_id", "created_at", "report", "token_usage", "provenance"} : b = <<w>>
      \/ \E k : b = <<"sandbox", k>> \/ b = <<"pass2", k>> \/ b = <<"sample", k>>
      \/ \E k : b = <<"network", k>> \/ b = <<"cape_submission", k>> \/ b = <<"executor", k>>
  BY DEF OwnedPaths, ControllerOwned, OwnedPrefixes, Under
<1> QED
  BY <1>1, Zenon DEF Whole, Divided

\* The fields that the controller owns in the sections that agents write to.
LEMMA OwnedFields ==
  ASSUME NEW n
  PROVE  /\ <<"sample", n>> \in OwnedPaths =>
              n \in {"path", "sha256", "size_bytes", "source", "repo_url"}
         /\ <<"network", n>> \in OwnedPaths => n \in {"mode", "route_enforced"}
         /\ <<"sandbox", n>> \in OwnedPaths => n = "actual"
         /\ <<"pass2", n>> \in OwnedPaths => n = "artefacts"
         /\ <<"cape_submission", n>> \in OwnedPaths =>
              n \in {"pass1_task_id", "pass2_task_id", "final_task_id", "network_mode_enforced",
                     "available_machines", "backend_capabilities", "actual", "validation_errors"}
         /\ <<"executor", n>> \in OwnedPaths =>
              n \in {"passes_completed", "final_task_id", "validation_failed",
                     "validation_error", "report_sha256_verified", "report_sha256_seen",
                     "report_quality", "report_fetch_error", "run_dir"}
BY DEF OwnedPaths, ControllerOwned, OwnedPrefixes, Under

LEMMA OneApart ==
  ASSUME NEW a, a \notin Whole \union Divided, NEW b \in OwnedPaths
  PROVE  IsSeq(<<a>>) /\ IsSeq(b) /\ Apart(<<a>>, b)
<1>1. IsSeq(<<a>>) /\ <<a>> # << >> /\ <<a>>[1] = a
  BY ShortPaths
<1>2. IsSeq(b) /\ b # << >> /\ b[1] # a
  <2>1. CASE \E w \in Whole : b = <<w>>
    BY <2>1, ShortPaths, ZenonT(40)
  <2>2. CASE \E c \in Divided : \E k : b = <<c, k>>
    <3>1. PICK c, k : c \in Divided /\ b = <<c, k>>
      BY <2>2
    <3> QED
      BY <3>1, ShortPaths
  <2> QED
    BY <2>1, <2>2, OwnedShape
<1> QED
  BY <1>1, <1>2, FirstApart

LEMMA TwoApart ==
  ASSUME NEW a, NEW n, a \notin Whole, <<a, n>> \notin OwnedPaths, NEW b \in OwnedPaths
  PROVE  IsSeq(<<a, n>>) /\ IsSeq(b) /\ Apart(<<a, n>>, b)
<1>1. IsSeq(<<a, n>>) /\ <<a, n>> # << >> /\ <<a, n>>[1] = a
  BY ShortPaths
<1>2. CASE \E w \in Whole : b = <<w>>
  <2>1. IsSeq(b) /\ b # << >> /\ b[1] # a
    BY <1>2, ShortPaths, ZenonT(40)
  <2> QED
    BY <1>1, <2>1, FirstApart
<1>3. CASE \E c \in Divided : \E k : b = <<c, k>>
  <2>1. PICK c, k : b = <<c, k>>
    BY <1>3
  <2>2. IsSeq(b) /\ b # << >> /\ b[1] = c
    BY <2>1, ShortPaths
  <2>3. CASE c # a
    BY <1>1, <2>2, <2>3, FirstApart
  <2>4. CASE c = a
    <3>1. k # n
      BY <2>1, <2>4
    <3> QED
      BY <1>1, <2>1, <2>2, <2>4, <3>1, SecondApart
  <2> QED
    BY <2>3, <2>4
<1> QED
  BY <1>2, <1>3, OwnedShape

\* The entries of the agents' tables: whole sections of their own, or fields that the
\* controller does not own.
LEMMA ScoutEntries ==
  ASSUME NEW e \in RoleWritable.Scout
  PROVE  \/ \E a : a \notin Whole \union Divided /\ e = <<a>>
         \/ \E a, n : a \notin Whole /\ <<a, n>> \notin OwnedPaths /\ e = <<a, n>>
<1>1. \/ \E a \in {"environment", "classification", "monitors", "scout"} : e = <<a>>
      \/ \E n \in {"format", "os_target", "architecture", "packed", "interpreter",
                   "file_type", "pe_is_dll", "proposed_path"} : e = <<"sample", n>>
      \/ \E n \in {"intercept_dns", "intercept_http", "c2_server", "reasoning",
                   "proposed_mode"} : e = <<"network", n>>
      \/ \E n \in {"isolation", "os", "arch", "ram_mb", "disk_gb", "reasoning"} :
           e = <<"sandbox", n>>
  BY DEF RoleWritable, Described, Under
<1>2. CASE \E a \in {"environment", "classification", "monitors", "scout"} : e = <<a>>
  BY <1>2 DEF Whole, Divided
<1>3. ASSUME NEW n \in {"format", "os_target", "architecture", "packed", "interpreter",
                        "file_type", "pe_is_dll", "proposed_path"}, e = <<"sample", n>>
      PROVE  "sample" \notin Whole /\ <<"sample", n>> \notin OwnedPaths
  BY <1>3, OwnedFields DEF Whole
<1>4. ASSUME NEW n \in {"intercept_dns", "intercept_http", "c2_server", "reasoning",
                        "proposed_mode"}, e = <<"network", n>>
      PROVE  "network" \notin Whole /\ <<"network", n>> \notin OwnedPaths
  BY <1>4, OwnedFields DEF Whole
<1>5. ASSUME NEW n \in {"isolation", "os", "arch", "ram_mb", "disk_gb", "reasoning"},
             e = <<"sandbox", n>>
      PROVE  "sandbox" \notin Whole /\ <<"sandbox", n>> \notin OwnedPaths
  BY <1>5, OwnedFields DEF Whole
<1> QED
  BY <1>1, <1>2, <1>3, <1>4, <1>5, Zenon

LEMMA ArchitectEntries ==
  ASSUME NEW e \in RoleWritable.Architect
  PROVE  \/ \E a : a \notin Whole \union Divided /\ e = <<a>>
         \/ \E a, n : a \notin Whole /\ <<a, n>> \notin OwnedPaths /\ e = <<a, n>>
<1>1. \/ \E a \in {"environment", "host", "architect"} : e = <<a>>
      \/ \E n \in {"intercept_dns", "intercept_http", "c2_server", "reasoning"} :
           e = <<"network", n>>
      \/ \E n \in {"package", "timeout", "enforce_timeout", "options", "memory", "machine",
                   "platform", "priority", "tags", "reasoning", "error"} :
           e = <<"cape_submission", n>>
  BY DEF RoleWritable, Described, Under
<1>2. CASE \E a \in {"environment", "host", "architect"} : e = <<a>>
  BY <1>2 DEF Whole, Divided
<1>3. ASSUME NEW n \in {"intercept_dns", "intercept_http", "c2_server", "reasoning"},
             e = <<"network", n>>
      PROVE  "network" \notin Whole /\ <<"network", n>> \notin OwnedPaths
  BY <1>3, OwnedFields DEF Whole
<1>4. ASSUME NEW n \in {"package", "timeout", "enforce_timeout", "options", "memory",
                        "machine", "platform", "priority", "tags", "reasoning", "error"},
             e = <<"cape_submission", n>>
      PROVE  "cape_submission" \notin Whole /\ <<"cape_submission", n>> \notin OwnedPaths
  BY <1>4, OwnedFields DEF Whole
<1> QED
  BY <1>1, <1>2, <1>3, <1>4, Zenon

\* Those of the Executor are all outside the plan's sections.
LEMMA ExecutorEntries ==
  ASSUME NEW e \in RoleWritable.Executor
  PROVE  /\ \/ \E a : a \notin Whole \union Divided /\ e = <<a>>
            \/ \E a, n : a \notin Whole /\ <<a, n>> \notin OwnedPaths /\ e = <<a, n>>
         /\ IsSeq(e) /\ e # << >>
         /\ e[1] \in {"pass1", "passes", "monitors", "pass2", "executor"}
<1>1. \/ \E a \in {"pass1", "passes", "monitors"} : e = <<a>>
      \/ e = <<"pass2", "completed">>
      \/ \E n \in {"current_pass", "corrections", "empty_data_retry_done", "observations"} :
           e = <<"executor", n>>
  BY DEF RoleWritable, Under
<1>2. CASE \E a \in {"pass1", "passes", "monitors"} : e = <<a>>
  <2>1. PICK a \in {"pass1", "passes", "monitors"} : e = <<a>>
    BY <1>2
  <2>2. a \notin Whole \union Divided
    BY DEF Whole, Divided
  <2> QED
    BY <2>1, <2>2, ShortPaths
<1>3. CASE e = <<"pass2", "completed">>
  <2>1. "pass2" \notin Whole /\ <<"pass2", "completed">> \notin OwnedPaths
    BY OwnedFields DEF Whole
  <2> QED
    BY <1>3, <2>1, ShortPaths
<1>4. ASSUME NEW n \in {"current_pass", "corrections", "empty_data_retry_done",
                        "observations"}, e = <<"executor", n>>
      PROVE  "executor" \notin Whole /\ <<"executor", n>> \notin OwnedPaths
  BY <1>4, OwnedFields DEF Whole
<1>5. CASE \E n \in {"current_pass", "corrections", "empty_data_retry_done", "observations"} :
             e = <<"executor", n>>
  <2>1. PICK n \in {"current_pass", "corrections", "empty_data_retry_done", "observations"} :
          e = <<"executor", n>>
    BY <1>5
  <2>2. "executor" \notin Whole /\ <<"executor", n>> \notin OwnedPaths
    BY <1>4, <2>1
  <2> QED
    BY <2>1, <2>2, ShortPaths
<1> QED
  BY <1>1, <1>2, <1>3, <1>5

Roles == {"Scout", "Architect", "Executor"}

\* No entry of a role's table is above, at or below an owned path.
LEMMA TablesApart ==
  ASSUME NEW role \in Roles, NEW e \in RoleWritable[role], NEW b \in OwnedPaths
  PROVE  IsSeq(e) /\ IsSeq(b) /\ Apart(e, b)
<1>1. \/ \E a : a \notin Whole \union Divided /\ e = <<a>>
      \/ \E a, n : a \notin Whole /\ <<a, n>> \notin OwnedPaths /\ e = <<a, n>>
  BY ScoutEntries, ArchitectEntries, ExecutorEntries, Zenon DEF Roles
<1> QED
  BY <1>1, OneApart, TwoApart, Zenon

\* A write that the policy allows an agent leaves what the controller owns as it is.
LEMMA AllowedKeepsOwned ==
  ASSUME NEW d, NEW path, IsSeq(path), NEW v, NEW role \in Roles,
         CheckWrite(path, v, role), NEW leaf \in DOMAIN d, IsSeq(leaf),
         OwnedByController(leaf)
  PROVE  Put(d, path, v)[leaf] = d[leaf]
<1>1. PICK e \in RoleWritable[role] : IsPrefix(e, path)
  BY DEF CheckWrite
<1>2. PICK b \in OwnedPaths : IsPrefix(b, leaf)
  BY PrefixSelf DEF OwnedByController, OwnedPaths, IsStrictPrefix
<1>3. IsSeq(e) /\ IsSeq(b) /\ Apart(e, b)
  BY TablesApart
<1>4. Apart(path, leaf)
  BY <1>1, <1>2, <1>3, BelowApart
<1> QED
  BY <1>4, PutApart

\* The Executor's agent writes nothing in the sections of the plan.
LEMMA ExecutorKeepsPlan ==
  ASSUME NEW d, NEW path, IsSeq(path), NEW v, CheckWrite(path, v, "Executor"),
         NEW leaf \in DOMAIN d, IsSeq(leaf), leaf # << >>,
         leaf[1] \in {"sample", "network", "cape_submission"}
  PROVE  Put(d, path, v)[leaf] = d[leaf]
<1>1. PICK e \in RoleWritable.Executor : IsPrefix(e, path)
  BY DEF CheckWrite
<1>2. IsSeq(e) /\ e # << >> /\ e[1] # leaf[1]
  BY ExecutorEntries
<1>3. Apart(e, leaf)
  BY <1>2, FirstApart
<1>4. Apart(path, leaf)
  BY <1>1, <1>2, <1>3, BelowApart, PrefixSelf
<1> QED
  BY <1>4, PutApart

\* The Architect does not write the Scout's proposal.
LEMMA ArchitectKeepsProposal ==
  ASSUME NEW d, NEW path, IsSeq(path), NEW v, CheckWrite(path, v, "Architect"),
         Proposed \in DOMAIN d
  PROVE  Put(d, path, v)[Proposed] = d[Proposed]
<1>1. PICK e \in RoleWritable.Architect : IsPrefix(e, path)
  BY DEF CheckWrite
<1>2. /\ IsSeq(Proposed) /\ Proposed # << >> /\ Proposed[1] = "network"
      /\ Proposed = <<"network", "proposed_mode">>
  BY ShortPaths DEF Proposed
<1>3. \/ \E a \in {"environment", "host", "architect"} : e = <<a>>
      \/ \E n \in {"intercept_dns", "intercept_http", "c2_server", "reasoning"} :
           e = <<"network", n>>
      \/ \E n : e = <<"cape_submission", n>>
  BY DEF RoleWritable, Described, Under
<1>4. CASE \E a \in {"environment", "host", "architect"} : e = <<a>>
  <2>1. PICK a \in {"environment", "host", "architect"} : e = <<a>>
    BY <1>4
  <2>2. IsSeq(e) /\ e # << >> /\ e[1] # "network"
    BY <2>1, ShortPaths
  <2>3. Apart(e, Proposed)
    BY <1>2, <2>2, FirstApart
  <2> QED
    BY <1>1, <1>2, <2>2, <2>3, BelowApart, PrefixSelf, PutApart
<1>5. CASE \E n \in {"intercept_dns", "intercept_http", "c2_server", "reasoning"} :
             e = <<"network", n>>
  <2>1. PICK n \in {"intercept_dns", "intercept_http", "c2_server", "reasoning"} :
          e = <<"network", n>>
    BY <1>5
  <2>2. IsSeq(e) /\ Apart(e, Proposed)
    BY <1>2, <2>1, ShortPaths, SecondApart
  <2> QED
    BY <1>1, <1>2, <2>2, BelowApart, PrefixSelf, PutApart
<1>6. CASE \E n : e = <<"cape_submission", n>>
  <2>1. IsSeq(e) /\ e # << >> /\ e[1] # "network"
    <3>1. PICK n : e = <<"cape_submission", n>>
      BY <1>6
    <3> QED
      BY <3>1, ShortPaths
  <2>2. Apart(e, Proposed)
    BY <1>2, <2>1, FirstApart
  <2> QED
    BY <1>1, <1>2, <2>1, <2>2, BelowApart, PrefixSelf, PutApart
<1> QED
  BY <1>3, <1>4, <1>5, <1>6

-----------------------------------------------------------------------------
(* Steps. *)

\* The paths an agent may try are sequences.
LEMMA WritePaths ==
  ASSUME NEW leaf \in Leaves, NEW path \in {leaf, Append(leaf, "x"), Front(leaf)}
  PROVE  IsSeq(leaf) /\ leaf # << >> /\ IsSeq(path)
<1>1. IsSeq(leaf) /\ leaf # << >>
  BY LeavesAssumption DEF IsSeq
<1> DEFINE S == {leaf[i] : i \in DOMAIN leaf}
<1>2. leaf \in Seq(S) /\ Len(leaf) \in Nat \ {0}
  BY <1>1 DEF IsSeq
<1>3. IsSeq(Append(leaf, "x"))
  <2>1. Append(leaf, "x") \in Seq(S \union {"x"})
    BY <1>2
  <2> HIDE DEF S
  <2> QED
    BY <2>1 DEF IsSeq
<1>4. IsSeq(Front(leaf))
  <2>1. Front(leaf) \in Seq(S)
    BY <1>2 DEF Front
  <2> HIDE DEF S
  <2> QED
    BY <2>1 DEF IsSeq
<1> QED
  BY <1>1, <1>3, <1>4

\* One allowed write of the agent whose loop it is.
LEMMA AgentWritesPick ==
  ASSUME AgentWrites
  PROVE  \E path : \E leaf \in Leaves : \E v \in Offered[leaf] :
           /\ IsSeq(path) /\ CheckWrite(path, v, Agents[pc]) /\ doc' = Put(doc, path, v)
<1>1. PICK leaf \in Leaves : \E path \in {leaf, Append(leaf, "x"), Front(leaf)},
                                v \in Offered[leaf] :
        /\ CheckWrite(path, v, Agents[pc])
        /\ doc' = Put(doc, path, v)
  BY DEF AgentWrites
<1>2. PICK path \in {leaf, Append(leaf, "x"), Front(leaf)}, v \in Offered[leaf] :
        /\ CheckWrite(path, v, Agents[pc])
        /\ doc' = Put(doc, path, v)
  BY <1>1
<1>3. IsSeq(path)
  BY WritePaths
<1> QED
  BY <1>2, <1>3

-----------------------------------------------------------------------------
(* The invariant. *)

\* PlanTypeOK in two parts: the document, and the place.
DocOK ==
  /\ DOMAIN doc = Leaves
  /\ \A leaf \in Leaves : doc[leaf][1] \in {"null", "object", "list", "int", "text"}
  /\ IsOf(doc[Timeout], "int") => doc[Timeout][2] \in FieldBounds(Timeout)
  /\ doc[Corrections] \in {Null, List, Object}

PlaceOK ==
  /\ backend \in Backends
  /\ pc \in {"scout", "architect", "executor", "promote", "enforce", "gate", "hint",
             "validate", "diagnose", "judge", "done", "failed"}
  /\ purpose \in {"plan", "hint", "package", "error", "first", "corrected", "last"}
  /\ left \in Nat
  /\ finished \in BOOLEAN /\ task \in BOOLEAN
  /\ rounds \in 0..MaxRounds
  /\ counts \in [Fixes -> 0..MaxPerType]

\* The mode is the Scout's proposal, or closed.
ModeDecided ==
  doc[Mode] = IF doc[Proposed] # Null THEN doc[Proposed] ELSE Text("isolated")

\* The options and the record carry the token of the mode.
TokenInPlan ==
  /\ doc[Enforced] = Text(EnforcedToken)
  /\ doc[Options][2] \intersect NetworkTokens =
       IF backend = "qemu" THEN {} ELSE {EnforcedToken}

\* The plan would pass the gate.
Ready ==
  /\ ~Truthy(doc[Error])
  /\ IsOf(doc[Package], "text") /\ doc[Package] # Text(" ")
  /\ IsOf(doc[Timeout], "int") /\ doc[Timeout][2] \in FieldBounds(Timeout)
  /\ IsOf(doc[Platform], "text")
  /\ doc[Target] \in {Text("linux"), Text("windows")} => doc[Platform] = doc[Target]

\* Which loop is for what.
Purposes ==
  /\ pc \in {"architect", "enforce", "gate"} => purpose \in {"plan", "hint", "package", "error"}
  /\ pc = "executor" => purpose \in {"first", "corrected", "last"}

\* How far the plan is at each place.
Stages ==
  /\ pc \in {"architect", "enforce", "gate", "executor", "hint", "validate", "diagnose",
             "judge"} => ModeDecided
  /\ pc \in {"gate", "executor", "hint", "validate", "diagnose", "judge"} => TokenInPlan
  /\ pc \in {"executor", "hint", "validate", "diagnose", "judge"} => Ready

IInv == DocOK /\ PlaceOK /\ Purposes /\ Stages

LEMMA TypeParts == PlanTypeOK <=> DocOK /\ PlaceOK
BY DEF PlanTypeOK, DocOK, PlaceOK, Agents

\* The leaves are different, and in the document.
LEMMA LeafFacts ==
  /\ {Target, Proposed, Mode, Enforced, Package, Platform, Timeout, Options, Error, Hint,
      Corrections} \subseteq Leaves
  /\ Corrections \notin {Target, Proposed, Mode, Enforced, Package, Platform, Timeout,
                         Options, Error}
  /\ Options \notin {Target, Proposed, Mode, Enforced, Package, Platform, Timeout, Error}
  /\ Enforced \notin {Target, Proposed, Mode, Package, Platform, Timeout, Error}
  /\ Timeout \notin {Target, Proposed, Mode, Package, Platform, Error}
  /\ Mode \notin {Target, Proposed, Package, Platform, Error}
BY LeavesAssumption
   DEF Target, Proposed, Mode, Enforced, Package, Platform, Timeout, Options, Error, Hint,
       Corrections

LEMMA ValueFacts ==
  /\ Null[1] = "null" /\ Object[1] = "object" /\ List[1] = "list"
  /\ \A n : Number(n)[1] = "int" /\ Number(n)[2] = n
  /\ \A w : Words(w)[1] = "text" /\ Words(w)[2] = w
  /\ \A w : Text(w)[1] = "text"
BY DEF Null, Object, List, Number, Words, Text

\* The type of a timeout, and of the list of corrections, is checked at the write.
LEMMA TimeoutConforms ==
  ASSUME NEW v, Conforms(Timeout, v)
  PROVE  v = Null \/ v[2] \in FieldBounds(Timeout)
<1>1. Timeout \in FieldTypes.int
  BY DEF Timeout, FieldTypes, Under
<1> QED
  BY <1>1 DEF Conforms

LEMMA CorrectionsConform ==
  ASSUME NEW v, Conforms(Corrections, v)
  PROVE  v = Null \/ v[1] = "list"
<1>1. "list" \in DOMAIN FieldTypes /\ Corrections \in FieldTypes["list"]
  BY DEF Corrections, FieldTypes, Under
<1>2. v = Null \/ IsOf(v, "list")
  BY <1>1 DEF Conforms
<1> QED
  BY <1>2 DEF IsOf

\* The predicates depend on their leaves only.
LEMMA PlanKept ==
  ASSUME UNCHANGED backend,
         \A leaf \in {Target, Proposed, Mode, Enforced, Package, Platform, Timeout, Options,
                      Error} : doc'[leaf] = doc[leaf]
  PROVE  /\ ModeDecided => ModeDecided'
         /\ TokenInPlan => TokenInPlan'
         /\ Ready => Ready'
<1>1. ModeDecided => ModeDecided'
  BY DEF ModeDecided
<1>2. EnforcedToken' = EnforcedToken
  BY DEF EnforcedToken, PolicyToken
<1>3. TokenInPlan => TokenInPlan'
  BY <1>2 DEF TokenInPlan
<1>4. Ready => Ready'
  BY DEF Ready
<1> QED
  BY <1>1, <1>3, <1>4

LEMMA InitIInv == Init => IInv
<1> SUFFICES ASSUME Init
             PROVE  IInv
  OBVIOUS
<1>1. DocOK
  BY LeafFacts, ValueFacts DEF Init, DocOK, IsOf
<1>2. PlaceOK
  <2>1. Writes["scout"] \in Nat
    BY LeavesAssumption
  <2>2. 0 \in 0..MaxRounds /\ 0 \in 0..MaxPerType
    BY PlanAssumption
  <2>3. counts \in [Fixes -> 0..MaxPerType]
    BY <2>2 DEF Init
  <2> QED
    BY <2>1, <2>2, <2>3 DEF Init, PlaceOK
<1>3. Purposes /\ Stages
  BY DEF Init, Purposes, Stages
<1> QED
  BY <1>1, <1>2, <1>3 DEF IInv

\* Recording a correction touches the list of corrections only.
LEMMA RecordKeeps ==
  ASSUME DocOK, Record, UNCHANGED backend
  PROVE  /\ DocOK'
         /\ ModeDecided => ModeDecided'
         /\ TokenInPlan => TokenInPlan'
         /\ Ready => Ready'
<1>1. /\ DOMAIN doc' = Leaves /\ doc'[Corrections] = List
      /\ \A leaf \in Leaves \ {Corrections} : doc'[leaf] = doc[leaf]
  BY LeafFacts DEF Record, DocOK
<1>2. DocOK'
  BY <1>1, LeafFacts, ValueFacts DEF DocOK, IsOf
<1> QED
  BY <1>1, <1>2, LeafFacts, PlanKept

LEMMA TimeoutBounds ==
  /\ \A n \in FieldBounds(Timeout) : n \in Int /\ 10 <= n /\ n <= 1800
  /\ \A n \in Int : 10 <= n /\ n <= 1800 => n \in FieldBounds(Timeout)
<1>1. FieldBounds(Timeout) = 10..1800
  BY DEF FieldBounds, Timeout
<1>2. \A n \in 10..1800 : n \in Int /\ 10 <= n /\ n <= 1800
  OBVIOUS
<1>3. \A n \in Int : 10 <= n /\ n <= 1800 => n \in 10..1800
  OBVIOUS
<1> QED
  BY <1>1, <1>2, <1>3

\* The fix of a timeout keeps platform, package and network token, and the bounds.
LEMMA ExtendedKeeps ==
  ASSUME DocOK, ModeDecided, TokenInPlan, Ready, UNCHANGED backend,
         doc' = Extended(doc) \/ doc' = [Extended(doc) EXCEPT ![Corrections] = List]
  PROVE  DocOK' /\ ModeDecided' /\ TokenInPlan' /\ Ready'
<1> DEFINE now == doc[Timeout][2]
           longer == IF now + 60 < 300 THEN now + 60 ELSE 300
           more == IF backend = "qemu" THEN {} ELSE {"force-sleepskip=1", "human=1"}
<1>1. /\ DOMAIN doc' = Leaves
      /\ doc'[Timeout] = Number(longer)
      /\ doc'[Options] = Words(doc[Options][2] \union more)
      /\ doc'[Corrections] \in {doc[Corrections], List}
      /\ \A leaf \in Leaves \ {Timeout, Options, Corrections} : doc'[leaf] = doc[leaf]
  BY LeafFacts DEF Extended, DocOK
<1>3. longer \in FieldBounds(Timeout)
  <2>1. now \in FieldBounds(Timeout)
    BY DEF Ready
  <2> HIDE DEF now
  <2>2. now \in Int /\ 10 <= now /\ now <= 1800
    BY <2>1, TimeoutBounds
  <2>3. longer \in Int /\ 10 <= longer /\ longer <= 1800
    BY <2>2
  <2> HIDE DEF longer
  <2> QED
    BY <2>3, TimeoutBounds
<1> HIDE DEF now, longer, more
<1>4. DocOK'
  <2>1. doc'[Timeout][1] = "int" /\ doc'[Timeout][2] = longer
    BY <1>1, ValueFacts
  <2>2. doc'[Options][1] = "text"
    BY <1>1, ValueFacts
  <2>3. doc'[Corrections] \in {Null, List, Object}
    BY <1>1 DEF DocOK
  <2>4. ASSUME NEW leaf \in Leaves
        PROVE  doc'[leaf][1] \in {"null", "object", "list", "int", "text"}
    <3>1. CASE leaf \in {Timeout, Options, Corrections}
      BY <3>1, <2>1, <2>2, <2>3, ValueFacts
    <3>2. CASE leaf \notin {Timeout, Options, Corrections}
      BY <1>1, <3>2 DEF DocOK
    <3> QED
      BY <3>1, <3>2
  <2> QED
    BY <1>1, <1>3, <2>1, <2>3, <2>4 DEF DocOK
<1>5. ModeDecided'
  BY <1>1, LeafFacts DEF ModeDecided
<1>6. EnforcedToken' = EnforcedToken
  BY <1>1, LeafFacts DEF EnforcedToken, PolicyToken
<1>7. TokenInPlan'
  <2>1. doc'[Options][2] \intersect NetworkTokens = doc[Options][2] \intersect NetworkTokens
    <3>1. doc'[Options][2] = doc[Options][2] \union more
      BY <1>1, ValueFacts, ZenonT(40)
    <3>2. \A w \in more : w \notin NetworkTokens
      BY DEF more, NetworkTokens
    <3> QED
      BY <3>1, <3>2, Zenon
  <2>2. doc'[Enforced] = doc[Enforced]
    BY <1>1, LeafFacts
  <2> QED
    BY <1>6, <2>1, <2>2 DEF TokenInPlan
<1>8. Ready'
  <2>1. \A leaf \in {Target, Package, Platform, Error} : doc'[leaf] = doc[leaf]
    BY <1>1, LeafFacts
  <2>2. IsOf(doc'[Timeout], "int") /\ doc'[Timeout][2] \in FieldBounds(Timeout)
    <3>1. doc'[Timeout][1] = "int" /\ doc'[Timeout][2] = longer
      BY <1>1, ValueFacts, ZenonT(40)
    <3> QED
      BY <3>1, <1>3, Zenon DEF IsOf
  <2> QED
    BY <2>1, <2>2 DEF Ready
<1> QED
  BY <1>4, <1>5, <1>7, <1>8

\* A conforming write keeps every leaf typed.
LEMMA PutTyped ==
  ASSUME DocOK, NEW path, NEW role, NEW from \in Leaves, NEW v \in Offered[from],
         CheckWrite(path, v, role), doc' = Put(doc, path, v)
  PROVE  DocOK'
<1>1. DOMAIN doc' = Leaves
  BY DEF Put, DocOK
<1>2. v \in {Null, Object, List} \/ v[1] = "int" \/ v[1] = "text"
  BY LeavesAssumption DEF IsOf
<1>3. Conforms(path, v)
  BY DEF CheckWrite
<1>4. ASSUME NEW leaf \in Leaves
      PROVE  \/ doc'[leaf] \in {Null, Object, doc[leaf]}
             \/ leaf = path /\ doc'[leaf] = v
  BY DEF Put, DocOK
<1>5. \A leaf \in Leaves : doc'[leaf][1] \in {"null", "object", "list", "int", "text"}
  BY <1>2, <1>4, ValueFacts DEF DocOK
<1>6. doc'[Timeout][1] = "int" => doc'[Timeout][2] \in FieldBounds(Timeout)
  BY <1>3, <1>4, LeafFacts, ValueFacts, TimeoutConforms DEF DocOK, IsOf
<1>7. doc'[Corrections] \in {Null, List, Object}
  BY <1>2, <1>3, <1>4, LeafFacts, ValueFacts, CorrectionsConform DEF DocOK
<1> QED
  BY <1>1, <1>5, <1>6, <1>7 DEF DocOK, IsOf

\* The leaves are paths, and where those of the plan are.
LEMMA LeafPaths ==
  /\ \A leaf \in Leaves : IsSeq(leaf) /\ leaf # << >>
  /\ \A leaf \in {Target, Proposed, Mode, Enforced, Package, Platform, Timeout, Options,
                  Error} : leaf[1] \in {"sample", "network", "cape_submission"}
  /\ OwnedByController(Mode)
<1>1. \A leaf \in Leaves : IsSeq(leaf) /\ leaf # << >>
  BY LeavesAssumption DEF IsSeq
<1>2. \A leaf \in {Target, Proposed, Mode, Enforced, Package, Platform, Timeout, Options,
                   Error} : leaf[1] \in {"sample", "network", "cape_submission"}
  BY DEF Target, Proposed, Mode, Enforced, Package, Platform, Timeout, Options, Error
<1>3. OwnedByController(Mode)
  BY DEF OwnedByController, ControllerOwned, Under, Mode
<1> QED
  BY <1>1, <1>2, <1>3

LEMMA AgentWritesKeeps ==
  ASSUME IInv, AgentWrites
  PROVE  IInv'
<1> DEFINE Wrote(path, v) ==
             IsSeq(path) /\ CheckWrite(path, v, Agents[pc]) /\ doc' = Put(doc, path, v)
<1>0. PICK path : \E leaf \in Leaves : \E v \in Offered[leaf] : Wrote(path, v)
  BY AgentWritesPick
<1>1. PICK from \in Leaves : \E v \in Offered[from] : Wrote(path, v)
  BY <1>0
<1>2. PICK v \in Offered[from] : Wrote(path, v)
  BY <1>1
<1>3. DocOK'
  BY <1>2, PutTyped DEF IInv
<1>4. /\ pc \in {"scout", "architect", "executor"}
      /\ left > 0 /\ left' = left - 1
      /\ UNCHANGED <<backend, pc, purpose, finished, package, task, rounds, counts>>
  BY DEF AgentWrites, Agents
<1>5. PlaceOK'
  BY <1>4 DEF IInv, PlaceOK
<1>6. Purposes'
  BY <1>4 DEF IInv, Purposes
<1>7. Stages'
  <2>1. CASE pc = "scout"
    BY <1>4, <2>1 DEF Stages
  <2>2. CASE pc = "architect"
    <3>1. Agents[pc] = "Architect" /\ "Architect" \in Roles
      BY <2>2 DEF Agents, Roles
    <3>2. {Mode, Proposed} \subseteq DOMAIN doc
      BY LeafFacts DEF IInv, DocOK
    <3>3. Put(doc, path, v)[Mode] = doc[Mode]
      BY <1>2, <3>1, <3>2, LeafFacts, LeafPaths, AllowedKeepsOwned
    <3>4. Put(doc, path, v)[Proposed] = doc[Proposed]
      BY <1>2, <3>1, <3>2, ArchitectKeepsProposal
    <3>5. ModeDecided
      BY <2>2 DEF IInv, Stages
    <3>6. ModeDecided'
      BY <1>2, <3>3, <3>4, <3>5 DEF ModeDecided
    <3> QED
      BY <1>4, <2>2, <3>6 DEF Stages
  <2>3. CASE pc = "executor"
    <3>1. Agents[pc] = "Executor"
      BY <2>3 DEF Agents
    <3>2. ASSUME NEW leaf \in {Target, Proposed, Mode, Enforced, Package, Platform, Timeout,
                               Options, Error}
          PROVE  doc'[leaf] = doc[leaf]
      <4>1. leaf \in Leaves /\ leaf \in DOMAIN doc
        BY LeafFacts DEF IInv, DocOK
      <4>2. IsSeq(leaf) /\ leaf # << >> /\ leaf[1] \in {"sample", "network", "cape_submission"}
        BY <4>1, LeafPaths
      <4> QED
        BY <1>2, <3>1, <4>1, <4>2, ExecutorKeepsPlan
    <3>3. ModeDecided /\ TokenInPlan /\ Ready
      BY <2>3 DEF IInv, Stages
    <3>4. ModeDecided' /\ TokenInPlan' /\ Ready'
      BY <1>4, <3>2, <3>3, PlanKept
    <3> QED
      BY <1>4, <2>3, <3>4 DEF Stages
  <2> QED
    BY <1>4, <2>1, <2>2, <2>3
<1> QED
  BY <1>3, <1>5, <1>6, <1>7 DEF IInv

\* A loop of an agent starts with the writes it has.
LEMMA LoopStarts ==
  ASSUME NEW agent \in {"architect", "executor"}, NEW why, Loop(agent, why)
  PROVE  pc' = agent /\ purpose' = why /\ left' \in Nat
<1>1. \A loop \in {"scout", "architect", "adjust", "executor"} : Writes[loop] \in Nat
  BY LeavesAssumption
<1> QED
  BY <1>1 DEF Loop

\* A step that leaves the document alone keeps what is known of it.
LEMMA DocumentKept ==
  ASSUME UNCHANGED <<doc, backend>>
  PROVE  /\ DocOK => DocOK'
         /\ ModeDecided => ModeDecided'
         /\ TokenInPlan => TokenInPlan'
         /\ Ready => Ready'
<1>1. DocOK => DocOK'
  BY DEF DocOK
<1> QED
  BY <1>1, PlanKept

\* The ends of the loops, the submission and the checks move on only.
LEMMA MovesKeep ==
  ASSUME IInv,
         ScoutEnds \/ ArchitectEnds \/ Submit \/ ExecutorEnds \/ LoopFails \/ ReadHint \/ Validate
  PROVE  IInv'
<1>1. /\ DocOK' /\ (ModeDecided => ModeDecided')
      /\ (TokenInPlan => TokenInPlan') /\ (Ready => Ready')
  <2>1. UNCHANGED <<doc, backend>>
    BY DEF ScoutEnds, ArchitectEnds, Submit, ExecutorEnds, LoopFails, ReadHint, Validate
  <2> QED
    BY <2>1, DocumentKept DEF IInv
<1>2. CASE ScoutEnds \/ ArchitectEnds \/ Submit \/ ExecutorEnds \/ LoopFails
  <2>1. /\ PlaceOK /\ Purposes /\ Stages
        /\ \/ pc = "scout" /\ pc' = "promote"
           \/ pc = "architect" /\ pc' = "enforce"
           \/ pc = "executor" /\ pc' \in {"executor", "hint", "validate", "done"}
           \/ pc' = "failed"
        /\ finished' \in BOOLEAN /\ task' \in BOOLEAN
        /\ UNCHANGED <<backend, purpose, left, rounds, counts>>
    BY <1>2 DEF IInv, Purposes, PlaceOK, ScoutEnds, ArchitectEnds, Submit, ExecutorEnds,
                LoopFails, Goto, Agents
  <2>2. PlaceOK'
    BY <2>1 DEF PlaceOK
  <2>3. Purposes' /\ Stages'
    BY <1>1, <2>1 DEF Purposes, Stages
  <2> QED
    BY <1>1, <2>2, <2>3 DEF IInv
<1>3. CASE ReadHint
  <2>1. /\ PlaceOK /\ Stages /\ pc = "hint"
        /\ \/ pc' = "architect" /\ purpose' = "hint" /\ left' \in Nat
           \/ pc' = "validate" /\ UNCHANGED <<purpose, left>>
        /\ UNCHANGED <<backend, finished, task, rounds, counts>>
    BY <1>3, LoopStarts DEF IInv, ReadHint, Goto
  <2>2. PlaceOK'
    BY <2>1 DEF PlaceOK
  <2>3. Purposes' /\ Stages'
    BY <1>1, <2>1 DEF Purposes, Stages
  <2> QED
    BY <1>1, <2>2, <2>3 DEF IInv
<1>4. CASE Validate
  <2>1. /\ PlaceOK /\ Stages /\ pc = "validate"
        /\ pc' \in {"judge", "diagnose", "failed"}
        /\ rounds' = rounds \/ (rounds < MaxRounds /\ rounds' = rounds + 1)
        /\ UNCHANGED <<backend, purpose, left, finished, task, counts>>
    BY <1>4 DEF IInv, Validate, Goto
  <2>2. rounds' \in 0..MaxRounds
    BY <2>1, PlanAssumption DEF PlaceOK
  <2>3. PlaceOK'
    BY <2>1, <2>2 DEF PlaceOK
  <2>4. Purposes' /\ Stages'
    BY <1>1, <2>1 DEF Purposes, Stages
  <2> QED
    BY <1>1, <2>3, <2>4 DEF IInv
<1> QED
  BY <1>2, <1>3, <1>4

\* Promote decides the mode.
LEMMA PromoteKeeps ==
  ASSUME IInv, Promote
  PROVE  IInv'
<1>1. /\ DocOK /\ PlaceOK
      /\ UNCHANGED <<backend, finished, task, rounds, counts>>
  BY DEF IInv, Promote
<1>2. CASE pc' = "failed" /\ UNCHANGED <<doc, purpose, left>>
  BY <1>1, <1>2, DocumentKept DEF IInv, PlaceOK, Purposes, Stages
<1>3. CASE /\ doc' = [doc EXCEPT ![Mode] = IF doc[Proposed] # Null THEN doc[Proposed]
                                            ELSE Text("isolated")]
           /\ Loop("architect", "plan")
  <2>1. /\ DOMAIN doc' = Leaves
        /\ doc'[Mode] \in {doc[Proposed], Text("isolated")}
        /\ doc'[Mode] = IF doc[Proposed] # Null THEN doc[Proposed] ELSE Text("isolated")
        /\ \A leaf \in Leaves \ {Mode} : doc'[leaf] = doc[leaf]
    BY <1>1, <1>3, LeafFacts DEF DocOK
  <2>2. DocOK'
    BY <1>1, <2>1, LeafFacts, ValueFacts DEF DocOK
  <2>3. ModeDecided'
    BY <2>1, LeafFacts DEF ModeDecided
  <2>4. pc' = "architect" /\ purpose' = "plan" /\ left' \in Nat
    BY <1>3, LoopStarts
  <2>5. PlaceOK'
    BY <1>1, <2>4 DEF PlaceOK
  <2>6. Purposes' /\ Stages'
    BY <2>3, <2>4 DEF Purposes, Stages
  <2> QED
    BY <2>2, <2>5, <2>6 DEF IInv
<1> QED
  BY <1>2, <1>3 DEF Promote, Goto

\* Enforce puts the token of the mode into options and record.
LEMMA EnforceKeeps ==
  ASSUME IInv, Enforce
  PROVE  IInv'
<1>1. /\ DocOK /\ PlaceOK /\ ModeDecided
      /\ purpose \in {"plan", "hint", "package", "error"}
      /\ UNCHANGED <<backend, purpose, left, finished, task, rounds, counts>>
  BY DEF IInv, Enforce, Purposes, Stages, Goto
<1>2. CASE pc' = "failed" /\ UNCHANGED doc
  BY <1>1, <1>2, DocumentKept DEF IInv, PlaceOK, Purposes, Stages
<1>3. CASE /\ doc' = [doc EXCEPT ![Options] = EnforcedOptions, ![Enforced] = Text(EnforcedToken)]
           /\ pc' = "gate"
  <2>1. /\ DOMAIN doc' = Leaves
        /\ doc'[Options] = EnforcedOptions /\ doc'[Enforced] = Text(EnforcedToken)
        /\ \A leaf \in Leaves \ {Options, Enforced} : doc'[leaf] = doc[leaf]
    BY <1>1, <1>3, LeafFacts DEF DocOK
  <2>2. DocOK'
    BY <1>1, <2>1, LeafFacts, ValueFacts DEF DocOK, EnforcedOptions
  <2>3. ModeDecided'
    BY <1>1, <2>1, LeafFacts DEF ModeDecided
  <2>4. EnforcedToken' = EnforcedToken /\ EnforcedToken \in NetworkTokens
    BY <1>1, <2>1, LeafFacts DEF EnforcedToken, PolicyToken, NetworkTokens
  <2>5. TokenInPlan'
    <3> DEFINE given == IF Truthy(doc[Options]) THEN doc[Options][2] ELSE {}
               token == IF backend = "qemu" THEN {} ELSE {EnforcedToken}
    <3>1. doc'[Options][2] = (given \ NetworkTokens) \union token
      BY <2>1, ValueFacts DEF EnforcedOptions
    <3>2. token \subseteq NetworkTokens
      BY <2>4
    <3>3. doc'[Options][2] \intersect NetworkTokens = token
      <4> HIDE DEF given, token
      <4> QED
        BY <3>1, <3>2
    <3> QED
      BY <1>1, <2>1, <2>4, <3>3 DEF TokenInPlan
  <2>6. PlaceOK'
    BY <1>1, <1>3 DEF PlaceOK
  <2>7. Purposes' /\ Stages'
    BY <1>1, <1>3, <2>3, <2>5 DEF Purposes, Stages
  <2> QED
    BY <2>2, <2>6, <2>7 DEF IInv
<1> QED
  BY <1>2, <1>3 DEF Enforce, Goto

\* A plan the gate passes is ready: its timeout was held to the bounds when written.
LEMMA ConfiguredReady ==
  ASSUME DocOK, Configured
  PROVE  Ready
<1>1. doc[Timeout][2] \in FieldBounds(Timeout)
  BY DEF DocOK, Configured
<1>2. doc[Target] \in {Text("linux"), Text("windows")} => doc[Platform] = doc[Target]
  BY DEF Configured
<1> QED
  BY <1>1, <1>2 DEF Configured, Ready

\* The gate lets a configured plan through, and keeps the plan.
LEMMA GateKeeps ==
  ASSUME IInv, Gate
  PROVE  IInv'
<1>1. /\ DocOK /\ PlaceOK /\ ModeDecided /\ TokenInPlan
      /\ finished' = FALSE
      /\ UNCHANGED <<backend, task, rounds, counts>>
  BY DEF IInv, Stages, Gate
<1>2. /\ UNCHANGED doc \/ Record
      /\ \/ pc' = "failed" /\ UNCHANGED <<purpose, left>>
         \/ Configured /\ \E why \in {"first", "corrected"} : Loop("executor", why)
  <2>1. PICK verdict \in BOOLEAN :
          LET valid == Configured /\ verdict /\ finished IN
          CASE purpose = "plan" ->
                 /\ IF valid THEN Loop("executor", "first") ELSE Goto("failed")
                 /\ UNCHANGED doc
            [] purpose = "hint" ->
                 /\ IF valid THEN Loop("executor", "corrected") ELSE Goto("failed")
                 /\ UNCHANGED doc
            [] purpose \in {"package", "error"} ->
                 IF ~Recordable THEN Goto("failed") /\ UNCHANGED doc
                 ELSE /\ Record
                      /\ IF valid /\ (purpose = "package" => doc[Package] # package)
                           THEN Loop("executor", "corrected") ELSE Goto("failed")
    BY DEF Gate
  <2>2. purpose \in {"plan", "hint", "package", "error"}
    BY DEF IInv, Purposes, Gate
  <2>3. CASE purpose \in {"plan", "hint"}
    BY <2>1, <2>3 DEF Goto
  <2>4. CASE purpose \in {"package", "error"}
    BY <2>1, <2>4 DEF Goto
  <2> QED
    BY <2>2, <2>3, <2>4
<1>3. DocOK' /\ ModeDecided' /\ TokenInPlan' /\ (Ready => Ready')
  BY <1>1, <1>2, DocumentKept, RecordKeeps
<1>4. CASE pc' = "failed" /\ UNCHANGED <<purpose, left>>
  BY <1>1, <1>3, <1>4 DEF IInv, PlaceOK, Purposes, Stages
<1>5. CASE Configured /\ \E why \in {"first", "corrected"} : Loop("executor", why)
  <2>1. Ready'
    BY <1>1, <1>3, <1>5, ConfiguredReady
  <2>2. pc' = "executor" /\ purpose' \in {"first", "corrected"} /\ left' \in Nat
    BY <1>5, LoopStarts
  <2>3. PlaceOK'
    BY <1>1, <2>2 DEF PlaceOK
  <2>4. Purposes' /\ Stages'
    BY <1>3, <2>1, <2>2 DEF Purposes, Stages
  <2> QED
    BY <1>3, <2>3, <2>4 DEF IInv
<1> QED
  BY <1>2, <1>4, <1>5

\* A fix of the timeout, before a correction or after the report.
LEMMA ExtendKeeps ==
  ASSUME IInv, pc \in {"diagnose", "judge"}, NEW why \in {"corrected", "last"},
         ExtendTimeout(why), UNCHANGED <<backend, finished, task, rounds>>,
         counts' \in [Fixes -> 0..MaxPerType]
  PROVE  IInv'
<1>1. PlaceOK /\ DocOK /\ ModeDecided /\ TokenInPlan /\ Ready
  BY DEF IInv, Stages
<1>2. DocOK' /\ ModeDecided' /\ TokenInPlan' /\ Ready'
  <2>1. doc' = Extended(doc) \/ doc' = [Extended(doc) EXCEPT ![Corrections] = List]
    BY DEF ExtendTimeout
  <2> QED
    BY <1>1, <2>1, ExtendedKeeps
<1>3. \/ pc' = "executor" /\ purpose' = why /\ left' \in Nat
      \/ pc' = "failed" /\ UNCHANGED <<purpose, left>>
  BY LoopStarts DEF ExtendTimeout, Goto
<1>4. PlaceOK'
  BY <1>1, <1>3 DEF PlaceOK
<1>5. Purposes' /\ Stages'
  BY <1>2, <1>3 DEF Purposes, Stages
<1> QED
  BY <1>2, <1>4, <1>5 DEF IInv

\* A correction extends the timeout, asks the Architect, or leaves the plan alone.
LEMMA CorrectKeeps ==
  ASSUME IInv, Correct
  PROVE  IInv'
<1>1. /\ PlaceOK /\ DocOK /\ ModeDecided /\ TokenInPlan /\ Ready /\ pc = "diagnose"
      /\ UNCHANGED <<backend, finished, task, rounds>>
  BY DEF IInv, Stages, Correct
<1>2. PICK failure \in Diagnoses :
        IF failure \notin Fixes
          THEN /\ \/ Goto("failed") /\ UNCHANGED doc
                  \/ failure = "host" /\ Recordable /\ Record /\ Loop("executor", "corrected")
               /\ UNCHANGED <<package, counts>>
        ELSE IF counts[failure] = MaxPerType
          THEN Goto("failed") /\ UNCHANGED <<doc, package, counts>>
          ELSE /\ counts' = [counts EXCEPT ![failure] = @ + 1]
               /\ IF failure = "timeout"
                    THEN ExtendTimeout("corrected") /\ UNCHANGED package
                    ELSE /\ Loop("architect", failure)
                         /\ package' = IF failure = "package" THEN doc[Package] ELSE package
                         /\ UNCHANGED doc
  BY DEF Correct
<1>3. counts' \in [Fixes -> 0..MaxPerType]
  <2>1. ASSUME failure \in Fixes, counts[failure] # MaxPerType
        PROVE  counts[failure] + 1 \in 0..MaxPerType
    BY <1>1, <2>1, PlanAssumption DEF PlaceOK
  <2> QED
    BY <1>1, <1>2, <2>1 DEF PlaceOK
<1>4. CASE ExtendTimeout("corrected")
  BY <1>1, <1>3, <1>4, ExtendKeeps
<1>5. CASE UNCHANGED doc \/ Record
  <2>1. DocOK' /\ ModeDecided' /\ TokenInPlan' /\ Ready'
    BY <1>1, <1>5, DocumentKept, RecordKeeps
  <2>2. \/ pc' = "failed" /\ UNCHANGED <<purpose, left>>
        \/ Loop("executor", "corrected")
        \/ failure \in {"package", "error"} /\ Loop("architect", failure)
        \/ ExtendTimeout("corrected")
    BY <1>2 DEF Goto, Fixes
  <2>3. CASE pc' = "failed" /\ UNCHANGED <<purpose, left>>
    BY <1>1, <1>3, <2>1, <2>3 DEF IInv, PlaceOK, Purposes, Stages
  <2>4. CASE Loop("executor", "corrected")
    <3>1. pc' = "executor" /\ purpose' = "corrected" /\ left' \in Nat
      BY <2>4, LoopStarts
    <3>2. PlaceOK'
      BY <1>1, <1>3, <3>1 DEF PlaceOK
    <3> QED
      BY <2>1, <3>1, <3>2 DEF IInv, Purposes, Stages
  <2>5. CASE failure \in {"package", "error"} /\ Loop("architect", failure)
    <3>1. pc' = "architect" /\ purpose' \in {"package", "error"} /\ left' \in Nat
      BY <2>5, LoopStarts
    <3>2. PlaceOK'
      BY <1>1, <1>3, <3>1 DEF PlaceOK
    <3> QED
      BY <2>1, <3>1, <3>2 DEF IInv, Purposes, Stages
  <2> QED
    BY <1>4, <2>2, <2>3, <2>4, <2>5
<1> QED
  BY <1>2, <1>4, <1>5

LEMMA JudgeKeeps ==
  ASSUME IInv, Judge
  PROVE  IInv'
<1>1. /\ PlaceOK /\ DocOK /\ pc = "judge"
      /\ UNCHANGED <<backend, finished, task, rounds, counts>>
      /\ counts' \in [Fixes -> 0..MaxPerType]
  BY DEF IInv, Judge, PlaceOK
<1>2. CASE ExtendTimeout("last")
  BY <1>1, <1>2, ExtendKeeps
<1>3. CASE pc' \in {"done", "failed"} /\ UNCHANGED <<doc, purpose, left>>
  <2>1. DocOK'
    BY <1>1, <1>3, DocumentKept
  <2>2. PlaceOK'
    BY <1>1, <1>3 DEF PlaceOK
  <2> QED
    BY <1>3, <2>1, <2>2 DEF IInv, Purposes, Stages
<1> QED
  BY <1>2, <1>3 DEF Judge, Goto

LEMMA NextIInv == IInv /\ [Next]_vars => IInv'
<1> SUFFICES ASSUME IInv, [Next]_vars
             PROVE  IInv'
  OBVIOUS
<1>1. CASE AgentWrites
  BY <1>1, AgentWritesKeeps
<1>2. CASE ScoutEnds \/ ArchitectEnds \/ Submit \/ ExecutorEnds \/ LoopFails \/ ReadHint
           \/ Validate
  BY <1>2, MovesKeep
<1>3. CASE Promote
  BY <1>3, PromoteKeeps
<1>4. CASE Enforce
  BY <1>4, EnforceKeeps
<1>5. CASE Gate
  BY <1>5, GateKeeps
<1>6. CASE Correct
  BY <1>6, CorrectKeeps
<1>7. CASE Judge
  BY <1>7, JudgeKeeps
<1>8. CASE Ended \/ UNCHANGED vars
  BY <1>8, DocumentKept DEF Ended, vars, IInv, PlaceOK, Purposes, Stages
<1> QED
  BY <1>1, <1>2, <1>3, <1>4, <1>5, <1>6, <1>7, <1>8 DEF Next

LEMMA AlwaysIInv == Spec => []IInv
BY InitIInv, NextIInv, PTL DEF Spec

-----------------------------------------------------------------------------
(* The theorems. *)

\* Every leaf holds a value of some type, and the timeout is within the policy's
\* bounds, whoever wrote it (EnvironmentSpec.set(), _fix_timeout_no_data()).
THEOREM PlanTypeCorrect == Spec => []PlanTypeOK
<1>1. IInv => PlanTypeOK
  BY TypeParts DEF IInv
<1> QED
  BY <1>1, AlwaysIInv, PTL

\* What the Executor's agent reads when it may submit is a plan the gate would
\* pass, also after a fix that does not go through the gate.
THEOREM PlanReadyHolds == Spec => []PlanReady
<1>1. IInv => PlanReady
  BY DEF IInv, Stages, Ready, PlanReady
<1> QED
  BY <1>1, AlwaysIInv, PTL

\* The network token the Executor's agent reads is that of the mode the
\* controller decided, and the mode is the Scout's proposal or closed.
THEOREM PolicyReachesPlanHolds == Spec => []PolicyReachesPlan
<1>1. IInv => PolicyReachesPlan
  BY DEF IInv, Stages, ModeDecided, TokenInPlan, PolicyReachesPlan
<1> QED
  BY <1>1, AlwaysIInv, PTL

\* No step of an agent's loop changes a path the controller owns.
THEOREM ControllerFieldsAreKept == Spec => ControllerFieldsKept
<1>1. ASSUME IInv, [Next]_vars, pc \in DOMAIN Agents, NEW leaf \in Leaves,
             OwnedByController(leaf)
      PROVE  doc'[leaf] = doc[leaf]
  <2>1. CASE AgentWrites
    <3>1. PICK path : \E from \in Leaves : \E v \in Offered[from] :
            IsSeq(path) /\ CheckWrite(path, v, Agents[pc]) /\ doc' = Put(doc, path, v)
      BY <2>1, AgentWritesPick
    <3>2. PICK v : IsSeq(path) /\ CheckWrite(path, v, Agents[pc]) /\ doc' = Put(doc, path, v)
      BY <3>1
    <3>3. Agents[pc] \in Roles
      BY <1>1 DEF Agents, Roles
    <3>4. leaf \in DOMAIN doc /\ IsSeq(leaf)
      BY <1>1, LeafPaths DEF IInv, DocOK
    <3> QED
      BY <1>1, <3>2, <3>3, <3>4, AllowedKeepsOwned
  <2>2. CASE UNCHANGED doc
    BY <2>2
  <2>3. AgentWrites \/ UNCHANGED doc
    BY <1>1 DEF Next, vars, Agents, ScoutEnds, ArchitectEnds, Submit, ExecutorEnds, LoopFails,
                Promote, Enforce, Gate, ReadHint, Validate, Correct, Judge, Ended
  <2> QED
    BY <2>1, <2>2, <2>3
<1>2. IInv /\ [Next]_vars =>
        [(pc \in DOMAIN Agents) =>
           \A leaf \in Leaves : OwnedByController(leaf) => doc'[leaf] = doc[leaf]]_vars
  BY <1>1
<1> QED
  BY <1>2, AlwaysIInv, PTL DEF Spec, ControllerFieldsKept
=============================================================================
