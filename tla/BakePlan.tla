------------------------------ MODULE BakePlan -------------------------------
(***************************************************************************)
(* The inputs of a golden image: tool selectors are resolved against the   *)
(* embedded manifest to a plan; the plan gives the artifacts to stage, the *)
(* rendered provisioning script, the time a bake may take and ToolsHash,   *)
(* the fingerprint whose change makes housekeeping rebuild the image.      *)
(* The inputs change one at a time: the operator edits the configuration,  *)
(* a release brings another manifest.                                      *)
(***************************************************************************)
EXTENDS Naturals, Sequences, Functions, FiniteSets

CONSTANTS
  NodeMajors, DotNetMajors, Lines,  \* what the manifest carries
  Assigned,                         \* the .NET majors meant for goldens
  MaxTools                          \* bound: selectors in the configuration

PlanAssumption == /\ NodeMajors \subseteq Nat \ {0} /\ DotNetMajors \subseteq Nat \ {0}
                         /\ Lines \subseteq Nat \ {0} /\ MaxTools \in Nat

VARIABLES
  tools,    \* qemu.tools: kind and version, 0 for none
  iso,      \* the digest of the Windows ISO
  password, \* of the guest's administrator
  manifest  \* versions.json
vars == <<tools, iso, password, manifest>>

Selectors == [kind : {"node"}, version : NodeMajors \cup {0, 99}]
        \cup [kind : {"dotnet"}, version : DotNetMajors \cup {0}]
        \cup [kind : {"buildtools"}, version : Lines \cup {0}]
        \cup [kind : {"go"}, version : {0, 1}]
Manifests == [nodeDefault : NodeMajors, go : {1, 2}, line : Lines,
              supported : SUBSET DotNetMajors]

Init == tools = <<>> /\ iso = "iso1" /\ password = "p1" /\ manifest \in Manifests

-----------------------------------------------------------------------------
(* resolveToolPlan. *)

\* normalizeTools: the selectors as a set; order and duplicates do not matter.
normalizeTools == Range(tools)

\* The versions one selector stands for; none is an error.
Versions(s) ==
  CASE s.kind = "node" -> IF s.version = 0 THEN NodeMajors ELSE {s.version} \cap NodeMajors
    [] s.kind = "dotnet" -> (IF s.version = 0 THEN Assigned ELSE {s.version}) \cap manifest.supported
    [] s.kind = "buildtools" -> {IF s.version = 0 THEN manifest.line ELSE s.version}
    [] OTHER -> {s.version} \cap {0}

resolves == \A s \in normalizeTools : Versions(s) # {}
Kinds == {s.kind : s \in normalizeTools}
Selected(kind) == UNION {Versions(s) : s \in {t \in normalizeTools : t.kind = kind}}
\* bakeToolPlan.
Plan == [node |-> Selected("node"), dotnet |-> Selected("dotnet"), buildtools |-> Selected("buildtools"),
         go |-> "go" \in Kinds]

Highest(S) == CHOOSE x \in S : \A y \in S : y <= x
\* Which of the installed versions goes on PATH: the manifest's, or the last one.
Default(S, preferred) == IF S = {} THEN 0 ELSE IF preferred \in S THEN preferred ELSE Highest(S)

\* bakeArtifactsForPlan: the runner and MinGit, and what the plan needs.
bakeArtifacts ==
  {<<"runner", 0>>, <<"mingit", 0>>}
    \cup {<<"node", v>> : v \in Plan.node} \cup (IF Plan.node # {} THEN {<<"corepack", 0>>} ELSE {})
    \cup (IF Plan.go THEN {<<"go", manifest.go>>} ELSE {})
    \cup {<<"dotnet", v>> : v \in Plan.dotnet} \cup {<<"vs", v>> : v \in Plan.buildtools}

\* AutounattendFiles: install-golden.ps1 as it is rendered, the answer file with its password.
AutounattendFiles(pw) ==
  [kinds |-> Kinds, node |-> Plan.node, nodeDefault |-> Default(Plan.node, manifest.nodeDefault),
   go |-> manifest.go, dotnet |-> Plan.dotnet, lines |-> Plan.buildtools,
   line |-> Default(Plan.buildtools, manifest.line), password |-> pw]

\* Mutant: the artifacts and selectors are hashed, the rendered script is not.
HashOfArtifacts == [iso |-> iso, plan |-> Plan, artifacts |-> bakeArtifacts]
\* ToolsHash: of the ISO, the canonical selectors, the artifacts and the rendered files.
ToolsHash ==
  [iso |-> iso, plan |-> Plan, artifacts |-> bakeArtifacts, files |-> AutounattendFiles("fingerprint")]

\* bakeTimeoutForPlan, in minutes.
bakeTimeout ==
  LET base == 45 + 90 * Cardinality(Plan.buildtools) IN
  IF Kinds \cap {"dotnet", "node", "go"} # {} /\ base < 75 THEN 75 ELSE base

-----------------------------------------------------------------------------
AddTool == /\ Len(tools) < MaxTools /\ \E s \in Selectors : tools' = Append(tools, s)
           /\ UNCHANGED <<iso, password, manifest>>
Reorder == /\ Len(tools) > 1 /\ tools' = [i \in DOMAIN tools |-> tools[Len(tools) + 1 - i]] /\ UNCHANGED <<iso, password, manifest>>
Repeat == /\ Len(tools) \in 1..(MaxTools - 1) /\ tools' = Append(tools, tools[1])
          /\ UNCHANGED <<iso, password, manifest>>
NewISO == iso = "iso1" /\ iso' = "iso2" /\ UNCHANGED <<tools, password, manifest>>
Rotate == password = "p1" /\ password' = "p2" /\ UNCHANGED <<tools, iso, manifest>>
Release == /\ \/ \E m \in NodeMajors : manifest' = [manifest EXCEPT !.nodeDefault = m]
              \/ \E l \in Lines : manifest' = [manifest EXCEPT !.line = l]
              \/ manifest' = [manifest EXCEPT !.go = 3 - @]
              \/ \E S \in SUBSET DotNetMajors : manifest' = [manifest EXCEPT !.supported = S]
           /\ UNCHANGED <<tools, iso, password>>

Next == AddTool \/ Reorder \/ Repeat \/ NewISO \/ Rotate \/ Release
Spec == Init /\ [][Next]_vars

-----------------------------------------------------------------------------
\* What a guest that was provisioned ends up with, apart from its password.
Guest == [iso |-> iso, node |-> Plan.node, onPath |-> Default(Plan.node, manifest.nodeDefault),
          go |-> IF Plan.go THEN manifest.go ELSE 0, dotnet |-> Plan.dotnet,
          lines |-> Plan.buildtools, line |-> Default(Plan.buildtools, manifest.line)]

\* ToolsHash "fingerprints every input that changes the provisioned golden image": an edit or a
\* release that changes the guest changes the hash, defaults on PATH included.
HashSeesEveryChange ==
  resolves /\ resolves' /\ Guest' # Guest => ToolsHash' # ToolsHash

\* What leaves the guest as it is, such as another password, another order of the selectors, a
\* duplicate or a bare selector spelt out, does not cost a rebuild. The exception is another Go
\* in the manifest: the script is rendered with it whether or not Go is selected.
NoNeedlessRebuild ==
  resolves /\ resolves' /\ Guest' = Guest /\ manifest'.go = manifest.go => ToolsHash' = ToolsHash

\* A tool more never leaves the bake less time, and each Build Tools line brings its own.
MoreToolsMoreTime ==
  AddTool /\ resolves /\ resolves' =>
    /\ bakeTimeout' >= bakeTimeout
    /\ Plan'.buildtools # Plan.buildtools /\ Plan.buildtools # {} => bakeTimeout' >= bakeTimeout + 90
=============================================================================
