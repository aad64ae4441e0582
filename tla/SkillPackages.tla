----------------------------- MODULE SkillPackages -----------------------------
(***************************************************************************)
(* One Skill package on disk, as the SDK sees it: what the validators find  *)
(* (validation.py), how it is loaded (capabilities.py) and what the         *)
(* registry says of it (registry.py).                                      *)
(*                                                                         *)
(* A package is a record of the facts these rules tell apart:               *)
(*   reads       which of the two readers of SKILL.md find its frontmatter: *)
(*               "validator" (a closing line ---, blanks allowed), "loader" *)
(*               (--- up to a line break); None if there is no SKILL.md     *)
(*   name        its name; None if it has none, 0 if it is empty            *)
(*   described   it has a description                                       *)
(*   extra       it has keys that are not of Agent Skills                   *)
(*   schema      AgentSkillFrontmatter takes its values                     *)
(*   contract    contract.json or None: its state, "json" (not JSON),       *)
(*               "shape" (not an object where one is expected), "direct"    *)
(*               (writes the wiki), "schema" (rejected otherwise) or "ok",  *)
(*               and its id, category, kind, semver, next, gates, admin     *)
(*   capability  inkdesk.yaml or None: its state, id and semver             *)
(*   openai      agents/openai.yaml: None, "bad", "ok" or "other name"      *)
(*   badDir      its directory has no package name                          *)
(*   unknownDir  a directory in it is not one of a Skill                    *)
(*   unsafe      a text of it breaks a safety rule                          *)
(* Names and directories are numbered in the order of their strings.        *)
(***************************************************************************)
EXTENDS Naturals, Sequences, FiniteSets

CONSTANT None

Finding(code, severity) == [code |-> code, severity |-> severity]
Error(code) == {Finding(code, "error")}
Warning(code) == {Finding(code, "warning")}
When(condition, findings) == IF condition THEN findings ELSE {}

NextIds(contract) == {contract.next[i] : i \in DOMAIN contract.next}

\* Contract rejects a contract that is its own next one (next_skills_no_self_ref).
Parsed(manifest) ==
    /\ manifest # None /\ manifest.state = "ok"
    /\ "next" \in DOMAIN manifest => manifest.id \notin NextIds(manifest)
HasBoth(p) == p.contract # None /\ p.capability # None

-----------------------------------------------------------------------------
(* validate_structural                                                     *)

Structural(p) ==
    When(p.badDir, Error("STRUCT_DIR_NAME"))
    \cup When(p.reads = None, Error("STRUCT_MISSING_FILE"))
    \cup When(HasBoth(p), Error("STRUCT_MULTIPLE_MANIFESTS"))
    \cup When(p.unknownDir, Warning("STRUCT_UNKNOWN_DIR"))

-----------------------------------------------------------------------------
(* validate_semantic                                                       *)

SeesFrontmatter(p) == p.reads # None /\ "validator" \in p.reads
SeenName(p) == IF SeesFrontmatter(p) THEN p.name ELSE None

FrontmatterFindings(p) ==
    IF ~SeesFrontmatter(p) THEN When(p.reads # None, Error("SEMANTIC_SKILL_NO_FRONTMATTER"))
    ELSE When(p.extra, Error("SEMANTIC_EXTRA_FRONTMATTER"))
         \cup When(p.name = None, Error("SEMANTIC_MISSING_NAME"))
         \cup When(~p.described, Error("SEMANTIC_MISSING_DESC"))

ManifestFindings(p) ==
    When(p.capability # None /\ ~Parsed(p.capability), Error("SEMANTIC_CAPABILITY_PARSE"))
    \cup When(p.contract # None /\ ~Parsed(p.contract),
              Error(IF p.contract.state = "json" THEN "SEMANTIC_CONTRACT_JSON"
                                                 ELSE "SEMANTIC_CONTRACT_PARSE"))
    \cup When(p.openai = "bad", Error("SEMANTIC_OPENAI_YAML"))

\* The manifest whose id the names are compared with: the contract before the other.
Manifest(p) == IF Parsed(p.contract) THEN p.contract ELSE p.capability

\* Mutant: the name of the directory is left out.
IdentityFindingsNoDir(d, p) ==
    When({SeenName(p)} \ {None, 0, Manifest(p).id} # {}, Error("SEMANTIC_NAME_MISMATCH"))
    \cup When(~Manifest(p).semver, Error("SEMANTIC_BAD_SEMVER"))

IdentityFindings(d, p) ==
    When({d, SeenName(p)} \ {None, 0, Manifest(p).id} # {}, Error("SEMANTIC_NAME_MISMATCH"))
    \cup When(~Manifest(p).semver, Error("SEMANTIC_BAD_SEMVER"))

ContractFindings(p) ==
    When(~p.contract.gates, Error("SEMANTIC_GATE_INPUT_MISMATCH"))
    \cup When(Cardinality(NextIds(p.contract)) < Len(p.contract.next), Warning("SEMANTIC_NEXT_DUPLICATE"))
    \cup When(p.openai = "other name", Error("SEMANTIC_OPENAI_NAME_MISMATCH"))

Semantic(d, p) ==
    FrontmatterFindings(p) \cup ManifestFindings(p)
    \cup When(Parsed(p.contract) \/ Parsed(p.capability), IdentityFindings(d, p))
    \cup When(Parsed(p.contract), ContractFindings(p))

-----------------------------------------------------------------------------
(* validate_safety                                                         *)

\* It asks the members of the contract, and of its writePolicy, unguarded.
SafetyRaises(p) == p.contract # None /\ p.contract.state = "shape"

\* What the rules for absolute paths, bypass claims, secrets and escapes find in its files.
TextFindings(p) == When(p.unsafe, Error("SAFETY_TEXT"))

Safety(p) ==
    When(p.contract # None /\ p.contract.state = "direct", Error("SAFETY_WRITE_POLICY"))
    \cup When(Parsed(p.contract) /\ p.contract.admin, Error("SAFETY_SUSPICIOUS_CAPABILITY"))
    \cup TextFindings(p)

Lint(d, p) == Structural(p) \cup Semantic(d, p) \cup Safety(p)
Passed(d, p) == ~SafetyRaises(p) /\ \A f \in Lint(d, p) : f.severity # "error"

-----------------------------------------------------------------------------
(* load_skill_package                                                      *)

\* AgentSkillFrontmatter
FollowsSchema(p) == p.name \notin {None, 0} /\ p.described /\ p.schema /\ ~p.extra

LoadsFrontmatter(p) == p.reads # None /\ "loader" \in p.reads /\ FollowsSchema(p)

\* _validate_identity
SameIdentity(d, p, id) == d = id /\ p.name = id

Loads(d, p) ==
    /\ LoadsFrontmatter(p) /\ ~HasBoth(p)
    /\ CASE p.capability # None -> Parsed(p.capability) /\ SameIdentity(d, p, p.capability.id)
         [] p.contract # None   -> Parsed(p.contract) /\ SameIdentity(d, p, p.contract.id)
         [] OTHER               -> SameIdentity(d, p, p.name)

-----------------------------------------------------------------------------
(* SkillRegistry.resolve                                                   *)

\* _invalid_metadata: inkdesk.yaml is looked at only where there is no contract.json.
InvalidManifest(p) ==
    CASE Parsed(p.contract) -> "contract"
      [] p.contract = None /\ Parsed(p.capability) -> "capability"
      [] OTHER -> "external"

InvalidMetadata(d, p) ==
    IF ~LoadsFrontmatter(p) THEN None
    ELSE LET m == InvalidManifest(p) IN
         [dir |-> d, manifest |-> m,
          id |-> CASE m = "contract"   -> p.contract.id
                   [] m = "capability" -> p.capability.id
                   [] m = "external"   -> p.name]

LoadedManifest(p) ==
    CASE p.contract # None   -> "contract"
      [] p.capability # None -> "capability"
      [] OTHER               -> "external"

\* The entry of the registry for a package; None if it is left out.
Resolve(d, p) ==
    IF Loads(d, p) THEN [dir |-> d, manifest |-> LoadedManifest(p), id |-> p.name]
                   ELSE InvalidMetadata(d, p)

Category(p, meta) == IF meta.manifest = "contract" THEN p.contract.category ELSE meta.manifest
Kind(p, meta) ==
    CASE meta.manifest = "contract"   -> p.contract.kind
      [] meta.manifest = "capability" -> "workflow"
      [] meta.manifest = "external"   -> "instruction"

\* get_summary: the entries shown as valid; where the validation raised there is no result.
Valid(d, p) == Resolve(d, p) # None /\ Passed(d, p)
=============================================================================
