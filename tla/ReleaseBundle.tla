---------------------------- MODULE ReleaseBundle ----------------------------
(***************************************************************************)
(* The tail of a release: the generators that turn reviewed inputs into    *)
(* the risk register, the release notes, the release manifest, the         *)
(* bytecode proof, the candidate lockfile and the checksum bundle, their   *)
(* --check modes, and the gate that accepts a signed release tag.          *)
(*                                                                         *)
(* They are command line programs that share one working tree: a developer *)
(* edits files while one runs, a run can be killed between two writes, and *)
(* each output records digests of files that other runs produced.          *)
(*                                                                         *)
(* The digest of a file is the file's content: no two contents collide.    *)
(***************************************************************************)
EXTENDS Naturals, Sequences, FiniteSets

CONSTANTS Tools,        \* Python sources of the release tools
          Roots,        \* the ones run with python -m
          Reviewed,     \* the reviewed import closure of the roots
          External,     \* reviewed external modules
          Values,       \* imported values whose use outside a call is reviewed
          Shadows,      \* fallbacks that may shadow an imported name
          Patches,      \* what a developer changes at once: file -> content
          Initial,      \* the content each edited file starts with
          Facts,        \* what there is to know of each such content
          Minimum,      \* runtime margin below which Core's size blocks a release
          MaxEdits, MaxCommits,
          MaxDetours    \* generators run out of order and runs killed

Inputs == {"changelog", "evidence", "abi", "status", "inventory", "reference", "signatures"}
Sources == Inputs \cup Tools
Outputs == {"policy", "risk", "notes", "notes_md", "manifest", "proof", "lockfile",
            "sums", "sums_json"}
Files == Sources \cup Outputs

ASSUME BundleConstants ==
    /\ Roots \subseteq Reviewed /\ Reviewed \subseteq Tools
    /\ Tools \cap (Inputs \cup Outputs) = {}
    /\ DOMAIN Initial = Sources /\ \A f \in Sources : Initial[f] \in DOMAIN Facts
    /\ \A p \in Patches : /\ DOMAIN p \subseteq Sources
                          /\ \A f \in DOMAIN p : p[f] \in DOMAIN Facts
    /\ Minimum \in Nat /\ MaxEdits \in Nat
    /\ MaxCommits \in Nat /\ MaxDetours \in Nat

VARIABLES disk,     \* the working tree: file -> content
          job,      \* the generator under way
          at,       \* the last step of the tail that ran, 0 after one stopped
          detours,  \* generators run out of order and runs killed
          history,  \* the commits, each a tree; the last one is checked out
          tag,      \* the commit the release tag signs
          release,  \* the release signature evidence retained
          edits,    \* edits made
          quiet     \* consecutive steps of the canonical tail nothing interfered with

vars == <<disk, job, at, detours, history, tag, release, edits, quiet>>

(***************************************************************************)
(* Files                                                                   *)
(***************************************************************************)
(* Mutant: the lockfile is taken before the proof it records. *)
TailOrder_LockfileFirst == <<"risk", "notes", "manifest", "lockfile", "proof", "checksums">>
TailOrder == <<"risk", "notes", "manifest", "proof", "lockfile", "checksums">>
Absent == [absent |-> TRUE]
Truncated == [truncated |-> TRUE]
Whole(output) == output \notin {Absent, Truncated}

Fact(d, f) == Facts[d[f]]

(* DEFAULT_COVERED_PATHS: everything but the bundle itself, which cannot    *)
(* hash itself, and the files only the inventory's references name.        *)
COVERED == Files \ {"sums", "sums_json", "reference"}

(* LIVE_SIZE_MIRROR_REQUIREMENTS with _validate_status_size_projection: the *)
(* status document repeats the measured margin, and nothing else does.     *)
live_size_mirrors(d) == Fact(d, "status").margin = Fact(d, "abi").margin

(* validate_inventory with require_complete=False: a recorded reference is  *)
(* a regular file with the recorded digest.                                *)
NoReference == "none"
inventory_valid(d) ==
    \/ Fact(d, "inventory").reference = NoReference
    \/ /\ Fact(d, "reference").form # "link"
       /\ Fact(d, "inventory").reference = d["reference"]

-----------------------------------------------------------------------------
(***************************************************************************)
(* The reviewed release-tool sources: two static grammars over them        *)
(***************************************************************************)
(* _repo_local_script_imports, the grammar of the import closure.          *)
REFLECTIVE == {"reflection"}
loader_free(tool) == tool.uses \cap {"loader", "wildcard", "exec"} = {}
subprocess_reviewed(tool) == tool.subprocess => tool.reviewed
script_candidates(tool) == tool.imports \cap Tools
importer_names_unshadowed(tool) == "importer_shadow" \notin tool.uses
importer_not_reached(tool) == tool.uses \cap {"importer_getattr", "subprocess_alias"} = {}
subprocess_targets_static(tool) ==
    tool.uses \cap {"subprocess_attribute", "python_target", "shell", "executable"} = {}
sys_not_escaped(tool) == "sys_escape" \notin tool.uses
importer_not_escaped(tool) == "importer_escape" \notin tool.uses
dynamic_imports_literal(tool) == tool.uses \cap {"computed_import", "relative_import"} = {}
reflection_free(tool) == tool.uses \cap REFLECTIVE = {}

ordinary_source(tool) == tool.form # "link"

script_imports_accepted(tool) ==
    /\ ordinary_source(tool) /\ loader_free(tool) /\ subprocess_reviewed(tool)
    /\ importer_names_unshadowed(tool) /\ importer_not_reached(tool)
    /\ subprocess_targets_static(tool) /\ sys_not_escaped(tool)
    /\ importer_not_escaped(tool) /\ dynamic_imports_literal(tool) /\ reflection_free(tool)

(* The closure of the roots under an import relation. *)
ClosureOf(imports) ==
    LET reach[n \in Nat] ==
          IF n = 0 THEN Roots
          ELSE reach[n - 1] \cup UNION {imports[t] : t \in reach[n - 1]}
    IN reach[Cardinality(Tools)]

(* release_tool_runtime_closure on the live tree, as the focused tests      *)
(* call it: every source reached is accepted, and they are the reviewed    *)
(* ones.                                                                   *)
focused_closure_test(d) ==
    LET closure == ClosureOf([t \in Tools |-> script_candidates(Fact(d, t))])
    IN closure = Reviewed /\ \A t \in closure : script_imports_accepted(Fact(d, t))

(* _release_tool_call_policy_imports: no relative import, no alternate      *)
(* loader module, nothing but reviewed and listed external modules.        *)
policy_imports(tool) ==
    /\ tool.uses \cap {"relative_import", "wildcard", "loader", "ambiguous"} = {}
    /\ tool.imports \subseteq Reviewed
    /\ tool.external \subseteq External

(* Call targets that have a static name, and no dynamic import call. *)
static_targets(tool) == "computed_target" \notin tool.uses
policy_members(tool) == tool.members
policy_shadows(tool) == tool.shadows \subseteq Shadows
policy_escapes(tool) == tool.values \subseteq Values
policy_calls(tool) == tool.uses \cap {"dynamic_import", "computed_import"} = {}

row_accepted(tool) ==
    /\ tool.form # "link"
    /\ policy_imports(tool) /\ static_targets(tool) /\ policy_shadows(tool)
    /\ policy_escapes(tool) /\ policy_calls(tool)

policy_row(s, t) == [source |-> s[t], imports |-> Fact(s, t).imports,
                     members |-> policy_members(Fact(s, t))]

(* build_release_tool_call_policy over the sources in s: the rows, and what *)
(* has to hold of all of them together.                                    *)
policy_inventory_exact(s) ==
    /\ \A t \in Reviewed : row_accepted(Fact(s, t))
    /\ ClosureOf([t \in Tools |-> IF t \in Reviewed THEN Fact(s, t).imports \cap Reviewed ELSE {}])
         = Reviewed
    /\ UNION {Fact(s, t).external : t \in Reviewed} = External
    /\ UNION {Fact(s, t).values : t \in Reviewed} = Values
    /\ UNION {Fact(s, t).shadows : t \in Reviewed} = Shadows
build_policy(s) == [t \in Reviewed |-> policy_row(s, t)]

(* validate_release_tool_call_policy: of a live tree, or of a snapshot. *)
policy_current(s) ==
    policy_inventory_exact(s) /\ s["policy"] = build_policy(s)

-----------------------------------------------------------------------------
(***************************************************************************)
(* The generated documents                                                 *)
(***************************************************************************)
size_risk(margin) == IF margin >= Minimum THEN "mitigated_local" ELSE "open_blocker"

build_risk(d) ==
    [size |-> size_risk(Fact(d, "abi").margin), margin |-> Fact(d, "abi").margin,
     documents |-> d["status"]]
risk_ready(d) == live_size_mirrors(d)

(* stream_core_proof_measurement: the check also wants the proof of the     *)
(* current manifest and ABI to agree with the measurement.                 *)
proof_bound(d) ==
    /\ Whole(d["proof"])
    /\ d["proof"].manifest = d["manifest"] /\ d["proof"].abi = d["abi"]
    /\ d["proof"].margin = Fact(d, "abi").margin

(* validate_risk_register as the manifest calls it: the recorded files have *)
(* the recorded digests.                                                   *)
risk_register_valid(d) == Whole(d["risk"]) /\ d["risk"].documents = d["status"]

risk_check(d) ==
    risk_ready(d) /\ proof_bound(d) /\ d["risk"] = build_risk(d) /\ risk_register_valid(d)

(* The notes project the manifest's status without recording its digest,    *)
(* "to avoid a hash cycle".                                                *)
notes_ready(d) == Whole(d["manifest"]) /\ Whole(d["proof"]) /\ Whole(d["risk"])
build_notes(d) ==
    [changelog |-> d["changelog"], risk |-> d["risk"],
     readiness |-> d["manifest"].readiness]
markdown(notes) == [of |-> notes]

notes_check(d) ==
    /\ notes_ready(d)
    /\ d["notes"] = build_notes(d) /\ d["notes_md"] = markdown(build_notes(d))

manifest_ready(d) ==
    /\ Whole(d["notes"]) /\ risk_register_valid(d)
    /\ policy_current(d) /\ inventory_valid(d)
build_manifest(d) ==
    [readiness |-> Fact(d, "evidence").readiness,
     digests |-> [f \in {"notes", "notes_md", "risk", "evidence", "changelog", "abi",
                         "inventory", "policy", "signatures"} |-> d[f]]]
manifest_check(d) == manifest_ready(d) /\ d["manifest"] = build_manifest(d)

proof_ready(d) == Whole(d["manifest"]) /\ d["manifest"].digests["abi"] = d["abi"]
build_proof(d) ==
    [manifest |-> d["manifest"], abi |-> d["abi"],
     margin |-> Fact(d, "abi").margin]
proof_check(d) == proof_ready(d) /\ d["proof"] = build_proof(d)

lockfile_ready(d) ==
    /\ \A f \in {"manifest", "proof", "risk", "notes"} : Whole(d[f])
    /\ policy_current(d) /\ inventory_valid(d)
build_lockfile(d) ==
    [digests |-> [f \in {"manifest", "proof", "evidence", "risk", "inventory", "policy",
                         "notes", "notes_md", "signatures"} |-> d[f]]]
lockfile_check(d) == lockfile_ready(d) /\ d["lockfile"] = build_lockfile(d)

-----------------------------------------------------------------------------
(***************************************************************************)
(* The checksum bundle                                                     *)
(***************************************************************************)
(* release_checksum_inputs: the inventory is validated live and the files   *)
(* its complete references name are added to the coverage.                 *)
covered_files(d) ==
    COVERED \cup (IF Fact(d, "inventory").reference = NoReference THEN {} ELSE {"reference"})

(* _read_covered_file_snapshots and _validate_declared_line_endings. *)
readable(content) == content.form # "link"
line_endings(content) == content.form # "mixed"
SnapshotReadable(snap) == \A f \in DOMAIN snap \cap Sources : readable(Fact(snap, f))

(* Mutant: the covered policy is trusted because the manifest validated it. *)
snapshot_accepted_Trusting(snap, reference, d) ==
    /\ \A f \in DOMAIN snap \cap Sources : line_endings(Fact(snap, f))
    /\ policy_inventory_exact(snap)
    /\ reference # NoReference => snap["reference"] = reference

(* The build half of build_outputs, over the snapshot alone. *)
snapshot_accepted(snap, reference, d) ==
    /\ \A f \in DOMAIN snap \cap Sources : line_endings(Fact(snap, f))
    /\ policy_current(snap)
    /\ reference # NoReference => snap["reference"] = reference

build_sums(snap) == [files |-> snap]
build_sums_json(snap) == [text |-> build_sums(snap)]

(* check_outputs: the committed text matches the tree, and a rebuild gives  *)
(* the same two files.                                                     *)
verify_committed(d) == \A f \in DOMAIN d["sums"].files : d[f] = d["sums"].files[f]
bundle_check(d) ==
    LET snap == [f \in covered_files(d) |-> d[f]]
    IN /\ Whole(d["sums"]) /\ Whole(d["sums_json"])
       /\ verify_committed(d)
       /\ inventory_valid(d) /\ SnapshotReadable(snap)
       /\ snapshot_accepted(snap, Fact(d, "inventory").reference, d)
       /\ d["sums"] = build_sums(snap) /\ d["sums_json"] = build_sums_json(snap)

(* make release-checksums-check: every check of the tail, and the focused   *)
(* tests of the checksum generator before its own.                         *)
TailChecked(d) ==
    /\ risk_check(d) /\ notes_check(d) /\ manifest_check(d) /\ proof_check(d)
    /\ lockfile_check(d) /\ focused_closure_test(d) /\ bundle_check(d)

Ready(step, d) ==
    CASE step = "risk" -> risk_ready(d)
      [] step = "notes" -> notes_ready(d)
      [] step = "manifest" -> manifest_ready(d)
      [] step = "proof" -> proof_ready(d)
      [] step = "lockfile" -> lockfile_ready(d)

Written(step, d) ==
    CASE step = "risk" -> <<<<"risk", build_risk(d)>>>>
      [] step = "notes" -> <<<<"notes", build_notes(d)>>,
                             <<"notes_md", markdown(build_notes(d))>>>>
      [] step = "manifest" -> <<<<"manifest", build_manifest(d)>>>>
      [] step = "proof" -> <<<<"proof", build_proof(d)>>>>
      [] step = "lockfile" -> <<<<"lockfile", build_lockfile(d)>>>>

-----------------------------------------------------------------------------
(***************************************************************************)
(* The working tree and the generators                                     *)
(***************************************************************************)
Idle == [tool |-> "none"]
NoRelease == Absent
NoTag == 0

(* A tree whose outputs are all current: sources, then the documents in    *)
(* the order they depend on each other.                                    *)
Settled ==
    LET base == [f \in Files |-> IF f \in Sources THEN Initial[f] ELSE Absent]
        d0 == [base EXCEPT !["policy"] = build_policy(base), !["risk"] = build_risk(base),
                           !["manifest"] = [readiness |-> Fact(base, "evidence").readiness]]
        d1 == [d0 EXCEPT !["notes"] = build_notes(d0), !["notes_md"] = markdown(build_notes(d0))]
        d2 == [d1 EXCEPT !["manifest"] = build_manifest(d1)]
        d3 == [d2 EXCEPT !["proof"] = build_proof(d2)]
        d4 == [d3 EXCEPT !["lockfile"] = build_lockfile(d3)]
        snap == [f \in covered_files(d4) |-> d4[f]]
    IN [d4 EXCEPT !["sums"] = build_sums(snap), !["sums_json"] = build_sums_json(snap)]

Init ==
    /\ disk = Settled /\ history = <<Settled>>
    /\ job = Idle /\ tag = NoTag /\ release = NoRelease
    /\ at = 0 /\ detours = 0 /\ edits = 0 /\ quiet = 0

(* A developer changes a reviewed input, also while a generator runs. *)
Edit(patch) ==
    /\ edits < MaxEdits
    /\ \E f \in DOMAIN patch : patch[f] # disk[f]
    /\ disk' = [f \in Files |-> IF f \in DOMAIN patch THEN patch[f] ELSE disk[f]]
    /\ edits' = edits + 1 /\ quiet' = 0
    /\ UNCHANGED <<job, at, detours, history, tag, release>>

(* Bound: detours come before the signature.  One that comes after it       *)
(* leaves a dirty tree or, once checked out, the committed one.           *)
Detour == detours < MaxDetours /\ release = NoRelease

(* make runs the tail in order and stops at the first generator that        *)
(* refuses; an operator may also run one by itself.  quiet counts the steps *)
(* that followed each other undisturbed, up to two passes.                 *)
Run(step, order) ==
    LET n == Len(order)
        inOrder == order[(at % n) + 1] = step
    IN /\ at' = CHOOSE i \in 1..n : order[i] = step
       /\ IF inOrder
          THEN /\ UNCHANGED detours
               /\ quiet' = IF quiet = 2 * n THEN quiet
                           ELSE IF quiet % n = at % n THEN quiet + 1 ELSE quiet
          ELSE /\ Detour /\ detours' = detours + 1 /\ quiet' = 0

(* A generator reads its inputs, builds, and goes on to write. *)
Start(step) ==
    /\ job = Idle /\ step # "checksums" /\ Ready(step, disk)
    /\ job' = [tool |-> step, pending |-> Written(step, disk), opened |-> FALSE]
    /\ Run(step, TailOrder)
    /\ UNCHANGED <<disk, history, tag, release, edits>>

Stops == at' = 0 /\ quiet' = 0

(* One that refuses its inputs writes nothing and ends the pass. *)
Refuse ==
    /\ job = Idle /\ at > 0
    /\ LET step == TailOrder[(at % Len(TailOrder)) + 1]
       IN IF step = "checksums" THEN ~inventory_valid(disk) ELSE ~Ready(step, disk)
    /\ Stops
    /\ UNCHANGED <<disk, job, detours, history, tag, release, edits>>

Writing(tools) == job.tool \in tools /\ job.pending # <<>>

(* Path.write_text opens the file, which empties it, and writes it. *)
WriteText_open ==
    /\ Writing({"risk", "notes", "manifest", "proof", "lockfile"}) /\ ~job.opened
    /\ disk' = [disk EXCEPT ![job.pending[1][1]] = Truncated]
    /\ job' = [job EXCEPT !.opened = TRUE]
    /\ UNCHANGED <<at, detours, history, tag, release, edits, quiet>>

Remaining == IF Len(job.pending) = 1 THEN Idle
             ELSE [job EXCEPT !.pending = Tail(@), !.opened = FALSE]

WriteText_close ==
    /\ Writing({"risk", "notes", "manifest", "proof", "lockfile"}) /\ job.opened
    /\ disk' = [disk EXCEPT ![job.pending[1][1]] = job.pending[1][2]]
    /\ job' = Remaining
    /\ UNCHANGED <<at, detours, history, tag, release, edits, quiet>>

(***************************************************************************)
(* write_outputs of the checksum generator: the inputs are listed, every   *)
(* covered file is read once (release-artifacts before tools, the order of *)
(* the paths), the bundle is built from what was read, and its two files   *)
(* are replaced one after the other.                                       *)
(***************************************************************************)
Checksums_inputs ==
    /\ job = Idle /\ inventory_valid(disk)
    /\ job' = [tool |-> "checksums", stage |-> "artifacts", pending |-> <<>>,
               files |-> covered_files(disk),
               reference |-> Fact(disk, "inventory").reference, snap |-> <<>>]
    /\ Run("checksums", TailOrder)
    /\ UNCHANGED <<disk, history, tag, release, edits>>

(* Reading stops at the first file that is a link. *)
Checksums_read(part, stage, next) ==
    /\ job.tool = "checksums" /\ job.stage = stage
    /\ LET read == [f \in part \cap job.files |-> disk[f]]
       IN IF SnapshotReadable(read)
          THEN /\ job' = [job EXCEPT !.stage = next,
                     !.snap = [f \in DOMAIN job.snap \cup DOMAIN read |->
                                 IF f \in DOMAIN read THEN read[f] ELSE job.snap[f]]]
               /\ UNCHANGED <<at, quiet>>
          ELSE job' = Idle /\ Stops
    /\ UNCHANGED <<disk, detours, history, tag, release, edits>>

Checksums_artifacts == Checksums_read(Files \ Tools, "artifacts", "tools")
Checksums_tools == Checksums_read(Tools, "tools", "build")

Checksums_build ==
    /\ job.tool = "checksums" /\ job.stage = "build"
    /\ IF snapshot_accepted(job.snap, job.reference, disk)
       THEN /\ job' = [job EXCEPT !.stage = "write",
                  !.pending = <<<<"sums", build_sums(job.snap)>>,
                                <<"sums_json", build_sums_json(job.snap)>>>>]
            /\ UNCHANGED <<at, quiet>>
       ELSE job' = Idle /\ Stops
    /\ UNCHANGED <<disk, detours, history, tag, release, edits>>

(* write_release_tool_call_policy: the policy of the tools on disk. *)
RefreshPolicy ==
    /\ job = Idle /\ policy_inventory_exact(disk)
    /\ disk["policy"] # build_policy(disk)
    /\ job' = [tool |-> "policy", pending |-> <<<<"policy", build_policy(disk)>>>>]
    /\ quiet' = 0
    /\ UNCHANGED <<disk, at, detours, history, tag, release, edits>>

(* _atomic_write_output: a temporary file takes the place of the output. *)
AtomicWrite ==
    /\ Writing({"checksums", "policy"})
    /\ disk' = [disk EXCEPT ![job.pending[1][1]] = job.pending[1][2]]
    /\ job' = IF Len(job.pending) = 1 THEN Idle ELSE [job EXCEPT !.pending = Tail(@)]
    /\ UNCHANGED <<at, detours, history, tag, release, edits, quiet>>

(* A run is killed; what it opened stays empty, what it replaced stays. *)
Kill ==
    /\ job # Idle /\ Detour
    /\ job' = Idle /\ detours' = detours + 1 /\ Stops
    /\ UNCHANGED <<disk, history, tag, release, edits>>

-----------------------------------------------------------------------------
(***************************************************************************)
(* Commit, signed tag, retained signature evidence                         *)
(***************************************************************************)
(* Commits and signatures are made between passes. *)
head == Len(history)
BetweenPasses == job = Idle /\ at \in {0, Len(TailOrder)}

Commit ==
    /\ BetweenPasses /\ disk # history[head] /\ head <= MaxCommits /\ bundle_check(disk)
    /\ history' = Append(history, disk)
    /\ UNCHANGED <<disk, job, at, detours, tag, release, edits, quiet>>

(* git checkout of everything: back to the commit. *)
Checkout ==
    /\ BetweenPasses /\ disk # history[head]
    /\ disk' = history[head] /\ quiet' = 0
    /\ UNCHANGED <<job, at, detours, history, tag, release, edits>>

(* The operator signs the tag and the bundle in the working tree, and       *)
(* retains evidence that names the commit and whether the tree was dirty,  *)
(* in the covered signature directory or outside of it.                    *)
SignRelease(where) ==
    /\ BetweenPasses /\ release = NoRelease
    /\ tag' = head
    /\ release' = [commit |-> head, source_dirty |-> disk # history[head], where |-> where,
                   bundle |-> <<disk["sums"], disk["sums_json"]>>]
    /\ IF where = "covered"
       THEN disk' = [disk EXCEPT !["signatures"] = "signature"] /\ quiet' = 0
       ELSE UNCHANGED <<disk, quiet>>
    /\ UNCHANGED <<job, at, detours, history, edits>>

(* matching_release_evidence: signed, for this commit, of a clean tree, and *)
(* not among the files the bundle covers.                                  *)
(* Mutant: evidence of a dirty tree is taken. *)
matching_release_evidence_Dirty(evidence, d, commit) ==
    /\ evidence # NoRelease
    /\ ~(evidence.where = "covered" /\ "signatures" \in DOMAIN d["sums"].files)
    /\ evidence.commit = commit
matching_release_evidence(evidence, d, commit) ==
    /\ evidence # NoRelease
    /\ ~(evidence.where = "covered" /\ "signatures" \in DOMAIN d["sums"].files)
    /\ evidence.commit = commit /\ ~evidence.source_dirty

(* check_signed_release_tag in release mode. *)
check_signed_release_tag ==
    /\ tag = head
    /\ bundle_check(disk)
    /\ matching_release_evidence(release, disk, head)

Next ==
    \/ \E patch \in Patches : Edit(patch)
    \/ \E i \in 1..Len(TailOrder) : Start(TailOrder[i])
    \/ Refuse
    \/ WriteText_open \/ WriteText_close
    \/ Checksums_inputs \/ Checksums_artifacts \/ Checksums_tools \/ Checksums_build
    \/ RefreshPolicy \/ AtomicWrite \/ Kill
    \/ Commit \/ Checkout
    \/ SignRelease("covered") \/ SignRelease("outside")

Spec == Init /\ [][Next]_vars

-----------------------------------------------------------------------------
(***************************************************************************)
(* Properties                                                              *)
(***************************************************************************)
(* A checksum text describes one release: the policy it covers is the      *)
(* policy of the very tool sources it covers.  Files change while the      *)
(* generator reads them, and a live copy is not the copy that was hashed   *)
(* (build_outputs, validate_release_tool_call_policy).                     *)
BundleDescribesItself ==
    Whole(disk["sums"]) =>
        disk["sums"].files["policy"] = build_policy(disk["sums"].files)

(* What make release-checksums-check passes is current throughout: the     *)
(* notes, which record no digest of the manifest or the proof, say what    *)
(* the evidence says; the risk register and the lockfile's proof measure   *)
(* the ABI of the tree; the bundle covers exactly this tree; no tool that  *)
(* made it can load code outside the reviewed closure.                     *)
CheckedIsCurrent ==
    TailChecked(disk) =>
        /\ disk["notes"].readiness = Fact(disk, "evidence").readiness
        /\ disk["notes"].changelog = disk["changelog"]
        /\ disk["risk"].size = size_risk(Fact(disk, "abi").margin)
        /\ disk["lockfile"].digests["proof"].margin = Fact(disk, "abi").margin
        /\ disk["lockfile"].digests["proof"].manifest = disk["manifest"]
        /\ \A f \in COVERED : disk["sums"].files[f] = disk[f]
        /\ Fact(disk, "inventory").reference # NoReference =>
              disk["sums"].files["reference"] = Fact(disk, "inventory").reference
        /\ \A t \in Reviewed : Fact(disk, t).uses \cap {"loader", "exec", "reflection"} = {}

(* What the checks pass is one release, and today's. *)
BundleIsCurrent == BundleDescribesItself /\ CheckedIsCurrent

TailCurrent(d) ==
    /\ risk_check(d) /\ notes_check(d) /\ manifest_check(d) /\ proof_check(d)
    /\ lockfile_check(d) /\ bundle_check(d)

(* Two passes of the canonical tail settle it: when nothing interfered with *)
(* them, whatever was stale, truncated or split before is current.         *)
TwoPassesSettle == job = Idle /\ quiet = 2 * Len(TailOrder) => TailCurrent(disk)

(* One pass settles it: the documented tail order "keeps the dependency     *)
(* graph acyclic" and is all that is to be run after an input changed.     *)
TailConverges == job = Idle /\ quiet = Len(TailOrder) => TailCurrent(disk)

(* A tag the gate accepts in a clean tree is a tag whose bundle was signed: *)
(* the evidence names a commit, the gate reads the working tree, and the   *)
(* tree may have been edited, rebuilt or checked out in between.           *)
AcceptedBundleWasSigned ==
    check_signed_release_tag /\ disk = history[head] =>
        release.bundle = <<disk["sums"], disk["sums_json"]>>
=============================================================================
