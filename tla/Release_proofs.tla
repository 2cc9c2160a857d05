--------------------------- MODULE Release_proofs ----------------------------
(***************************************************************************)
(* The release tail: for every set of tools, every patch and every order   *)
(* of edits, kills and generators, what its checks pass is one release and *)
(* today's, two undisturbed passes settle it, and a signed tag that the    *)
(* gate accepts in a clean tree signed the bundle that is there.           *)
(* The release gate: for any requirements, documents, waivers and          *)
(* findings, what the gate, the reports and the checkers say of one tree.  *)
(***************************************************************************)
EXTENDS ReleaseBundle, ReleaseGate, FiniteSetTheorems, TLAPS

-----------------------------------------------------------------------------
(* The release tail.                                                       *)

Elements(s) == {s[i] : i \in DOMAIN s}

\* A tree holds every file.
Tree(d) == d = [f \in Files |-> d[f]]

\* A checksum text covers the policy of the very tool sources it covers.
Describes(d) ==
    Whole(d["sums"]) => d["sums"].files["policy"] = build_policy(d["sums"].files)

\* The tree once the writes still to come are made.
Finished(d, pending) ==
    [f \in Files |->
        IF pending # <<>> /\ pending[1][1] = f THEN pending[1][2]
        ELSE IF pending # <<>> /\ Len(pending) = 2 /\ pending[2][1] = f THEN pending[2][2]
        ELSE d[f]]
Pending == IF job = Idle THEN <<>> ELSE job.pending

-----------------------------------------------------------------------------
(* The generators.                                                         *)

DocumentTools == {"risk", "notes", "manifest", "proof", "lockfile"}
Documents == DocumentTools \cup {"notes_md"}

DocumentJob ==
    /\ job.tool \in DocumentTools
    /\ job = [tool |-> job.tool, pending |-> job.pending, opened |-> job.opened]
    /\ \/ Len(job.pending) = 1 /\ job.pending = <<job.pending[1]>> /\ job.pending[1][1] \in Documents
       \/ /\ Len(job.pending) = 2 /\ job.pending = <<job.pending[1], job.pending[2]>>
          /\ job.pending[1][1] = "notes" /\ job.pending[2][1] = "notes_md"
PolicyJob ==
    /\ job.tool = "policy"
    /\ job = [tool |-> "policy", pending |-> job.pending] /\ quiet = 0
    /\ job.pending = <<job.pending[1]>> /\ job.pending[1][1] = "policy"

\* The files a checksum run has read once the release artifacts are read.
Seen == IF job.stage = "tools" THEN job.files \ Tools ELSE job.files
ChecksumJob ==
    /\ job.tool = "checksums"
    /\ job = [tool |-> "checksums", stage |-> job.stage, pending |-> job.pending,
              files |-> job.files, reference |-> job.reference, snap |-> job.snap]
    /\ job.stage \in {"artifacts", "tools", "build", "write"} /\ job.files \subseteq Files
    /\ job.stage # "write" => job.pending = <<>>
    /\ job.stage = "write" =>
          /\ \/ job.pending = <<<<"sums", build_sums(job.snap)>>,
                                <<"sums_json", build_sums_json(job.snap)>>>>
             \/ job.pending = <<<<"sums_json", build_sums_json(job.snap)>>>>
          /\ job.snap["policy"] = build_policy(job.snap)
    /\ quiet > 0 /\ job.stage # "write" =>
          /\ job.files = covered_files(disk) /\ inventory_valid(disk)
          /\ job.reference = Fact(disk, "inventory").reference
          /\ SnapshotReadable(job.snap)
          /\ IF job.stage = "artifacts" THEN DOMAIN job.snap = {}
             ELSE job.snap = [f \in Seen |-> disk[f]]
JobInv == job = Idle \/ DocumentJob \/ PolicyJob \/ ChecksumJob

-----------------------------------------------------------------------------
(* The passes.                                                             *)

\* How far two undisturbed passes have got: what is current after n steps of them, in tree d.
Settling(n, d) ==
    /\ n >= 1 => risk_ready(d) /\ d["risk"] = build_risk(d)
    /\ n >= 3 => d["manifest"].readiness = Fact(d, "evidence").readiness
    /\ n >= 8 => notes_check(d)
    /\ n >= 9 => manifest_check(d)
    /\ n >= 10 => proof_check(d)
    /\ n >= 11 => lockfile_check(d)
    /\ n >= 12 => bundle_check(d)

\* The steps whose outcome is settled: a checksum run has yet to build the last.
Steps == IF job # Idle /\ job.tool = "checksums" /\ job.stage # "write" /\ quiet = 12
         THEN 11 ELSE quiet

PassInv ==
    /\ at \in 0 .. 6 /\ quiet \in 0 .. 12
    /\ quiet \in 1 .. 11 => at % 6 = quiet % 6
    /\ Settling(Steps, Finished(disk, Pending))

-----------------------------------------------------------------------------
(* Commits and signatures.                                                 *)

TreeInv == Tree(disk) /\ Describes(disk)
HistoryInv ==
    /\ history \in Seq(Elements(history)) /\ history # <<>>
    /\ \A i \in 1 .. Len(history) : Tree(history[i]) /\ Describes(history[i])
ReleaseInv ==
    release # NoRelease =>
        /\ release.commit \in 1 .. Len(history)
        /\ ~release.source_dirty =>
              release.bundle = <<history[release.commit]["sums"], history[release.commit]["sums_json"]>>

BInv == TreeInv /\ JobInv /\ PassInv /\ HistoryInv /\ ReleaseInv

-----------------------------------------------------------------------------
(* Files.                                                                  *)

\* The names of the files.
LEMMA FileNames ==
    /\ Files = Sources \cup Outputs /\ Sources \cap Outputs = {}
    /\ Reviewed \subseteq Tools /\ Tools \subseteq Sources
    /\ Inputs \subseteq Sources /\ Tools \cap Inputs = {}
    /\ Inputs = {"changelog", "evidence", "abi", "status", "inventory", "reference", "signatures"}
    /\ Documents \cup {"policy", "sums", "sums_json"} = Outputs
BY BundleConstants DEF Files, Sources, Inputs, Outputs, Documents, DocumentTools

\* The files of a tree decide it.
LEMMA SameTree ==
    ASSUME NEW d, NEW e, Tree(d), Tree(e), \A f \in Files : e[f] = d[f]
    PROVE  e = d
<1>1. [f \in Files |-> d[f]] = [f \in Files |-> e[f]]
  OBVIOUS
<1> QED  BY <1>1 DEF Tree

\* With nothing to write the tree is finished; an empty file that will be written counts as
\* written; and a write that is made is one less to come.
LEMMA NothingToWrite ==
    ASSUME NEW d, Tree(d)
    PROVE  Finished(d, <<>>) = d
BY DEF Finished, Tree

LEMMA Opening ==
    ASSUME NEW d, Tree(d), NEW p, p # <<>>, NEW c,
           NEW e, e = [g \in Files |-> IF g = p[1][1] THEN c ELSE d[g]]
    PROVE  Finished(e, p) = Finished(d, p)
BY DEF Finished

LEMMA ClosingLast ==
    ASSUME NEW d, Tree(d), NEW a, NEW e, e = [g \in Files |-> IF g = a[1] THEN a[2] ELSE d[g]]
    PROVE  Finished(e, <<>>) = Finished(d, <<a>>)
<1>1. \A g \in Files : Finished(d, <<a>>)[g] = e[g]
  BY DEF Finished
<1>2. Tree(Finished(d, <<a>>)) /\ Tree(e)
  BY DEF Finished, Tree
<1> QED  BY <1>1, <1>2, SameTree, NothingToWrite

LEMMA ClosingFirst ==
    ASSUME NEW d, Tree(d), NEW a, NEW b, a[1] # b[1],
           NEW e, e = [g \in Files |-> IF g = a[1] THEN a[2] ELSE d[g]]
    PROVE  Finished(e, <<b>>) = Finished(d, <<a, b>>)
BY DEF Finished

\* A document is neither missing nor empty.
LEMMA DocumentsAreWhole ==
    ASSUME NEW d
    PROVE  /\ Whole(build_risk(d)) /\ Whole(build_notes(d)) /\ Whole(build_manifest(d))
           /\ Whole(build_proof(d)) /\ Whole(build_lockfile(d))
           /\ Whole(build_sums(d)) /\ Whole(build_sums_json(d))
BY DEF Whole, Absent, Truncated, build_risk, build_notes, build_manifest, build_proof,
       build_lockfile, build_sums, build_sums_json

-----------------------------------------------------------------------------
(* The policy of the tool sources.                                         *)

\* The policy is the one of the reviewed sources.
LEMMA PolicyOfTools ==
    ASSUME NEW d, NEW e, \A t \in Reviewed : e[t] = d[t]
    PROVE  build_policy(e) = build_policy(d)
<1>1. \A t \in Reviewed : policy_row(e, t) = policy_row(d, t)
  BY DEF policy_row, Fact
<1> QED  BY <1>1 DEF build_policy

\* Whether the inventory of the policy is exact is a matter of the sources alone.
LEMMA ExactOfTools ==
    ASSUME NEW d, NEW e, \A t \in Tools : e[t] = d[t], policy_inventory_exact(d)
    PROVE  policy_inventory_exact(e)
<1>1. \A t \in Tools : Fact(e, t) = Fact(d, t)
  BY DEF Fact
<1>2. Reviewed \subseteq Tools
  BY BundleConstants
<1>3. \A t \in Reviewed : row_accepted(Fact(e, t))
  BY <1>1, <1>2 DEF policy_inventory_exact
<1>4. [t \in Tools |-> IF t \in Reviewed THEN Fact(e, t).imports \cap Reviewed ELSE {}]
        = [t \in Tools |-> IF t \in Reviewed THEN Fact(d, t).imports \cap Reviewed ELSE {}]
  BY <1>1
<1>5. ClosureOf([t \in Tools |-> IF t \in Reviewed THEN Fact(e, t).imports \cap Reviewed ELSE {}])
        = Reviewed
  BY <1>4 DEF policy_inventory_exact
<1>6. /\ {Fact(e, t).external : t \in Reviewed} = {Fact(d, t).external : t \in Reviewed}
      /\ {Fact(e, t).values : t \in Reviewed} = {Fact(d, t).values : t \in Reviewed}
      /\ {Fact(e, t).shadows : t \in Reviewed} = {Fact(d, t).shadows : t \in Reviewed}
  BY <1>1, <1>2
<1>7. /\ UNION {Fact(e, t).external : t \in Reviewed} = External
      /\ UNION {Fact(e, t).values : t \in Reviewed} = Values
      /\ UNION {Fact(e, t).shadows : t \in Reviewed} = Shadows
  BY <1>6 DEF policy_inventory_exact
<1> QED  BY <1>3, <1>5, <1>7 DEF policy_inventory_exact

\* Trees with the same sources and the same policy agree on what the generators check of those.
LEMMA SameSources ==
    ASSUME NEW d, NEW e, \A f \in Files \ (Documents \cup {"sums", "sums_json"}) : e[f] = d[f]
    PROVE  /\ \A f \in Sources : e[f] = d[f] /\ Fact(e, f) = Fact(d, f)
           /\ e["policy"] = d["policy"]
           /\ policy_current(d) => policy_current(e)
           /\ inventory_valid(d) => inventory_valid(e)
           /\ risk_ready(d) => risk_ready(e)
<1>1. \A f \in Sources : e[f] = d[f] /\ Fact(e, f) = Fact(d, f)
  BY FileNames DEF Fact
<1>2. e["policy"] = d["policy"]
  BY FileNames DEF Documents, DocumentTools
<1>3. policy_current(d) => policy_current(e)
  BY <1>1, <1>2, FileNames, PolicyOfTools, ExactOfTools DEF policy_current
<1>4. inventory_valid(d) => inventory_valid(e)
  BY <1>1, FileNames DEF inventory_valid
<1>5. risk_ready(d) => risk_ready(e)
  BY <1>1, FileNames DEF risk_ready, live_size_mirrors
<1> QED  BY <1>1, <1>2, <1>3, <1>4, <1>5

-----------------------------------------------------------------------------
(* The documents, one step of a pass each.                                 *)

\* What a generator makes of a tree.
LEMMA WhatIsWritten ==
    ASSUME NEW d
    PROVE  /\ \A f \in Files : Finished(d, Written("risk", d))[f]
                                 = IF f = "risk" THEN build_risk(d) ELSE d[f]
           /\ \A f \in Files : Finished(d, Written("notes", d))[f]
                                 = IF f = "notes" THEN build_notes(d)
                                   ELSE IF f = "notes_md" THEN markdown(build_notes(d)) ELSE d[f]
           /\ \A f \in Files : Finished(d, Written("manifest", d))[f]
                                 = IF f = "manifest" THEN build_manifest(d) ELSE d[f]
           /\ \A f \in Files : Finished(d, Written("proof", d))[f]
                                 = IF f = "proof" THEN build_proof(d) ELSE d[f]
           /\ \A f \in Files : Finished(d, Written("lockfile", d))[f]
                                 = IF f = "lockfile" THEN build_lockfile(d) ELSE d[f]
<1>1. /\ Written("risk", d) = <<<<"risk", build_risk(d)>>>>
      /\ Written("notes", d) = <<<<"notes", build_notes(d)>>, <<"notes_md", markdown(build_notes(d))>>>>
      /\ Written("manifest", d) = <<<<"manifest", build_manifest(d)>>>>
      /\ Written("proof", d) = <<<<"proof", build_proof(d)>>>>
      /\ Written("lockfile", d) = <<<<"lockfile", build_lockfile(d)>>>>
  BY DEF Written
<1>2. ASSUME NEW n, NEW c
      PROVE  \A f \in Files : Finished(d, <<<<n, c>>>>)[f] = IF f = n THEN c ELSE d[f]
  BY DEF Finished
<1>3. ASSUME NEW n, NEW c, NEW m, NEW b
      PROVE  \A f \in Files : Finished(d, <<<<n, c>>, <<m, b>>>>)[f]
                                = IF f = n THEN c ELSE IF f = m THEN b ELSE d[f]
  BY DEF Finished
<1> QED  BY <1>1, <1>2, <1>3

\* A step of a third pass finds everything as it is and changes nothing.
LEMMA SettledStays ==
    ASSUME NEW d, Tree(d), Settling(12, d), NEW step \in DocumentTools
    PROVE  Finished(d, Written(step, d)) = d
<1> DEFINE e == Finished(d, Written(step, d))
<1>1. /\ d["risk"] = build_risk(d) /\ d["notes"] = build_notes(d)
      /\ d["notes_md"] = markdown(build_notes(d)) /\ d["manifest"] = build_manifest(d)
      /\ d["proof"] = build_proof(d) /\ d["lockfile"] = build_lockfile(d)
  BY DEF Settling, notes_check, manifest_check, proof_check, lockfile_check
<1>2. \A f \in Files : e[f] = d[f]
  BY <1>1, WhatIsWritten DEF DocumentTools
<1>3. Tree(e)
  BY DEF Finished, Tree
<1> QED  BY <1>2, <1>3, SameTree

\* The first step of a pass: the risk register measures the sources.
LEMMA RiskSettles ==
    ASSUME NEW d, Tree(d), risk_ready(d)
    PROVE  LET e == Finished(d, Written("risk", d))
           IN Settling(1, e) /\ (Settling(6, d) => Settling(7, e))
<1> DEFINE e == Finished(d, Written("risk", d))
<1>1. \A f \in Files : e[f] = IF f = "risk" THEN build_risk(d) ELSE d[f]
  BY WhatIsWritten
<1>2. /\ e["risk"] = build_risk(d) /\ e["manifest"] = d["manifest"]
      /\ \A f \in Files \ (Documents \cup {"sums", "sums_json"}) : e[f] = d[f]
  BY <1>1, FileNames DEF Documents, DocumentTools
<1> HIDE DEF e
<1>3. risk_ready(e) /\ \A f \in Sources : e[f] = d[f] /\ Fact(e, f) = Fact(d, f)
  BY <1>2, SameSources
<1>4. build_risk(e) = build_risk(d) /\ Fact(e, "evidence") = Fact(d, "evidence")
  BY <1>3, FileNames DEF build_risk
<1>5. Settling(1, e)
  BY <1>2, <1>3, <1>4 DEF Settling
<1>6. Settling(6, d) => Settling(7, e)
  BY <1>2, <1>3, <1>4 DEF Settling
<1> QED  BY <1>5, <1>6 DEF e

\* The notes project the manifest, stale in a first pass and settled in a second.
LEMMA NotesSettle ==
    ASSUME NEW d, Tree(d), notes_ready(d)
    PROVE  LET e == Finished(d, Written("notes", d))
           IN (Settling(1, d) => Settling(2, e)) /\ (Settling(7, d) => Settling(8, e))
<1> DEFINE e == Finished(d, Written("notes", d))
<1>1. \A f \in Files : e[f] = IF f = "notes" THEN build_notes(d)
                              ELSE IF f = "notes_md" THEN markdown(build_notes(d)) ELSE d[f]
  BY WhatIsWritten
<1>2. /\ e["notes"] = build_notes(d) /\ e["notes_md"] = markdown(build_notes(d))
      /\ e["risk"] = d["risk"] /\ e["manifest"] = d["manifest"] /\ e["proof"] = d["proof"]
      /\ \A f \in Files \ (Documents \cup {"sums", "sums_json"}) : e[f] = d[f]
  BY <1>1, FileNames DEF Documents, DocumentTools
<1> HIDE DEF e
<1>3. /\ \A f \in Sources : e[f] = d[f] /\ Fact(e, f) = Fact(d, f)
      /\ risk_ready(d) => risk_ready(e)
  BY <1>2, SameSources
<1>4. build_risk(e) = build_risk(d) /\ Fact(e, "evidence") = Fact(d, "evidence")
  BY <1>3, FileNames DEF build_risk
<1>5. Settling(1, d) => Settling(2, e)
  BY <1>2, <1>3, <1>4 DEF Settling
<1>6. build_notes(e) = build_notes(d) /\ notes_ready(e)
  BY <1>2, <1>3, FileNames DEF build_notes, notes_ready
<1>7. notes_check(e)
  BY <1>2, <1>6 DEF notes_check
<1>8. Settling(7, d) => Settling(8, e)
  BY <1>2, <1>3, <1>4, <1>7 DEF Settling
<1> QED  BY <1>5, <1>8 DEF e

\* The manifest takes the readiness from the evidence: the notes of a second pass stay current.
LEMMA ManifestSettles ==
    ASSUME NEW d, Tree(d), manifest_ready(d)
    PROVE  LET e == Finished(d, Written("manifest", d))
           IN (Settling(2, d) => Settling(3, e)) /\ (Settling(8, d) => Settling(9, e))
<1> DEFINE e == Finished(d, Written("manifest", d))
<1>1. \A f \in Files : e[f] = IF f = "manifest" THEN build_manifest(d) ELSE d[f]
  BY WhatIsWritten
<1>2. /\ e["manifest"] = build_manifest(d)
      /\ e["notes"] = d["notes"] /\ e["notes_md"] = d["notes_md"]
      /\ e["risk"] = d["risk"] /\ e["proof"] = d["proof"]
      /\ \A f \in Files \ (Documents \cup {"sums", "sums_json"}) : e[f] = d[f]
  BY <1>1, FileNames DEF Documents, DocumentTools
<1> HIDE DEF e
<1>3. /\ \A f \in Sources : e[f] = d[f] /\ Fact(e, f) = Fact(d, f)
      /\ e["policy"] = d["policy"]
      /\ policy_current(d) => policy_current(e)
      /\ inventory_valid(d) => inventory_valid(e)
      /\ risk_ready(d) => risk_ready(e)
  BY <1>2, SameSources
<1>4. build_risk(e) = build_risk(d) /\ Fact(e, "evidence") = Fact(d, "evidence")
  BY <1>3, FileNames DEF build_risk
<1>5. e["manifest"].readiness = Fact(d, "evidence").readiness
  BY <1>2 DEF build_manifest
<1>6. Settling(2, d) => Settling(3, e)
  BY <1>2, <1>3, <1>4, <1>5 DEF Settling
<1>7. ASSUME Settling(8, d)
      PROVE  Settling(9, e)
  <2>1. notes_check(d) /\ d["manifest"].readiness = Fact(d, "evidence").readiness
    BY <1>7 DEF Settling
  <2>2. build_notes(e) = build_notes(d)
    BY <1>2, <1>3, <1>5, <2>1, FileNames DEF build_notes
  <2>3. notes_ready(e)
    BY <1>2, <2>1, DocumentsAreWhole DEF notes_check, notes_ready
  <2>4. notes_check(e)
    BY <1>2, <2>1, <2>2, <2>3 DEF notes_check
  <2>5. /\ e["changelog"] = d["changelog"] /\ e["evidence"] = d["evidence"] /\ e["abi"] = d["abi"]
        /\ e["inventory"] = d["inventory"] /\ e["signatures"] = d["signatures"]
        /\ e["status"] = d["status"]
    BY <1>3, FileNames
  <2>6. build_manifest(e) = build_manifest(d)
    <3>1. \A f \in {"notes", "notes_md", "risk", "evidence", "changelog", "abi",
                    "inventory", "policy", "signatures"} : e[f] = d[f]
      BY <1>2, <1>3, <2>5
    <3> QED  BY <1>4, <3>1 DEF build_manifest
  <2>7. manifest_ready(e)
    BY <1>2, <1>3, <2>5 DEF manifest_ready, risk_register_valid
  <2>8. manifest_check(e)
    BY <1>2, <2>6, <2>7 DEF manifest_check
  <2> QED  BY <1>2, <1>3, <1>4, <1>5, <1>7, <2>4, <2>8 DEF Settling
<1> QED  BY <1>6, <1>7 DEF e

\* The proof binds the manifest and the ABI.
LEMMA ProofSettles ==
    ASSUME NEW d, Tree(d), proof_ready(d)
    PROVE  LET e == Finished(d, Written("proof", d))
           IN (Settling(3, d) => Settling(4, e)) /\ (Settling(9, d) => Settling(10, e))
<1> DEFINE e == Finished(d, Written("proof", d))
<1>1. \A f \in Files : e[f] = IF f = "proof" THEN build_proof(d) ELSE d[f]
  BY WhatIsWritten
<1>2. /\ e["proof"] = build_proof(d) /\ e["manifest"] = d["manifest"]
      /\ e["notes"] = d["notes"] /\ e["notes_md"] = d["notes_md"] /\ e["risk"] = d["risk"]
      /\ \A f \in Files \ (Documents \cup {"sums", "sums_json"}) : e[f] = d[f]
  BY <1>1, FileNames DEF Documents, DocumentTools
<1> HIDE DEF e
<1>3. /\ \A f \in Sources : e[f] = d[f] /\ Fact(e, f) = Fact(d, f)
      /\ e["policy"] = d["policy"]
      /\ policy_current(d) => policy_current(e)
      /\ inventory_valid(d) => inventory_valid(e)
      /\ risk_ready(d) => risk_ready(e)
  BY <1>2, SameSources
<1>4. build_risk(e) = build_risk(d) /\ Fact(e, "evidence") = Fact(d, "evidence")
  BY <1>3, FileNames DEF build_risk
<1>5. Settling(3, d) => Settling(4, e)
  BY <1>2, <1>3, <1>4 DEF Settling
<1>6. ASSUME Settling(9, d)
      PROVE  Settling(10, e)
  <2>1. notes_check(d) /\ manifest_check(d)
    BY <1>6 DEF Settling
  <2>2. /\ e["changelog"] = d["changelog"] /\ e["evidence"] = d["evidence"] /\ e["abi"] = d["abi"]
        /\ e["inventory"] = d["inventory"] /\ e["signatures"] = d["signatures"]
        /\ e["status"] = d["status"] /\ Fact(e, "abi") = Fact(d, "abi")
    BY <1>3, FileNames
  <2>3. notes_check(e)
    BY <1>2, <2>1, <2>2, DocumentsAreWhole DEF notes_check, notes_ready, build_notes
  <2>4. build_manifest(e) = build_manifest(d)
    <3>1. \A f \in {"notes", "notes_md", "risk", "evidence", "changelog", "abi",
                    "inventory", "policy", "signatures"} : e[f] = d[f]
      BY <1>2, <1>3, <2>2
    <3> QED  BY <1>4, <3>1 DEF build_manifest
  <2>5. manifest_check(e)
    BY <1>2, <1>3, <2>1, <2>2, <2>4 DEF manifest_check, manifest_ready, risk_register_valid
  <2>6. proof_check(e)
    BY <1>2, <2>2 DEF proof_check, proof_ready, build_proof
  <2> QED  BY <1>2, <1>3, <1>4, <1>6, <2>3, <2>5, <2>6 DEF Settling
<1> QED  BY <1>5, <1>6 DEF e

\* The lockfile records them all, and nothing but the checksums reads it.
LEMMA LockfileSettles ==
    ASSUME NEW d, Tree(d), lockfile_ready(d)
    PROVE  LET e == Finished(d, Written("lockfile", d))
           IN (Settling(4, d) => Settling(5, e)) /\ (Settling(10, d) => Settling(11, e))
<1> DEFINE e == Finished(d, Written("lockfile", d))
<1>1. \A f \in Files : e[f] = IF f = "lockfile" THEN build_lockfile(d) ELSE d[f]
  BY WhatIsWritten
<1>2. /\ e["lockfile"] = build_lockfile(d) /\ e["proof"] = d["proof"] /\ e["manifest"] = d["manifest"]
      /\ e["notes"] = d["notes"] /\ e["notes_md"] = d["notes_md"] /\ e["risk"] = d["risk"]
      /\ \A f \in Files \ (Documents \cup {"sums", "sums_json"}) : e[f] = d[f]
  BY <1>1, FileNames DEF Documents, DocumentTools
<1> HIDE DEF e
<1>3. /\ \A f \in Sources : e[f] = d[f] /\ Fact(e, f) = Fact(d, f)
      /\ e["policy"] = d["policy"]
      /\ policy_current(d) => policy_current(e)
      /\ inventory_valid(d) => inventory_valid(e)
      /\ risk_ready(d) => risk_ready(e)
  BY <1>2, SameSources
<1>4. build_risk(e) = build_risk(d) /\ Fact(e, "evidence") = Fact(d, "evidence")
  BY <1>3, FileNames DEF build_risk
<1>5. Settling(4, d) => Settling(5, e)
  BY <1>2, <1>3, <1>4 DEF Settling
<1>6. ASSUME Settling(10, d)
      PROVE  Settling(11, e)
  <2>1. notes_check(d) /\ manifest_check(d) /\ proof_check(d)
    BY <1>6 DEF Settling
  <2>2. /\ e["changelog"] = d["changelog"] /\ e["evidence"] = d["evidence"] /\ e["abi"] = d["abi"]
        /\ e["inventory"] = d["inventory"] /\ e["signatures"] = d["signatures"]
        /\ e["status"] = d["status"] /\ Fact(e, "abi") = Fact(d, "abi")
    BY <1>3, FileNames
  <2>3. notes_check(e)
    BY <1>2, <2>1, <2>2 DEF notes_check, notes_ready, build_notes
  <2>4. build_manifest(e) = build_manifest(d)
    <3>1. \A f \in {"notes", "notes_md", "risk", "evidence", "changelog", "abi",
                    "inventory", "policy", "signatures"} : e[f] = d[f]
      BY <1>2, <1>3, <2>2
    <3> QED  BY <1>4, <3>1 DEF build_manifest
  <2>5. manifest_check(e)
    BY <1>2, <1>3, <2>1, <2>2, <2>4 DEF manifest_check, manifest_ready, risk_register_valid
  <2>6. proof_check(e)
    BY <1>2, <2>1, <2>2 DEF proof_check, proof_ready, build_proof
  <2>7. build_lockfile(e) = build_lockfile(d)
    <3>1. \A f \in {"manifest", "proof", "evidence", "risk", "inventory", "policy",
                    "notes", "notes_md", "signatures"} : e[f] = d[f]
      BY <1>2, <1>3, <2>2
    <3> QED  BY <3>1 DEF build_lockfile
  <2>8. lockfile_check(e)
    BY <1>2, <1>3, <2>7 DEF lockfile_check, lockfile_ready
  <2> QED  BY <1>2, <1>3, <1>4, <1>6, <2>3, <2>5, <2>6, <2>8 DEF Settling
<1> QED  BY <1>5, <1>6 DEF e

-----------------------------------------------------------------------------
(* Counting undisturbed steps.                                             *)

\* A step in its place counts once the steps before it did; any other starts the count again,
\* and two passes are counted no further.
LEMMA StepsCount ==
    ASSUME at \in 0 .. 6, quiet \in 0 .. 12, quiet \in 1 .. 11 => at % 6 = quiet % 6,
           NEW p \in 1 .. 6, Run(TailOrder[p], TailOrder)
    PROVE  /\ at' = p /\ quiet' \in 0 .. 12
           /\ \/ quiet' = 0
              \/ quiet = 12 /\ quiet' = 12
              \/ quiet \in {p - 1, p + 5} /\ quiet' = quiet + 1
           /\ quiet' \in 1 .. 11 => at' % 6 = quiet' % 6
<1> USE DEF TailOrder
<1>1. Len(TailOrder) = 6
  OBVIOUS
<1>2. \A i, j \in 1 .. 6 : TailOrder[i] = TailOrder[j] => i = j
  OBVIOUS
<1> DEFINE inOrder == TailOrder[(at % 6) + 1] = TailOrder[p]
<1>3. /\ at' = CHOOSE i \in 1 .. 6 : TailOrder[i] = TailOrder[p]
      /\ IF inOrder
         THEN quiet' = IF quiet = 12 THEN quiet
                       ELSE IF quiet % 6 = at % 6 THEN quiet + 1 ELSE quiet
         ELSE quiet' = 0
  BY <1>1 DEF Run
<1> USE DEF TailOrder
<1>4. at' = p
  BY <1>2, <1>3
<1>5. inOrder => at % 6 = p - 1
  <2>1. at % 6 \in 0 .. 5
    OBVIOUS
  <2> QED  BY <1>2, <2>1
<1> HIDE DEF inOrder, TailOrder
<1>6. CASE ~inOrder
  BY <1>3, <1>4, <1>6
<1>7. CASE inOrder /\ quiet = 12
  BY <1>3, <1>4, <1>7
<1>8. CASE inOrder /\ quiet # 12 /\ quiet % 6 = at % 6
  <2>1. quiet \in 0 .. 11 /\ quiet % 6 = p - 1 /\ quiet' = quiet + 1
    BY <1>3, <1>5, <1>8
  <2>2. quiet \in {p - 1, p + 5}
    BY <2>1
  <2>3. quiet' % 6 = p % 6
    BY <2>1, <2>2
  <2> QED  BY <1>4, <2>1, <2>2, <2>3
<1>9. CASE inOrder /\ quiet # 12 /\ quiet % 6 # at % 6
  <2>1. quiet = 0 /\ quiet' = 0
    BY <1>3, <1>9
  <2> QED  BY <1>4, <2>1
<1> QED  BY <1>6, <1>7, <1>8, <1>9

\* After every interruption the count starts again and nothing is claimed.
LEMMA Interrupted ==
    ASSUME quiet' = 0, at' \in 0 .. 6
    PROVE  PassInv'
BY DEF PassInv, Steps, Settling

-----------------------------------------------------------------------------
(* Checksums.                                                              *)

\* The tree that a checksum run that read it undisturbed makes of it passes the bundle's check.
LEMMA BundleOfTheTree ==
    ASSUME NEW d, Tree(d), inventory_valid(d),
           NEW snap, snap = [f \in covered_files(d) |-> d[f]], SnapshotReadable(snap),
           snapshot_accepted(snap, Fact(d, "inventory").reference, d),
           NEW e, Tree(e), e["sums"] = build_sums(snap), e["sums_json"] = build_sums_json(snap),
           \A f \in Files \ {"sums", "sums_json"} : e[f] = d[f]
    PROVE  bundle_check(e)
<1>1. inventory_valid(e) /\ Fact(e, "inventory") = Fact(d, "inventory")
  <2>1. \A f \in Files \ (Documents \cup {"sums", "sums_json"}) : e[f] = d[f]
    OBVIOUS
  <2> QED  BY <2>1, SameSources, FileNames
<1>2. covered_files(e) = covered_files(d)
  BY <1>1 DEF covered_files
<1>3. \A f \in covered_files(d) : f \in Files \ {"sums", "sums_json"}
  BY FileNames DEF covered_files, COVERED, Outputs
<1>4. [f \in covered_files(e) |-> e[f]] = snap
  BY <1>2, <1>3
<1>5. Whole(e["sums"]) /\ Whole(e["sums_json"])
  BY DocumentsAreWhole
<1>6. verify_committed(e)
  <2>1. e["sums"].files = snap
    BY DEF build_sums
  <2> QED  BY <1>3, <2>1 DEF verify_committed
<1>7. snapshot_accepted(snap, Fact(e, "inventory").reference, e)
  BY <1>1 DEF snapshot_accepted
<1> HIDE DEF build_sums
<1> QED  BY <1>1, <1>4, <1>5, <1>6, <1>7 DEF bundle_check

\* New checksums leave every document as current as it was.
LEMMA ChecksumsKeepDocuments ==
    ASSUME NEW d, NEW e, \A f \in Files \ {"sums", "sums_json"} : e[f] = d[f],
           NEW n \in 0 .. 12, Settling(n, d), n = 12 => bundle_check(e)
    PROVE  Settling(n, e)
<1>1. /\ e["lockfile"] = d["lockfile"] /\ e["proof"] = d["proof"] /\ e["manifest"] = d["manifest"]
      /\ e["notes"] = d["notes"] /\ e["notes_md"] = d["notes_md"] /\ e["risk"] = d["risk"]
      /\ \A f \in Files \ (Documents \cup {"sums", "sums_json"}) : e[f] = d[f]
  BY FileNames DEF Documents, DocumentTools
<1>2. /\ \A f \in Sources : e[f] = d[f] /\ Fact(e, f) = Fact(d, f)
      /\ e["policy"] = d["policy"]
      /\ policy_current(d) => policy_current(e)
      /\ inventory_valid(d) => inventory_valid(e)
      /\ risk_ready(d) => risk_ready(e)
  BY <1>1, SameSources
<1>3. /\ e["changelog"] = d["changelog"] /\ e["evidence"] = d["evidence"] /\ e["abi"] = d["abi"]
      /\ e["inventory"] = d["inventory"] /\ e["signatures"] = d["signatures"]
      /\ e["status"] = d["status"] /\ Fact(e, "abi") = Fact(d, "abi")
      /\ Fact(e, "evidence") = Fact(d, "evidence")
  BY <1>2, FileNames
<1>4. build_risk(e) = build_risk(d)
  BY <1>3 DEF build_risk
<1>5. notes_check(d) => notes_check(e)
  BY <1>1, <1>3 DEF notes_check, notes_ready, build_notes
<1>6. build_manifest(e) = build_manifest(d)
  <2>1. \A f \in {"notes", "notes_md", "risk", "evidence", "changelog", "abi",
                  "inventory", "policy", "signatures"} : e[f] = d[f]
    BY <1>1, <1>2, <1>3
  <2> QED  BY <1>3, <2>1 DEF build_manifest
<1>7. manifest_check(d) => manifest_check(e)
  BY <1>1, <1>2, <1>3, <1>6 DEF manifest_check, manifest_ready, risk_register_valid
<1>8. proof_check(d) => proof_check(e)
  BY <1>1, <1>3 DEF proof_check, proof_ready, build_proof
<1>9. build_lockfile(e) = build_lockfile(d)
  <2>1. \A f \in {"manifest", "proof", "evidence", "risk", "inventory", "policy",
                  "notes", "notes_md", "signatures"} : e[f] = d[f]
    BY <1>1, <1>2, <1>3
  <2> QED  BY <2>1 DEF build_lockfile
<1>10. lockfile_check(d) => lockfile_check(e)
  BY <1>1, <1>2, <1>9 DEF lockfile_check, lockfile_ready
<1> QED  BY <1>1, <1>2, <1>3, <1>4, <1>5, <1>7, <1>8, <1>10 DEF Settling

\* Fewer steps claim less.
LEMMA SettlingLess ==
    ASSUME NEW n \in 0 .. 12, NEW m \in 0 .. 12, m <= n, NEW d, Settling(n, d)
    PROVE  Settling(m, d)
BY DEF Settling

-----------------------------------------------------------------------------
(* Steps.                                                                  *)

\* The tree that the first commit holds: current from end to end.
LEMMA SettledTree == Tree(Settled) /\ Describes(Settled)
<1> DEFINE base == [f \in Files |-> IF f \in Sources THEN Initial[f] ELSE Absent]
           d0 == [base EXCEPT !["policy"] = build_policy(base), !["risk"] = build_risk(base),
                              !["manifest"] = [readiness |-> Fact(base, "evidence").readiness]]
           d1 == [d0 EXCEPT !["notes"] = build_notes(d0), !["notes_md"] = markdown(build_notes(d0))]
           d2 == [d1 EXCEPT !["manifest"] = build_manifest(d1)]
           d3 == [d2 EXCEPT !["proof"] = build_proof(d2)]
           d4 == [d3 EXCEPT !["lockfile"] = build_lockfile(d3)]
           snap == [f \in covered_files(d4) |-> d4[f]]
           d5 == [d4 EXCEPT !["sums"] = build_sums(snap), !["sums_json"] = build_sums_json(snap)]
<1>1. Settled = d5
  BY DEF Settled
<1>2. DOMAIN base = Files
  OBVIOUS
<1>3. DOMAIN d0 = Files /\ d0["policy"] = build_policy(base) /\ \A t \in Tools : d0[t] = base[t]
  BY <1>2, FileNames DEF Outputs
<1> HIDE DEF base, d0
<1>4. DOMAIN d1 = Files /\ d1["policy"] = build_policy(base) /\ \A t \in Tools : d1[t] = base[t]
  BY <1>3, FileNames DEF Outputs
<1> HIDE DEF d1
<1>5. DOMAIN d2 = Files /\ d2["policy"] = build_policy(base) /\ \A t \in Tools : d2[t] = base[t]
  BY <1>4, FileNames DEF Outputs
<1> HIDE DEF d2
<1>6. DOMAIN d3 = Files /\ d3["policy"] = build_policy(base) /\ \A t \in Tools : d3[t] = base[t]
  BY <1>5, FileNames DEF Outputs
<1> HIDE DEF d3
<1>7. DOMAIN d4 = Files /\ d4["policy"] = build_policy(base) /\ \A t \in Tools : d4[t] = base[t]
  BY <1>6, FileNames DEF Outputs
<1>8. d4 = [f \in Files |-> d4[f]]
  BY <1>6
<1> HIDE DEF d4
<1>9. /\ "policy" \in covered_files(d4) /\ Reviewed \subseteq covered_files(d4)
  BY FileNames DEF covered_files, COVERED, Outputs
<1>10. snap["policy"] = build_policy(base) /\ \A t \in Reviewed : snap[t] = base[t]
  BY <1>7, <1>9, FileNames
<1>11. build_policy(snap) = build_policy(base)
  BY <1>10, PolicyOfTools
<1>12. Tree(d5) /\ d5["sums"] = build_sums(snap)
  <2> HIDE DEF snap
  <2>1. d5 = [f \in Files |-> IF f = "sums_json" THEN build_sums_json(snap)
                              ELSE IF f = "sums" THEN build_sums(snap) ELSE d4[f]]
    BY <1>7
  <2> HIDE DEF d5
  <2>2. "sums" \in Files
    BY FileNames DEF Outputs
  <2>3. d5 = [f \in Files |-> d5[f]]
    BY <2>1
  <2> QED  BY <2>1, <2>2, <2>3 DEF Tree
<1> HIDE DEF snap, d5
<1>13. Describes(d5)
  BY <1>10, <1>11, <1>12 DEF Describes, build_sums
<1> QED  BY <1>1, <1>12, <1>13

\* The invariant holds of the first commit.
LEMMA BundleInit == Init => BInv
<1> SUFFICES ASSUME Init
             PROVE  BInv
  OBVIOUS
<1>1. TreeInv
  BY SettledTree DEF Init, TreeInv
<1>2. JobInv
  BY DEF Init, JobInv
<1>3. PassInv
  BY DEF Init, PassInv, Steps, Settling
<1>4. HistoryInv
  BY SettledTree DEF Init, HistoryInv, Elements
<1>5. ReleaseInv
  BY DEF Init, ReleaseInv
<1> QED  BY <1>1, <1>2, <1>3, <1>4, <1>5 DEF BInv

\* A run under way is none the worse for an interruption, which is seen in its count.
LEMMA JobWaits ==
    ASSUME JobInv, job' = job, quiet' = 0
    PROVE  JobInv'
BY DEF JobInv, DocumentJob, PolicyJob, ChecksumJob, Seen

\* What is committed and signed stays while nothing is committed or signed.
LEMMA RecordsWait ==
    ASSUME HistoryInv, ReleaseInv, UNCHANGED <<history, release>>
    PROVE  HistoryInv' /\ ReleaseInv'
BY DEF HistoryInv, ReleaseInv, Elements

\* With no run under way the pass is what the tree shows.
LEMMA BetweenRuns ==
    ASSUME TreeInv, PassInv, job = Idle
    PROVE  Settling(quiet, disk)
<1>1. Finished(disk, Pending) = disk
  BY NothingToWrite DEF TreeInv, Pending
<1> QED  BY <1>1 DEF PassInv, Steps

\* A developer's edit.
LEMMA EditKept ==
    ASSUME BInv, NEW patch \in Patches, Edit(patch)
    PROVE  BInv'
<1>1. TreeInv'
  <2>1. "sums" \notin DOMAIN patch /\ "sums" \in Files
    BY BundleConstants, FileNames DEF Outputs
  <2>2. disk' = [f \in Files |-> IF f \in DOMAIN patch THEN patch[f] ELSE disk[f]]
    BY DEF Edit
  <2>3. Tree(disk') /\ disk'["sums"] = disk["sums"]
    BY <2>1, <2>2 DEF Tree
  <2> QED  BY <2>3 DEF BInv, TreeInv, Describes
<1>2. JobInv'
  BY JobWaits DEF Edit, BInv
<1>3. PassInv'
  BY Interrupted DEF Edit, BInv, PassInv
<1> QED  BY <1>1, <1>2, <1>3, RecordsWait DEF BInv, Edit

\* A generator that reads its inputs and goes on to write.
LEMMA StartKept ==
    ASSUME BInv, NEW p \in 1 .. 6, Start(TailOrder[p])
    PROVE  BInv'
<1> DEFINE step == TailOrder[p]
           e == Finished(disk, Written(step, disk))
<1>1. /\ p \in 1 .. 5 /\ step \in DocumentTools
      /\ step = CASE p = 1 -> "risk" [] p = 2 -> "notes" [] p = 3 -> "manifest"
                  [] p = 4 -> "proof" [] p = 5 -> "lockfile"
  BY DEF Start, TailOrder, DocumentTools
<1>2. /\ job = Idle /\ Ready(step, disk) /\ Run(step, TailOrder) /\ disk' = disk
      /\ job' = [tool |-> step, pending |-> Written(step, disk), opened |-> FALSE]
      /\ UNCHANGED <<history, release>>
  BY DEF Start
<1>3. /\ at' = p /\ quiet' \in 0 .. 12
      /\ \/ quiet' = 0
         \/ quiet = 12 /\ quiet' = 12
         \/ quiet \in {p - 1, p + 5} /\ quiet' = quiet + 1
      /\ quiet' \in 1 .. 11 => at' % 6 = quiet' % 6
  BY <1>2, StepsCount DEF BInv, PassInv
<1>4. Settling(quiet, disk) /\ Tree(disk)
  BY <1>2, BetweenRuns DEF BInv, TreeInv
<1>5. Settling(quiet', e)
  <2>1. CASE quiet' = 0
    BY <2>1 DEF Settling
  <2>2. CASE quiet = 12 /\ quiet' = 12
    BY <1>1, <1>4, <2>2, SettledStays
  <2>3. CASE quiet \in {p - 1, p + 5} /\ quiet' = quiet + 1
    <3>1. CASE p = 1
      <4>1. step = "risk" /\ risk_ready(disk)
        BY <1>1, <1>2, <3>1 DEF Ready
      <4> QED  BY <1>4, <2>3, <3>1, <4>1, RiskSettles
    <3>2. CASE p = 2
      <4>1. step = "notes" /\ notes_ready(disk)
        BY <1>1, <1>2, <3>2 DEF Ready
      <4> QED  BY <1>4, <2>3, <3>2, <4>1, NotesSettle
    <3>3. CASE p = 3
      <4>1. step = "manifest" /\ manifest_ready(disk)
        BY <1>1, <1>2, <3>3 DEF Ready
      <4> QED  BY <1>4, <2>3, <3>3, <4>1, ManifestSettles
    <3>4. CASE p = 4
      <4>1. step = "proof" /\ proof_ready(disk)
        BY <1>1, <1>2, <3>4 DEF Ready
      <4> QED  BY <1>4, <2>3, <3>4, <4>1, ProofSettles
    <3>5. CASE p = 5
      <4>1. step = "lockfile" /\ lockfile_ready(disk)
        BY <1>1, <1>2, <3>5 DEF Ready
      <4> QED  BY <1>4, <2>3, <3>5, <4>1, LockfileSettles
    <3> QED  BY <1>1, <3>1, <3>2, <3>3, <3>4, <3>5
  <2> QED  BY <1>3, <2>1, <2>2, <2>3
<1> HIDE DEF e
<1>6. PassInv'
  <2>1. /\ job' # Idle /\ job'.tool # "checksums" /\ Pending' = Written(step, disk)
    BY <1>1, <1>2 DEF Pending, Idle, DocumentTools
  <2>2. Steps' = quiet'
    BY <2>1 DEF Steps
  <2>3. Finished(disk, Pending)' = e
    BY <1>2, <2>1 DEF e
  <2> QED  BY <1>1, <1>3, <1>5, <2>2, <2>3 DEF PassInv
<1>7. JobInv'
  <2>1. ASSUME NEW a, Written(step, disk) = <<a>>, a[1] \in Documents
        PROVE  DocumentJob'
    <3>1. /\ job' = [tool |-> job'.tool, pending |-> job'.pending, opened |-> job'.opened]
          /\ job'.tool \in DocumentTools /\ job'.pending = <<a>>
      BY <1>1, <1>2, <2>1
    <3>2. Len(job'.pending) = 1 /\ job'.pending[1] = a
      BY <3>1
    <3> QED  BY <2>1, <3>1, <3>2 DEF DocumentJob
  <2>2. ASSUME NEW a, NEW b, Written(step, disk) = <<a, b>>, a[1] = "notes", b[1] = "notes_md"
        PROVE  DocumentJob'
    <3>1. /\ job' = [tool |-> job'.tool, pending |-> job'.pending, opened |-> job'.opened]
          /\ job'.tool \in DocumentTools /\ job'.pending = <<a, b>>
      BY <1>1, <1>2, <2>2
    <3>2. Len(job'.pending) = 2 /\ job'.pending[1] = a /\ job'.pending[2] = b
      BY <3>1
    <3> QED  BY <2>2, <3>1, <3>2 DEF DocumentJob
  <2>3. \/ \E a : Written(step, disk) = <<a>> /\ a[1] \in Documents
        \/ \E a, b : Written(step, disk) = <<a, b>> /\ a[1] = "notes" /\ b[1] = "notes_md"
    BY <1>1 DEF Written, Documents, DocumentTools
  <2> QED  BY <2>1, <2>2, <2>3 DEF JobInv
<1> QED  BY <1>2, <1>6, <1>7, RecordsWait DEF BInv, TreeInv

\* A generator that refuses, and a run that is killed.
LEMMA StopKept ==
    ASSUME BInv, Refuse \/ Kill
    PROVE  BInv'
<1>1. UNCHANGED <<disk, history, release>> /\ at' = 0 /\ quiet' = 0 /\ (job' = job \/ job' = Idle)
  BY DEF Refuse, Kill, Stops
<1>2. JobInv'
  BY <1>1, JobWaits DEF BInv, JobInv
<1>3. PassInv'
  BY <1>1, Interrupted
<1> QED  BY <1>1, <1>2, <1>3, RecordsWait DEF BInv, TreeInv

\* A document job's next write: of one document, or of the notes and then their rendering.
LEMMA NextWrite ==
    ASSUME JobInv, Writing(DocumentTools)
    PROVE  /\ DocumentJob /\ Pending = job.pending /\ Steps = quiet
           /\ job.pending[1][1] \in Documents /\ job.pending # <<>>
           /\ \/ Len(job.pending) = 1 /\ job.pending = <<job.pending[1]>>
              \/ /\ Len(job.pending) = 2 /\ job.pending = <<job.pending[1], job.pending[2]>>
                 /\ job.pending[1][1] # job.pending[2][1] /\ job.pending[2][1] \in Documents
<1>1. job.tool \in DocumentTools /\ job # Idle
  BY DEF Writing, Idle, DocumentTools
<1>2. DocumentJob
  BY <1>1 DEF JobInv, PolicyJob, ChecksumJob, DocumentTools
<1>3. Steps = quiet /\ Pending = job.pending
  BY <1>1 DEF Steps, Pending, DocumentTools
<1>4. job.pending # <<>>
  BY DEF Writing
<1>5. CASE Len(job.pending) = 1 /\ job.pending = <<job.pending[1]>> /\ job.pending[1][1] \in Documents
  BY <1>2, <1>3, <1>4, <1>5
<1>6. CASE /\ Len(job.pending) = 2 /\ job.pending = <<job.pending[1], job.pending[2]>>
           /\ job.pending[1][1] = "notes" /\ job.pending[2][1] = "notes_md"
  <2>1. job.pending[1][1] \in Documents /\ job.pending[2][1] \in Documents
    BY <1>6 DEF Documents, DocumentTools
  <2> QED  BY <1>2, <1>3, <1>4, <1>6, <2>1
<1>7. \/ Len(job.pending) = 1 /\ job.pending = <<job.pending[1]>> /\ job.pending[1][1] \in Documents
      \/ /\ Len(job.pending) = 2 /\ job.pending = <<job.pending[1], job.pending[2]>>
         /\ job.pending[1][1] = "notes" /\ job.pending[2][1] = "notes_md"
  BY <1>2 DEF DocumentJob
<1> QED  BY <1>5, <1>6, <1>7

\* An output is opened, which empties it.
LEMMA OpenKept ==
    ASSUME BInv, WriteText_open
    PROVE  BInv'
<1>1. /\ Writing(DocumentTools)
      /\ disk' = [g \in Files |-> IF g = job.pending[1][1] THEN Truncated ELSE disk[g]]
      /\ job' = [job EXCEPT !.opened = TRUE]
      /\ UNCHANGED <<at, history, release, quiet>>
  BY DEF WriteText_open, DocumentTools, BInv, TreeInv, Tree
<1>2. /\ DocumentJob /\ Pending = job.pending /\ Steps = quiet
      /\ job.pending[1][1] \in Documents /\ job.pending # <<>>
  BY <1>1, NextWrite DEF BInv
<1>3. /\ job' = [tool |-> job.tool, pending |-> job.pending, opened |-> TRUE]
      /\ job.tool \in DocumentTools
  BY <1>1, <1>2 DEF DocumentJob
<1>4. JobInv'
  BY <1>2, <1>3 DEF JobInv, DocumentJob
<1>5. TreeInv'
  <2>1. Tree(disk') /\ \A g \in Files : disk'[g] = IF g = job.pending[1][1] THEN Truncated ELSE disk[g]
    BY <1>1 DEF Tree
  <2>2. disk'["sums"] = disk["sums"]
    BY <1>2, <2>1, FileNames DEF Documents, DocumentTools, Outputs
  <2> QED  BY <2>1, <2>2 DEF BInv, TreeInv, Describes
<1>6. PassInv'
  <2>1. Finished(disk', job.pending) = Finished(disk, job.pending)
    BY <1>1, <1>2, Opening DEF BInv, TreeInv
  <2>2. Pending' = job.pending /\ Steps' = quiet
    BY <1>1, <1>3 DEF Pending, Steps, Idle, DocumentTools
  <2>3. Finished(disk, Pending)' = Finished(disk, Pending)
    BY <1>2, <2>1, <2>2
  <2> QED  BY <1>1, <1>2, <2>2, <2>3 DEF BInv, PassInv
<1> QED  BY <1>1, <1>4, <1>5, <1>6, RecordsWait DEF BInv

\* An output is written.
LEMMA CloseKept ==
    ASSUME BInv, WriteText_close
    PROVE  BInv'
<1> DEFINE a == job.pending[1]
           b == job.pending[2]
<1>1. /\ Writing(DocumentTools)
      /\ disk' = [g \in Files |-> IF g = a[1] THEN a[2] ELSE disk[g]]
      /\ job' = IF Len(job.pending) = 1 THEN Idle
                ELSE [job EXCEPT !.pending = Tail(job.pending), !.opened = FALSE]
      /\ UNCHANGED <<at, history, release, quiet>>
  BY DEF WriteText_close, Remaining, DocumentTools, BInv, TreeInv, Tree
<1>2. /\ DocumentJob /\ Pending = job.pending /\ Steps = quiet
      /\ a[1] \in Documents
      /\ \/ Len(job.pending) = 1 /\ job.pending = <<a>>
         \/ /\ Len(job.pending) = 2 /\ job.pending = <<a, b>> /\ a[1] # b[1] /\ b[1] \in Documents
  BY <1>1, NextWrite DEF BInv
<1>3. TreeInv'
  <2>1. Tree(disk') /\ \A g \in Files : disk'[g] = IF g = a[1] THEN a[2] ELSE disk[g]
    BY <1>1 DEF Tree
  <2>2. disk'["sums"] = disk["sums"]
    BY <1>2, <2>1, FileNames DEF Documents, DocumentTools, Outputs
  <2> QED  BY <2>1, <2>2 DEF BInv, TreeInv, Describes
<1>4. CASE job.pending = <<a>>
  <2>1. job' = Idle
    BY <1>1, <1>4
  <2>2. Finished(disk', <<>>) = Finished(disk, Pending)
    BY <1>1, <1>2, <1>4, ClosingLast DEF BInv, TreeInv
  <2>3. Pending' = <<>> /\ Steps' = quiet
    BY <1>1, <2>1 DEF Pending, Steps
  <2>4. Finished(disk, Pending)' = Finished(disk, Pending)
    BY <2>2, <2>3
  <2>5. PassInv'
    BY <1>1, <1>2, <2>3, <2>4 DEF BInv, PassInv
  <2> QED  BY <1>1, <1>3, <2>1, <2>5, RecordsWait DEF BInv, JobInv
<1>5. CASE job.pending = <<a, b>> /\ a[1] # b[1] /\ b[1] \in Documents
  <2>1. Len(job.pending) = 2 /\ Tail(job.pending) = <<b>>
    <3>1. Tail(<<a, b>>) = <<b>> /\ Len(<<a, b>>) = 2
      OBVIOUS
    <3> HIDE DEF a, b
    <3> QED  BY <1>5, <3>1
  <2>2. /\ job' = [tool |-> job.tool, pending |-> <<b>>, opened |-> FALSE]
        /\ job.tool \in DocumentTools
    <3>1. job' = [job EXCEPT !.pending = Tail(job.pending), !.opened = FALSE]
      BY <1>1, <2>1
    <3> HIDE DEF a, b
    <3>2. job' = [job EXCEPT !.pending = <<b>>, !.opened = FALSE]
      BY <2>1, <3>1
    <3> QED  BY <1>2, <3>2 DEF DocumentJob
  <2> HIDE DEF a, b
  <2>3. JobInv'
    <3>1. job'.pending = <<b>> /\ Len(job'.pending) = 1 /\ job'.pending[1] = b
      BY <2>2
    <3> QED  BY <1>5, <2>2, <3>1 DEF JobInv, DocumentJob
  <2>4. Finished(disk', <<b>>) = Finished(disk, Pending)
    BY <1>1, <1>2, <1>5, ClosingFirst DEF BInv, TreeInv
  <2>5. Pending' = <<b>> /\ Steps' = quiet
    <3>1. job'.tool \in DocumentTools /\ job'.pending = <<b>>
      BY <2>2
    <3>2. job' # Idle /\ job'.tool # "checksums"
      BY <3>1 DEF Idle, DocumentTools
    <3> QED  BY <1>1, <3>1, <3>2 DEF Pending, Steps
  <2>6. Finished(disk, Pending)' = Finished(disk, Pending)
    BY <2>4, <2>5
  <2>7. PassInv'
    BY <1>1, <1>2, <2>5, <2>6 DEF BInv, PassInv
  <2> QED  BY <1>1, <1>3, <2>3, <2>7, RecordsWait DEF BInv
<1> QED  BY <1>2, <1>4, <1>5

\* The policy, or a file of the checksum bundle, takes the place of the old one.
LEMMA ReplaceKept ==
    ASSUME BInv, AtomicWrite
    PROVE  BInv'
<1> DEFINE a == job.pending[1]
<1>1. /\ job.tool \in {"checksums", "policy"} /\ job.pending # <<>>
      /\ disk' = [g \in Files |-> IF g = a[1] THEN a[2] ELSE disk[g]]
      /\ job' = IF Len(job.pending) = 1 THEN Idle ELSE [job EXCEPT !.pending = Tail(job.pending)]
      /\ UNCHANGED <<at, history, release, quiet>>
  BY DEF AtomicWrite, Writing, BInv, TreeInv, Tree
<1>2. Tree(disk') /\ \A g \in Files : disk'[g] = IF g = a[1] THEN a[2] ELSE disk[g]
  BY <1>1 DEF Tree
<1>3. CASE PolicyJob
  <2>1. job' = Idle /\ quiet' = 0 /\ a[1] = "policy"
    <3>1. job.pending = <<a>> /\ quiet = 0 /\ a[1] = "policy"
      BY <1>3 DEF PolicyJob
    <3>2. Len(job.pending) = 1
      <4> HIDE DEF a
      <4> QED  BY <3>1
    <3> QED  BY <1>1, <3>1, <3>2
  <2>2. TreeInv'
    BY <1>2, <2>1, FileNames DEF BInv, TreeInv, Describes, Outputs
  <2>3. PassInv'
    BY <1>1, <2>1, Interrupted DEF BInv, PassInv
  <2> QED  BY <1>1, <2>1, <2>2, <2>3, RecordsWait DEF BInv, JobInv
<1>4. CASE ChecksumJob
  <2> DEFINE text == <<"sums", build_sums(job.snap)>>
             json == <<"sums_json", build_sums_json(job.snap)>>
  <2>1. /\ job.tool = "checksums" /\ job.stage = "write"
        /\ job.pending = <<text, json>> \/ job.pending = <<json>>
        /\ job.snap["policy"] = build_policy(job.snap)
    BY <1>1, <1>4 DEF ChecksumJob
  <2>2. Pending = job.pending /\ Steps = quiet
    BY <2>1 DEF Pending, Steps, Idle
  <2>3. TreeInv'
    <3>1. CASE a[1] = "sums" /\ a[2] = build_sums(job.snap)
      <4>1. disk'["sums"].files = job.snap
        BY <1>2, <3>1, FileNames DEF Outputs, build_sums
      <4> QED  BY <1>2, <2>1, <4>1 DEF TreeInv, Describes
    <3>2. CASE a[1] = "sums_json"
      BY <1>2, <3>2, FileNames DEF BInv, TreeInv, Describes, Outputs
    <3>3. \/ a[1] = "sums" /\ a[2] = build_sums(job.snap)
          \/ a[1] = "sums_json"
      BY <2>1
    <3> QED  BY <3>1, <3>2, <3>3
  <2>4. CASE job.pending = <<json>>
    <3>1. a = json /\ Len(job.pending) = 1
      BY <2>4
    <3>2. job' = Idle
      BY <1>1, <3>1
    <3> HIDE DEF json
    <3>3. Finished(disk', <<>>) = Finished(disk, Pending)
      BY <1>1, <2>2, <2>4, <3>1, ClosingLast DEF BInv, TreeInv
    <3>4. Pending' = <<>> /\ Steps' = quiet
      BY <1>1, <3>2 DEF Pending, Steps
    <3>5. Finished(disk, Pending)' = Finished(disk, Pending)
      BY <3>3, <3>4
    <3>6. PassInv'
      BY <1>1, <2>2, <3>4, <3>5 DEF BInv, PassInv
    <3> QED  BY <1>1, <2>3, <3>2, <3>6, RecordsWait DEF BInv, JobInv
  <2>5. CASE job.pending = <<text, json>>
    <3>1. a = text /\ Len(job.pending) = 2 /\ Tail(job.pending) = <<json>> /\ text[1] # json[1]
      BY <2>5
    <3>2. job' = [job EXCEPT !.pending = <<json>>]
      <4>1. job' = [job EXCEPT !.pending = Tail(job.pending)]
        BY <1>1, <3>1
      <4> HIDE DEF a, text, json
      <4> QED  BY <3>1, <4>1
    <3>3. job' = [tool |-> "checksums", stage |-> "write", pending |-> <<json>>, files |-> job.files,
                  reference |-> job.reference, snap |-> job.snap]
      BY <1>4, <2>1, <3>2 DEF ChecksumJob
    <3>4. JobInv'
      <4>1. /\ job'.tool = "checksums" /\ job'.stage = "write" /\ job'.files \subseteq Files
            /\ job'.pending = <<<<"sums_json", build_sums_json(job'.snap)>>>>
            /\ job'.snap["policy"] = build_policy(job'.snap)
        BY <1>4, <2>1, <3>3 DEF ChecksumJob
      <4> HIDE DEF a, text, json
      <4>2. job' = [tool |-> "checksums", stage |-> job'.stage, pending |-> job'.pending,
                    files |-> job'.files, reference |-> job'.reference, snap |-> job'.snap]
        BY <3>3
      <4> QED  BY <4>1, <4>2 DEF JobInv, ChecksumJob
    <3> HIDE DEF text, json
    <3>5. Finished(disk', <<json>>) = Finished(disk, Pending)
      BY <1>1, <2>2, <2>5, <3>1, ClosingFirst DEF BInv, TreeInv
    <3>6. Pending' = <<json>> /\ Steps' = quiet
      <4>1. job'.tool = "checksums" /\ job'.stage = "write" /\ job'.pending = <<json>>
        BY <3>3
      <4>2. job' # Idle
        BY <4>1 DEF Idle
      <4> QED  BY <1>1, <4>1, <4>2 DEF Pending, Steps
    <3>7. Finished(disk, Pending)' = Finished(disk, Pending)
      BY <3>5, <3>6
    <3>8. PassInv'
      BY <1>1, <2>2, <3>6, <3>7 DEF BInv, PassInv
    <3> QED  BY <1>1, <2>3, <3>4, <3>8, RecordsWait DEF BInv
  <2> QED  BY <2>1, <2>4, <2>5
<1>5. PolicyJob \/ ChecksumJob
  BY <1>1 DEF BInv, JobInv, DocumentJob, DocumentTools, Idle
<1> QED  BY <1>3, <1>4, <1>5


\* A checksum run lists the files it will cover.
LEMMA InputsKept ==
    ASSUME BInv, Checksums_inputs
    PROVE  BInv'
<1>1. /\ job = Idle /\ inventory_valid(disk) /\ UNCHANGED <<disk, history, release>>
      /\ job' = [tool |-> "checksums", stage |-> "artifacts", pending |-> <<>>,
                 files |-> covered_files(disk),
                 reference |-> Fact(disk, "inventory").reference, snap |-> <<>>]
      /\ Run(TailOrder[6], TailOrder)
  BY DEF Checksums_inputs, TailOrder
<1>2. /\ at' = 6 /\ quiet' \in 0 .. 12
      /\ \/ quiet' = 0
         \/ quiet = 12 /\ quiet' = 12
         \/ quiet \in {5, 11} /\ quiet' = quiet + 1
      /\ quiet' \in 1 .. 11 => at' % 6 = quiet' % 6
  BY <1>1, StepsCount DEF BInv, PassInv
<1>3. Settling(quiet, disk) /\ Tree(disk)
  BY <1>1, BetweenRuns DEF BInv, TreeInv
<1>4. /\ job'.tool = "checksums" /\ job'.stage = "artifacts" /\ job'.pending = <<>>
      /\ job'.files = covered_files(disk) /\ job'.reference = Fact(disk, "inventory").reference
      /\ job'.snap = <<>>
  BY <1>1
<1>5. job' # Idle
  BY <1>4 DEF Idle
<1>6. PassInv'
  <2>1. Pending' = <<>> /\ Steps' = IF quiet' = 12 THEN 11 ELSE quiet'
    BY <1>4, <1>5 DEF Pending, Steps
  <2>2. Finished(disk, Pending)' = disk
    BY <1>1, <1>3, <2>1, NothingToWrite
  <2>3. Settling(IF quiet' = 12 THEN 11 ELSE quiet', disk)
    <3>1. CASE quiet' = 0
      BY <3>1 DEF Settling
    <3>2. CASE quiet = 12 /\ quiet' = 12
      BY <1>3, <3>2, SettlingLess
    <3>3. CASE quiet = 5 /\ quiet' = 6
      BY <1>3, <3>3 DEF Settling
    <3>4. CASE quiet = 11 /\ quiet' = 12
      BY <1>3, <3>4
    <3> QED  BY <1>2, <3>1, <3>2, <3>3, <3>4
  <2>4. Settling(Steps', Finished(disk, Pending)')
    BY <2>1, <2>2, <2>3
  <2>5. at' \in 0 .. 6
    BY <1>2
  <2> QED  BY <1>2, <2>4, <2>5 DEF PassInv
<1>7. JobInv'
  <2>1. DOMAIN job'.snap = {} /\ SnapshotReadable(job'.snap)
    BY <1>4 DEF SnapshotReadable
  <2>2. covered_files(disk) \subseteq Files
    BY FileNames DEF covered_files, COVERED
  <2>3. job' = [tool |-> "checksums", stage |-> job'.stage, pending |-> job'.pending,
                files |-> job'.files, reference |-> job'.reference, snap |-> job'.snap]
    BY <1>1
  <2> QED  BY <1>1, <1>4, <2>1, <2>2, <2>3 DEF JobInv, ChecksumJob
<1> QED  BY <1>1, <1>6, <1>7, RecordsWait DEF BInv, TreeInv

\* It reads them, the release artifacts before the tools; what an undisturbed run has read is
\* what is there.
LEMMA ReadKept ==
    ASSUME BInv, NEW part, NEW stage, NEW next, Checksums_read(part, stage, next),
           \/ part = Files \ Tools /\ stage = "artifacts" /\ next = "tools"
           \/ part = Tools /\ stage = "tools" /\ next = "build"
    PROVE  BInv'
<1> DEFINE read == [f \in part \cap job.files |-> disk[f]]
           more == [f \in DOMAIN job.snap \cup DOMAIN read |->
                      IF f \in DOMAIN read THEN read[f] ELSE job.snap[f]]
<1>1. /\ job.tool = "checksums" /\ job.stage = stage /\ UNCHANGED <<disk, history, release>>
      /\ IF SnapshotReadable(read)
         THEN job' = [job EXCEPT !.stage = next, !.snap = more] /\ UNCHANGED <<at, quiet>>
         ELSE job' = Idle /\ at' = 0 /\ quiet' = 0
  BY DEF Checksums_read, Stops
<1>2. ChecksumJob /\ job # Idle
  BY <1>1 DEF BInv, JobInv, DocumentJob, PolicyJob, DocumentTools, Idle
<1>3. CASE ~SnapshotReadable(read)
  <2>1. job' = Idle /\ at' = 0 /\ quiet' = 0
    BY <1>1, <1>3
  <2> QED  BY <1>1, <2>1, Interrupted, RecordsWait DEF BInv, TreeInv, JobInv
<1>4. CASE SnapshotReadable(read)
  <2> HIDE DEF more
  <2>1. job' = [tool |-> "checksums", stage |-> next, pending |-> <<>>, files |-> job.files,
                reference |-> job.reference, snap |-> more]
    BY <1>1, <1>2, <1>4 DEF ChecksumJob
  <2>2. /\ job'.tool = "checksums" /\ job'.stage = next /\ job'.pending = <<>>
        /\ job'.files = job.files /\ job'.reference = job.reference /\ job'.snap = more
        /\ UNCHANGED <<at, quiet>>
    BY <1>1, <1>4, <2>1
  <2>3. job' # Idle /\ job.pending = <<>>
    BY <1>1, <1>2, <2>2 DEF Idle, ChecksumJob
  <2>4. PassInv'
    <3>1. Pending' = Pending /\ Steps' = Steps
      BY <1>1, <1>2, <2>2, <2>3 DEF Pending, Steps
    <3>2. Finished(disk, Pending)' = Finished(disk, Pending)
      BY <1>1, <3>1
    <3> QED  BY <2>2, <3>1, <3>2 DEF BInv, PassInv
  <2>5. ASSUME quiet > 0
        PROVE  /\ more = [f \in (IF next = "tools" THEN job.files \ Tools ELSE job.files) |-> disk[f]]
               /\ SnapshotReadable(more)
    <3>1. /\ job.files \subseteq Files /\ SnapshotReadable(job.snap)
          /\ IF job.stage = "artifacts" THEN DOMAIN job.snap = {}
             ELSE job.snap = [f \in Seen |-> disk[f]]
      BY <1>1, <1>2, <2>5 DEF ChecksumJob
    <3>2. SnapshotReadable(more)
      BY <1>4, <3>1 DEF SnapshotReadable, more, Fact
    <3>3. CASE stage = "artifacts"
      <4>1. DOMAIN job.snap = {} /\ part \cap job.files = job.files \ Tools /\ next = "tools"
        BY <1>1, <3>1, <3>3
      <4> QED  BY <3>2, <4>1 DEF more
    <3>4. CASE stage = "tools"
      <4>1. job.snap = [f \in job.files \ Tools |-> disk[f]] /\ part = Tools /\ next = "build"
        BY <1>1, <3>1, <3>4 DEF Seen
      <4>2. (job.files \ Tools) \cup (Tools \cap job.files) = job.files
        OBVIOUS
      <4>3. DOMAIN job.snap = job.files \ Tools /\ \A f \in job.files \ Tools : job.snap[f] = disk[f]
        BY <4>1
      <4>4. more = [f \in job.files |-> disk[f]]
        BY <4>1, <4>2, <4>3 DEF more
      <4> QED  BY <3>2, <4>1, <4>4
    <3> QED  BY <3>3, <3>4
  <2>6. JobInv'
    <3>1. next \in {"tools", "build"} /\ job.stage # "write"
      BY <1>1
    <3>2. job' = [tool |-> "checksums", stage |-> job'.stage, pending |-> job'.pending,
                  files |-> job'.files, reference |-> job'.reference, snap |-> job'.snap]
      BY <2>1, <2>2
    <3>3. quiet' > 0 =>
            /\ job'.files = covered_files(disk') /\ inventory_valid(disk')
            /\ job'.reference = Fact(disk', "inventory").reference
            /\ SnapshotReadable(job'.snap)
            /\ job'.snap = [f \in Seen' |-> disk'[f]]
      BY <1>1, <1>2, <2>2, <2>5, <3>1 DEF ChecksumJob, Seen
    <3> QED  BY <1>2, <2>2, <3>1, <3>2, <3>3 DEF JobInv, ChecksumJob
  <2> QED  BY <1>1, <2>4, <2>6, RecordsWait DEF BInv, TreeInv
<1> QED  BY <1>3, <1>4

\* It builds the bundle of what it read: if nothing interfered, the bundle of the tree.
LEMMA BuildKept ==
    ASSUME BInv, Checksums_build
    PROVE  BInv'
<1> DEFINE text == <<"sums", build_sums(job.snap)>>
           json == <<"sums_json", build_sums_json(job.snap)>>
           e == Finished(disk, <<text, json>>)
<1>1. /\ job.tool = "checksums" /\ job.stage = "build" /\ UNCHANGED <<disk, history, release>>
      /\ IF snapshot_accepted(job.snap, job.reference, disk)
         THEN job' = [job EXCEPT !.stage = "write", !.pending = <<text, json>>]
              /\ UNCHANGED <<at, quiet>>
         ELSE job' = Idle /\ at' = 0 /\ quiet' = 0
  BY DEF Checksums_build, Stops
<1>2. ChecksumJob /\ job # Idle
  BY <1>1 DEF BInv, JobInv, DocumentJob, PolicyJob, DocumentTools, Idle
<1>3. CASE ~snapshot_accepted(job.snap, job.reference, disk)
  <2>1. job' = Idle /\ at' = 0 /\ quiet' = 0
    BY <1>1, <1>3
  <2> QED  BY <1>1, <2>1, Interrupted, RecordsWait DEF BInv, TreeInv, JobInv
<1>4. CASE snapshot_accepted(job.snap, job.reference, disk)
  <2>1. job' = [tool |-> "checksums", stage |-> "write", pending |-> <<text, json>>,
                files |-> job.files, reference |-> job.reference, snap |-> job.snap]
    BY <1>1, <1>2, <1>4 DEF ChecksumJob
  <2>2. /\ job'.tool = "checksums" /\ job'.stage = "write" /\ job'.pending = <<text, json>>
        /\ job'.files = job.files /\ job'.reference = job.reference /\ job'.snap = job.snap
        /\ UNCHANGED <<at, quiet>>
    BY <1>1, <1>4, <2>1
  <2>3. JobInv'
    <3>1. job.snap["policy"] = build_policy(job.snap) /\ job.files \subseteq Files
      BY <1>2, <1>4 DEF snapshot_accepted, policy_current, ChecksumJob
    <3>2. job'.pending = <<<<"sums", build_sums(job'.snap)>>, <<"sums_json", build_sums_json(job'.snap)>>>>
      BY <2>2
    <3> HIDE DEF text, json
    <3>3. job' = [tool |-> "checksums", stage |-> job'.stage, pending |-> job'.pending,
                  files |-> job'.files, reference |-> job'.reference, snap |-> job'.snap]
      BY <2>1, <2>2
    <3> QED  BY <2>2, <3>1, <3>2, <3>3 DEF JobInv, ChecksumJob
  <2>4. Pending' = <<text, json>> /\ Steps' = quiet /\ Pending = <<>>
    <3>1. job' # Idle
      BY <2>2 DEF Idle
    <3>2. job.pending = <<>>
      BY <1>1, <1>2 DEF ChecksumJob
    <3> QED  BY <1>2, <2>2, <3>1, <3>2 DEF Pending, Steps
  <2>5. /\ e["sums"] = build_sums(job.snap) /\ e["sums_json"] = build_sums_json(job.snap)
        /\ \A f \in Files \ {"sums", "sums_json"} : e[f] = disk[f]
        /\ Tree(e)
    BY FileNames DEF Finished, Tree, Outputs
  <2> HIDE DEF text, json, e
  <2>6. Settling(quiet, e)
    <3>1. CASE quiet = 0
      BY <3>1 DEF Settling
    <3>2. CASE quiet > 0
      <4>1. /\ job.files = covered_files(disk) /\ inventory_valid(disk)
            /\ job.reference = Fact(disk, "inventory").reference
            /\ SnapshotReadable(job.snap) /\ job.snap = [f \in covered_files(disk) |-> disk[f]]
        BY <1>1, <1>2, <3>2 DEF ChecksumJob, Seen
      <4>2. Tree(disk) /\ Finished(disk, Pending) = disk
        BY <2>4, NothingToWrite DEF BInv, TreeInv
      <4>3. bundle_check(e)
        BY <1>4, <2>5, <4>1, <4>2, BundleOfTheTree
      <4>4. CASE quiet = 12
        <5>1. Settling(11, disk)
          BY <1>1, <1>2, <4>2, <4>4 DEF BInv, PassInv, Steps
        <5>2. Settling(11, e)
          BY <2>5, <5>1, ChecksumsKeepDocuments
        <5> QED  BY <4>3, <4>4, <5>2 DEF Settling
      <4>5. CASE quiet # 12
        <5>1. quiet \in 0 .. 12 /\ Settling(quiet, disk)
          BY <1>1, <1>2, <4>2, <4>5 DEF BInv, PassInv, Steps
        <5> QED  BY <2>5, <4>5, <5>1, ChecksumsKeepDocuments
      <4> QED  BY <4>4, <4>5
    <3> QED  BY <3>1, <3>2 DEF BInv, PassInv
  <2>7. Finished(disk, Pending)' = e
    BY <1>1, <2>4 DEF e
  <2>8. PassInv'
    BY <2>2, <2>4, <2>6, <2>7 DEF BInv, PassInv
  <2> QED  BY <1>1, <2>3, <2>8, RecordsWait DEF BInv, TreeInv
<1> QED  BY <1>3, <1>4

\* The policy of the tools is built anew; commits, checkouts and signatures.
LEMMA RefreshKept ==
    ASSUME BInv, RefreshPolicy
    PROVE  BInv'
<1> DEFINE a == <<"policy", build_policy(disk)>>
<1>1. /\ job' = [tool |-> "policy", pending |-> <<a>>] /\ quiet' = 0
      /\ UNCHANGED <<disk, at, history, release>>
  BY DEF RefreshPolicy
<1>2. JobInv'
  <2>1. a[1] = "policy"
    OBVIOUS
  <2> HIDE DEF a
  <2>2. job'.tool = "policy" /\ job'.pending = <<a>> /\ job'.pending[1] = a
    BY <1>1
  <2> QED  BY <1>1, <2>1, <2>2 DEF JobInv, PolicyJob
<1>3. PassInv'
  BY <1>1, Interrupted DEF BInv, PassInv
<1> QED  BY <1>1, <1>2, <1>3, RecordsWait DEF BInv, TreeInv

LEMMA CommitKept ==
    ASSUME BInv, Commit
    PROVE  BInv'
<1>1. history' = Append(history, disk) /\ UNCHANGED <<disk, job, at, release, quiet>>
  BY DEF Commit
<1>2. history \in Seq(Elements(history)) /\ Len(history) \in Nat /\ history # <<>>
  BY DEF BInv, HistoryInv
<1>3. /\ Len(history') = Len(history) + 1
      /\ \A i \in 1 .. Len(history) : history'[i] = history[i]
      /\ history'[Len(history) + 1] = disk
      /\ DOMAIN history' = 1 .. Len(history) + 1 /\ history' # <<>>
  <2> DEFINE A == Elements(history) \cup {disk}
  <2>1. history \in Seq(A) /\ disk \in A
    BY <1>2
  <2> HIDE DEF A
  <2> QED  BY <1>1, <2>1
<1>4. history' \in Seq(Elements(history'))
  <2>1. Elements(history') = Elements(history) \cup {disk}
    <3>1. DOMAIN history = 1 .. Len(history)
      BY <1>2
    <3> QED  BY <1>2, <1>3, <3>1 DEF Elements
  <2> DEFINE A == Elements(history) \cup {disk}
  <2>2. history \in Seq(A) /\ disk \in A
    BY <1>2
  <2>3. history' \in Seq(A)
    <3> HIDE DEF A
    <3> QED  BY <1>1, <2>2
  <2> QED  BY <2>1, <2>3
<1>5. HistoryInv'
  <2>1. \A i \in 1 .. Len(history') : Tree(history'[i]) /\ Describes(history'[i])
    <3>1. ASSUME NEW i \in 1 .. Len(history')
          PROVE  Tree(history'[i]) /\ Describes(history'[i])
      <4>1. CASE i \in 1 .. Len(history)
        BY <1>3, <4>1 DEF BInv, HistoryInv
      <4>2. CASE i = Len(history) + 1
        BY <1>3, <4>2 DEF BInv, TreeInv
      <4> QED  BY <1>2, <1>3, <4>1, <4>2
    <3> QED  BY <3>1
  <2> QED  BY <1>3, <1>4, <2>1 DEF HistoryInv
<1>6. ReleaseInv'
  BY <1>1, <1>2, <1>3 DEF BInv, ReleaseInv
<1>7. TreeInv' /\ JobInv' /\ PassInv'
  <2>1. TreeInv'
    BY <1>1 DEF BInv, TreeInv
  <2>2. JobInv'
    BY <1>1 DEF BInv, JobInv, DocumentJob, PolicyJob, ChecksumJob, Seen
  <2>3. Finished(disk, Pending)' = Finished(disk, Pending) /\ Steps' = Steps
    BY <1>1 DEF Pending, Steps
  <2> QED  BY <1>1, <2>1, <2>2, <2>3 DEF BInv, PassInv
<1> QED  BY <1>5, <1>6, <1>7 DEF BInv

\* The last commit is among the commits.
LEMMA HeadIsACommit ==
    ASSUME HistoryInv
    PROVE  head \in 1 .. Len(history) /\ Tree(history[head]) /\ Describes(history[head])
<1>1. Len(history) \in Nat /\ Len(history) # 0
  BY DEF HistoryInv
<1> QED  BY <1>1 DEF HistoryInv, head

LEMMA CheckoutKept ==
    ASSUME BInv, Checkout
    PROVE  BInv'
<1>1. disk' = history[head] /\ quiet' = 0 /\ UNCHANGED <<job, at, history, release>>
  BY DEF Checkout
<1>2. TreeInv'
  BY <1>1, HeadIsACommit DEF BInv, TreeInv
<1>3. JobInv'
  BY <1>1, JobWaits DEF BInv
<1>4. PassInv'
  BY <1>1, Interrupted DEF BInv, PassInv
<1> QED  BY <1>1, <1>2, <1>3, <1>4, RecordsWait DEF BInv

LEMMA SignKept ==
    ASSUME BInv, NEW where, SignRelease(where)
    PROVE  BInv'
<1>1. /\ job = Idle /\ UNCHANGED <<job, at, history>>
      /\ release' = [commit |-> head, source_dirty |-> disk # history[head], where |-> where,
                     bundle |-> <<disk["sums"], disk["sums_json"]>>]
      /\ IF where = "covered"
         THEN disk' = [disk EXCEPT !["signatures"] = "signature"] /\ quiet' = 0
         ELSE UNCHANGED <<disk, quiet>>
  BY DEF SignRelease, BetweenPasses
<1>2. ReleaseInv'
  <2>1. /\ release'.commit = head /\ release'.source_dirty = (disk # history[head])
        /\ release'.bundle = <<disk["sums"], disk["sums_json"]>>
    BY <1>1
  <2>2. head \in 1 .. Len(history')
    BY <1>1, HeadIsACommit DEF BInv
  <2> QED  BY <1>1, <2>1, <2>2 DEF ReleaseInv
<1>3. HistoryInv'
  BY <1>1 DEF BInv, HistoryInv, Elements
<1>4. JobInv'
  BY <1>1 DEF JobInv
<1>5. CASE where = "covered"
  <2>1. /\ disk' = [g \in Files |-> IF g = "signatures" THEN "signature" ELSE disk[g]]
        /\ quiet' = 0
    BY <1>1, <1>5 DEF BInv, TreeInv, Tree
  <2>2. TreeInv'
    <3>1. Tree(disk') /\ disk'["sums"] = disk["sums"]
      BY <2>1, FileNames DEF Tree, Outputs
    <3> QED  BY <3>1 DEF BInv, TreeInv, Describes
  <2>3. PassInv'
    BY <1>1, <2>1, Interrupted DEF BInv, PassInv
  <2> QED  BY <1>2, <1>3, <1>4, <2>2, <2>3 DEF BInv
<1>6. CASE where # "covered"
  <2>1. UNCHANGED <<disk, quiet>>
    BY <1>1, <1>6
  <2>2. Finished(disk, Pending)' = Finished(disk, Pending) /\ Steps' = Steps
    BY <1>1, <2>1 DEF Pending, Steps
  <2>3. TreeInv' /\ PassInv'
    BY <1>1, <2>1, <2>2 DEF BInv, TreeInv, PassInv
  <2> QED  BY <1>2, <1>3, <1>4, <2>3 DEF BInv
<1> QED  BY <1>5, <1>6

\* Every step keeps the invariant.
LEMMA BundleStep == BInv /\ [Next]_vars => BInv'
<1> SUFFICES ASSUME BInv, [Next]_vars
             PROVE  BInv'
  OBVIOUS
<1>1. CASE \E patch \in Patches : Edit(patch)
  BY <1>1, EditKept
<1>2. CASE \E i \in 1 .. Len(TailOrder) : Start(TailOrder[i])
  <2>1. Len(TailOrder) = 6
    BY DEF TailOrder
  <2> QED  BY <1>2, <2>1, StartKept
<1>3. CASE Refuse \/ Kill
  BY <1>3, StopKept
<1>4. CASE WriteText_open
  BY <1>4, OpenKept
<1>5. CASE WriteText_close
  BY <1>5, CloseKept
<1>6. CASE Checksums_inputs
  BY <1>6, InputsKept
<1>7. CASE Checksums_artifacts
  BY <1>7, ReadKept DEF Checksums_artifacts
<1>8. CASE Checksums_tools
  BY <1>8, ReadKept DEF Checksums_tools
<1>9. CASE Checksums_build
  BY <1>9, BuildKept
<1>10. CASE RefreshPolicy
  BY <1>10, RefreshKept
<1>11. CASE AtomicWrite
  BY <1>11, ReplaceKept
<1>12. CASE Commit
  BY <1>12, CommitKept
<1>13. CASE Checkout
  BY <1>13, CheckoutKept
<1>14. CASE SignRelease("covered") \/ SignRelease("outside")
  BY <1>14, SignKept
<1>15. CASE UNCHANGED vars
  <2>1. UNCHANGED <<disk, job, at, history, release, quiet>>
    BY <1>15 DEF vars
  <2>2. JobInv'
    BY <2>1 DEF BInv, JobInv, DocumentJob, PolicyJob, ChecksumJob, Seen
  <2>3. Finished(disk, Pending)' = Finished(disk, Pending) /\ Steps' = Steps
    BY <2>1 DEF Pending, Steps
  <2>4. TreeInv' /\ PassInv'
    BY <2>1, <2>3 DEF BInv, TreeInv, PassInv
  <2> QED  BY <2>1, <2>2, <2>4, RecordsWait DEF BInv
<1> QED
  BY <1>1, <1>2, <1>3, <1>4, <1>5, <1>6, <1>7, <1>8, <1>9, <1>10, <1>11, <1>12, <1>13, <1>14,
     <1>15 DEF Next

\* The invariant always holds.
LEMMA BundleAlways == Spec => []BInv
BY BundleInit, BundleStep, PTL DEF Spec

-----------------------------------------------------------------------------
(* What the checks pass is one release, and today's.                       *)

\* A tree that make release-checksums-check passes is current throughout, whatever tree it is.
LEMMA CheckedTreesAreCurrent == CheckedIsCurrent
<1> SUFFICES ASSUME TailChecked(disk)
             PROVE  /\ disk["notes"].readiness = Fact(disk, "evidence").readiness
                    /\ disk["notes"].changelog = disk["changelog"]
                    /\ disk["risk"].size = size_risk(Fact(disk, "abi").margin)
                    /\ disk["lockfile"].digests["proof"].margin = Fact(disk, "abi").margin
                    /\ disk["lockfile"].digests["proof"].manifest = disk["manifest"]
                    /\ \A f \in COVERED : disk["sums"].files[f] = disk[f]
                    /\ Fact(disk, "inventory").reference # NoReference =>
                          disk["sums"].files["reference"] = Fact(disk, "inventory").reference
                    /\ \A t \in Reviewed :
                          Fact(disk, t).uses \cap {"loader", "exec", "reflection"} = {}
  BY DEF CheckedIsCurrent
<1> DEFINE snap == [f \in covered_files(disk) |-> disk[f]]
<1>1. /\ risk_check(disk) /\ notes_check(disk) /\ manifest_check(disk) /\ proof_check(disk)
      /\ lockfile_check(disk) /\ focused_closure_test(disk) /\ bundle_check(disk)
  BY DEF TailChecked
<1>2. /\ disk["notes"].readiness = disk["manifest"].readiness
      /\ disk["notes"].changelog = disk["changelog"]
  BY <1>1 DEF notes_check, build_notes
<1>3. disk["manifest"].readiness = Fact(disk, "evidence").readiness
  BY <1>1 DEF manifest_check, build_manifest
<1>4. disk["risk"].size = size_risk(Fact(disk, "abi").margin)
  BY <1>1 DEF risk_check, build_risk
<1>5. disk["lockfile"].digests["proof"] = disk["proof"]
  BY <1>1 DEF lockfile_check, build_lockfile
<1>6. disk["proof"].margin = Fact(disk, "abi").margin /\ disk["proof"].manifest = disk["manifest"]
  BY <1>1 DEF proof_check, build_proof
<1>7. /\ disk["sums"].files = snap /\ disk["sums"] = build_sums(snap)
      /\ snap = [f \in covered_files(disk) |-> disk[f]]
      /\ snapshot_accepted(snap, Fact(disk, "inventory").reference, disk)
  BY <1>1 DEF bundle_check, build_sums
<1> HIDE DEF snap
<1>8. \A f \in COVERED : disk["sums"].files[f] = disk[f]
  BY <1>7 DEF covered_files
<1>9. Fact(disk, "inventory").reference # NoReference =>
        disk["sums"].files["reference"] = Fact(disk, "inventory").reference
  BY <1>7 DEF snapshot_accepted
<1>10. ASSUME NEW t \in Reviewed
       PROVE  Fact(disk, t).uses \cap {"loader", "exec", "reflection"} = {}
  <2>1. script_imports_accepted(Fact(disk, t))
    BY <1>1 DEF focused_closure_test
  <2> QED  BY <2>1 DEF script_imports_accepted, loader_free, reflection_free, REFLECTIVE
<1> QED  BY <1>2, <1>3, <1>4, <1>5, <1>6, <1>8, <1>9, <1>10

\* BundleIsCurrent: in every state, whatever was edited, killed or run out of order before, a
\* checksum text covers the policy of the very tool sources it covers, and a tree that passes
\* every check of the tail is current from the notes to the bundle.
THEOREM BundleIsOneRelease == Spec => []BundleIsCurrent
<1>1. BInv => BundleIsCurrent
  BY CheckedTreesAreCurrent DEF BInv, TreeInv, Describes, BundleIsCurrent, BundleDescribesItself
<1> QED  BY <1>1, BundleAlways, PTL

\* TwoPassesSettle: whatever was stale, truncated or split before, two passes of the canonical
\* tail that nothing interfered with leave every document and the bundle current.
THEOREM TwoPassesSettleTheTail == Spec => []TwoPassesSettle
<1>1. BInv => TwoPassesSettle
  <2> SUFFICES ASSUME BInv, job = Idle, quiet = 2 * Len(TailOrder)
               PROVE  TailCurrent(disk)
    BY DEF TwoPassesSettle
  <2>1. quiet = 12
    BY DEF TailOrder
  <2>2. Settling(12, disk)
    BY <2>1, BetweenRuns DEF BInv
  <2>3. /\ risk_ready(disk) /\ disk["risk"] = build_risk(disk)
        /\ notes_check(disk) /\ manifest_check(disk) /\ proof_check(disk)
        /\ lockfile_check(disk) /\ bundle_check(disk)
    BY <2>2 DEF Settling
  <2>4. risk_register_valid(disk)
    BY <2>3 DEF manifest_check, manifest_ready
  <2>5. proof_bound(disk)
    BY <2>3, DocumentsAreWhole DEF proof_check, build_proof, proof_bound
  <2> QED  BY <2>3, <2>4, <2>5 DEF TailCurrent, risk_check
<1> QED  BY <1>1, BundleAlways, PTL

\* AcceptedBundleWasSigned: a tag that check_signed_release_tag accepts in a clean tree signed
\* the bundle that is in the tree, however it was edited, rebuilt and checked out in between.
THEOREM AcceptedTagsSignTheirBundle == Spec => []AcceptedBundleWasSigned
<1>1. BInv => AcceptedBundleWasSigned
  <2> SUFFICES ASSUME BInv, check_signed_release_tag, disk = history[head]
               PROVE  release.bundle = <<disk["sums"], disk["sums_json"]>>
    BY DEF AcceptedBundleWasSigned
  <2>1. release # NoRelease /\ release.commit = head /\ ~release.source_dirty
    BY DEF check_signed_release_tag, matching_release_evidence
  <2> QED  BY <2>1 DEF BInv, ReleaseInv
<1> QED  BY <1>1, BundleAlways, PTL

-----------------------------------------------------------------------------
(* The release gate.                                                       *)

Risks == Windows \cup {NoRisk}
Dispositions == [finding : Findings, status : {"Open", "False Positive"}]

\* Every row has a status, references and a waiver of the instance or none.
RowsTypeOK ==
    /\ manifest = [rows |-> manifest.rows, ready |-> manifest.ready, kept |-> manifest.kept]
    /\ manifest.rows = [r \in Requirements |-> manifest.rows[r]]
    /\ \A r \in Requirements :
          LET row == manifest.rows[r]
          IN row = Row(row.status, row.evidence, row.risk) /\ row.risk \in Risks
\* The rows of the baseline are findings with a disposition, whoever wrote them.
BaselineTypeOK ==
    /\ slither = [code |-> slither.code, tree |-> slither.tree, rows |-> slither.rows,
                  counts |-> slither.counts, mirror |-> slither.mirror]
    /\ slither.code \subseteq Findings /\ slither.rows \subseteq Dispositions
GateInv == today \in Nat /\ RowsTypeOK /\ BaselineTypeOK

LEMMA DatesAreNumbers ==
    \A risk \in Risks : /\ risk.accepted_at \in Int /\ risk.expires_at \in Int
                        /\ risk.expires_at >= 0 => risk # NoRisk
    BY GateConstants DEF Risks, NoRisk

LEMMA TriagedAreDispositions ==
    ASSUME NEW fs \in SUBSET Findings, NEW s \in {"Open", "False Positive"}
    PROVE  {[finding |-> f, status |-> s] : f \in fs} \subseteq Dispositions
<1>1. \A f \in fs : [finding |-> f, status |-> s] \in Dispositions
    BY DEF Dispositions
<1> QED  BY <1>1

LEMMA FirstParty == \A fs : first_party(fs) \subseteq fs
    BY DEF first_party

LEMMA GateStarts == GateInit => GateInv
<1> SUFFICES ASSUME GateInit PROVE GateInv
    OBVIOUS
<1>1. RowsTypeOK
    BY DEF GateInit, RowsTypeOK, Row, Risks
<1> DEFINE rows == {[finding |-> f, status |-> "Open"] : f \in first_party(Findings)}
<1>2. slither = [code |-> Findings, tree |-> Findings, rows |-> rows,
                 counts |-> status_counts(rows), mirror |-> rows]
    BY DEF GateInit
<1>3. rows \subseteq Dispositions
    BY FirstParty, TriagedAreDispositions
<1> HIDE DEF rows
<1>4. BaselineTypeOK
    BY <1>2, <1>3 DEF BaselineTypeOK
<1> QED  BY <1>1, <1>4 DEF GateInv, GateInit

LEMMA GateSteps == GateInv /\ [GateNext]_gateVars => GateInv'
<1> SUFFICES ASSUME GateInv, [GateNext]_gateVars PROVE GateInv'
    OBVIOUS
<1>t. today \in Nat /\ RowsTypeOK /\ BaselineTypeOK
    BY DEF GateInv
<1>r. ASSUME manifest' = manifest PROVE RowsTypeOK'
    BY <1>t, <1>r DEF RowsTypeOK
<1>s. ASSUME slither' = slither PROVE BaselineTypeOK'
    BY <1>t, <1>s DEF BaselineTypeOK
<1>1. CASE UNCHANGED gateVars
    BY <1>1, <1>t, <1>r, <1>s DEF gateVars, GateInv
<1>2. CASE Retain
    <2> DEFINE rows == {[finding |-> f, status |-> "False Positive"] : f \in first_party(Findings)}
    <2>1. slither' = [slither EXCEPT !.rows = rows, !.mirror = rows, !.counts = status_counts(rows)]
        BY <1>2 DEF Retain
    <2>2. rows \subseteq Dispositions
        BY FirstParty, TriagedAreDispositions
    <2> HIDE DEF rows
    <2>3. BaselineTypeOK'
        BY <1>t, <2>1, <2>2 DEF BaselineTypeOK
    <2> QED  BY <1>2, <1>t, <1>r, <2>3 DEF Retain, GateInv
<1>3. CASE Submit
    <2> DEFINE Submitted(plan) ==
            [rows |-> [r \in Requirements |->
                 Row(plan[r].status, {[kind |-> "envelope", of |-> r, sha256 |-> envelope'[r]]},
                     plan[r].risk)],
             ready |-> [p \in Phases |->
                 IF \E r \in Requirements : PHASE(r) = p /\ plan[r].status \in BLOCKING_STATUSES
                 THEN "blocked" ELSE "ready"],
             kept |-> artifact["template"]]
    <2>1. PICK plan \in UNION {{[r \in Requirements |-> IF r = odd THEN s ELSE Usual(r)] :
                                   s \in Submissions[odd]} : odd \in Requirements} :
             manifest' = Submitted(plan)
        BY <1>3 DEF Submit
    <2>2. PICK odd \in Requirements :
             \E s \in Submissions[odd] :
                plan = [r \in Requirements |-> IF r = odd THEN s ELSE Usual(r)]
        BY <2>1
    <2>3. PICK s \in Submissions[odd] :
             plan = [r \in Requirements |-> IF r = odd THEN s ELSE Usual(r)]
        BY <2>2
    <2>4. \A r \in Requirements : Usual(r) \in Submissions[r]
        BY GateConstants DEF Usual
    <2>5. \A r \in Requirements : plan[r].risk \in Risks
        BY <2>3, <2>4, GateConstants DEF Risks
    <2>6. RowsTypeOK'
        BY <2>1, <2>5 DEF RowsTypeOK, Row
    <2> QED  BY <1>3, <1>t, <1>s, <2>6 DEF Submit, GateInv
<1>4. CASE EditPolicy
    BY <1>4, <1>t, <1>r, <1>s DEF EditPolicy, GateInv
<1>5. CASE NextDay
    BY <1>5, <1>t, <1>r, <1>s DEF NextDay, GateInv
<1>6. CASE EditSources
    <2>1. PICK fs \in SUBSET Findings : slither' = [slither EXCEPT !.code = fs]
        BY <1>6 DEF EditSources
    <2>2. BaselineTypeOK'
        BY <1>t, <2>1 DEF BaselineTypeOK
    <2> QED  BY <1>6, <1>t, <1>r, <2>2 DEF EditSources, GateInv
<1>7. CASE Rebaseline
    <2>0. PICK fs \in SUBSET Findings : \E status \in [fs -> {"Open", "False Positive"}] :
             LET rows == {[finding |-> f, status |-> status[f]] : f \in fs}
             IN slither' = [slither EXCEPT !.tree = slither.code, !.rows = rows,
                                           !.counts = status_counts(rows)]
        BY <1>7 DEF Rebaseline
    <2>1. PICK status \in [fs -> {"Open", "False Positive"}] :
             LET rows == {[finding |-> f, status |-> status[f]] : f \in fs}
             IN slither' = [slither EXCEPT !.tree = slither.code, !.rows = rows,
                                           !.counts = status_counts(rows)]
        BY <2>0
    <2> DEFINE rows == {[finding |-> f, status |-> status[f]] : f \in fs}
    <2>2. rows \subseteq Dispositions
        <3>1. \A f \in fs : [finding |-> f, status |-> status[f]] \in Dispositions
            BY DEF Dispositions
        <3> QED  BY <3>1
    <2>3. slither' = [slither EXCEPT !.tree = slither.code, !.rows = rows,
                                     !.counts = status_counts(rows)]
        BY <2>1
    <2> HIDE DEF rows
    <2>4. BaselineTypeOK'
        BY <1>t, <2>2, <2>3 DEF BaselineTypeOK
    <2> QED  BY <1>7, <1>t, <1>r, <2>4 DEF Rebaseline, GateInv
<1>8. CASE RenderMirror
    <2>1. BaselineTypeOK'
        BY <1>8, <1>t DEF RenderMirror, BaselineTypeOK
    <2> QED  BY <1>8, <1>t, <1>r, <2>1 DEF RenderMirror, GateInv
<1>9. ASSUME NEW p \in Requirements \cup {"template"}, EditArtifact(p) PROVE GateInv'
    BY <1>9, <1>t, <1>r, <1>s DEF EditArtifact, GateInv
<1>10. ASSUME NEW r \in Requirements, EditEnvelope(r) \/ EditTemplate(r) \/ GenerateEnvelope(r)
       PROVE  GateInv'
    BY <1>10, <1>t, <1>r, <1>s DEF EditEnvelope, EditTemplate, GenerateEnvelope, GateInv
<1>11. ASSUME NEW r \in Requirements, EditRow(r) PROVE GateInv'
    <2> DEFINE rows == manifest.rows
               Rewritten(row) == [manifest EXCEPT !.rows = [rows EXCEPT ![r] = row]]
    <2>1. ASSUME NEW status, NEW cited, NEW risk \in Risks,
                 manifest' = Rewritten(Row(status, cited, risk))
          PROVE  RowsTypeOK'
        BY <2>1, <1>t DEF RowsTypeOK, Row
    <2>2. /\ rows[r] = Row(rows[r].status, rows[r].evidence, rows[r].risk)
          /\ rows[r].risk \in Risks
        BY <1>t DEF RowsTypeOK
    <2>3. ASSUME NEW status, NEW risk \in Risks,
                 manifest' = [manifest EXCEPT !.rows[r] = Row(status, @.evidence, risk)]
          PROVE  RowsTypeOK'
        <3>1. manifest' = Rewritten(Row(status, rows[r].evidence, risk))
            BY <1>t, <2>2, <2>3 DEF RowsTypeOK, Row
        <3> QED  BY <2>1, <3>1
    <2>4. ASSUME NEW cited, manifest' = [manifest EXCEPT !.rows[r].evidence = cited]
          PROVE  RowsTypeOK'
        <3>1. manifest' = Rewritten(Row(rows[r].status, cited, rows[r].risk))
            BY <1>t, <2>2, <2>4 DEF RowsTypeOK, Row
        <3> QED  BY <2>1, <2>2, <3>1
    <2> HIDE DEF Rewritten
    <2>5. \/ \E status, risk : risk \in Risks /\
               manifest' = [manifest EXCEPT !.rows[r] = Row(status, @.evidence, risk)]
          \/ \E cited : manifest' = [manifest EXCEPT !.rows[r].evidence = cited]
        <3>1. CASE \E status \in REQUIREMENT_STATUSES, risk \in Windows \cup {NoRisk} :
                      /\ status = "accepted_risk" <=> risk # NoRisk
                      /\ manifest' = [manifest EXCEPT !.rows[r] = Row(status, @.evidence, risk)]
            <4>1. PICK status \in REQUIREMENT_STATUSES, risk \in Risks :
                      manifest' = [manifest EXCEPT !.rows[r] = Row(status, @.evidence, risk)]
                BY <3>1 DEF Risks
            <4> QED  BY <4>1
        <3>2. CASE \E cited \in {{}, {Reference("template", r)},
                                {Reference("envelope", r), Reference("template", r)}}
                               \cup {{Reference("envelope", q)} : q \in Requirements} :
                      manifest' = [manifest EXCEPT !.rows[r].evidence = cited]
            BY <3>2
        <3> QED  BY <1>11, <3>1, <3>2 DEF EditRow
    <2>6. RowsTypeOK'
        BY <2>3, <2>4, <2>5
    <2> QED  BY <1>11, <1>t, <1>s, <2>6 DEF EditRow, GateInv
<1>12. ASSUME NEW p \in Phases, SetReady(p) PROVE GateInv'
    <2>1. RowsTypeOK'
        BY <1>12, <1>t DEF SetReady, RowsTypeOK
    <2> QED  BY <1>12, <1>t, <1>s, <2>1 DEF SetReady, GateInv
<1> QED
    BY <1>1, <1>2, <1>3, <1>4, <1>5, <1>6, <1>7, <1>8, <1>9, <1>10, <1>11, <1>12 DEF GateNext

LEMMA GateAlways == GateSpec => []GateInv
    BY GateStarts, GateSteps, PTL DEF GateSpec

\* MarketRowsTraceToTheirArtifact: in a tree every checker accepts, a completed marketplace row
\* leads to the very bytes that were reviewed, for any rows, references and edits.
THEOREM MarketRowsTrace == GateSpec => []MarketRowsTraceToTheirArtifact
<1>1. MarketRowsTraceToTheirArtifact
    <2> SUFFICES ASSUME Checked, NEW r \in MANIFEST_REQUIREMENTS \cap Requirements,
                        manifest.rows[r].status = "complete"
                 PROVE  \E e \in {At(ref) : ref \in manifest.rows[r].evidence} :
                           /\ e.review = "reviewed" /\ e.requirement = r
                           /\ e.sha256 = artifact[e.retained] /\ artifact[e.retained].accepted
        BY DEF MarketRowsTraceToTheirArtifact
    <2>1. /\ manifest.rows[r].evidence # {}
          /\ \A ref \in manifest.rows[r].evidence : validate_reviewed_evidence_envelope(At(ref), r)
        BY DEF Checked, check_marketplace_indexer_evidence, validate_manifest_marketplace_rows
    <2>2. PICK ref \in manifest.rows[r].evidence : validate_reviewed_evidence_envelope(At(ref), r)
        BY <2>1
    <2> QED  BY <2>2 DEF validate_reviewed_evidence_envelope, file_sha256
<1> QED  BY <1>1, PTL

\* ReleasedSourcesAreTriaged: what the release workflow lets through has every finding of today's
\* first-party sources documented as a false positive in the mirror, for any set of findings.
THEOREM ReleasesAreTriaged == GateSpec => []ReleasedSourcesAreTriaged
<1>1. GateInv => ReleasedSourcesAreTriaged
    <2> SUFFICES ASSUME GateInv, NEW phase \in Phases, slither_baseline_check,
                        OnlyStandingStops(phase), NEW f \in first_party(slither.code)
                 PROVE  [finding |-> f, status |-> "False Positive"] \in slither.mirror
        BY DEF ReleasedSourcesAreTriaged
    <2>1. PICK row \in slither.rows : row.finding = f
        BY DEF slither_baseline_check, compare_live_findings
    <2>2. row.status # "Open"
        BY DEF OnlyStandingStops, validate_release_mode, slither_baseline_blockers, STANDING
    <2>3. row \in Dispositions
        BY DEF GateInv, BaselineTypeOK
    <2>4. row = [finding |-> f, status |-> "False Positive"]
        BY <2>1, <2>2, <2>3 DEF Dispositions
    <2> QED  BY <2>4 DEF slither_baseline_check, validate_baseline, validate_markdown_mirror
<1> QED  BY <1>1, GateAlways, PTL

\* A row that is not complete is listed in the report of every phase it belongs to.
LEMMA IncompleteIsListed ==
    ASSUME NEW r \in Requirements, NEW phases, PHASE(r) \in phases,
           manifest.rows[r].status \in INCOMPLETE_STATUSES
    PROVE  \E row \in requirement_table_rows(phases) : row.id = r
<1> DEFINE row == [id |-> r, status |-> manifest.rows[r].status, posture |-> evidence_posture(r),
                   risk |-> manifest.rows[r].risk]
<1>1. r \in {q \in Requirements : PHASE(q) \in phases
                                    /\ manifest.rows[q].status \in INCOMPLETE_STATUSES}
    OBVIOUS
<1>2. row \in requirement_table_rows(phases)
    BY <1>1 DEF requirement_table_rows
<1> QED  BY <1>2

\* A row that blocks is not complete.
LEMMA BlockedIsListed ==
    ASSUME check_public_beta_evidence, NEW r \in Requirements, row_blocks(r),
           NEW phases, PHASE(r) \in phases
    PROVE  \E row \in requirement_table_rows(phases) : row.id = r
<1>1. manifest.rows[r].status \in REQUIREMENT_STATUSES
    BY DEF check_public_beta_evidence, validate_requirement
<1>2. manifest.rows[r].status # "complete"
    BY DEF row_blocks, READY_REQUIREMENT_STATUSES
<1> QED  BY <1>1, <1>2, IncompleteIsListed DEF INCOMPLETE_STATUSES

LEMMA ReportsTell == ReportsTellTheGate
<1>p. \A r \in Requirements : PHASE(r) \in Phases
    BY DEF PHASE, Phases
<1>i. beta_report.incomplete = requirement_table_rows(Phases)
      /\ beta_report.status = [p \in Phases |-> manifest.ready[p]]
      /\ production_report.incomplete = requirement_table_rows({"production_release"})
    BY DEF beta_report, production_report, Report
<1>1. ASSUME beta_report_builds, NEW r \in Requirements, row_blocks(r)
      PROVE  \E row \in beta_report.incomplete : row.id = r
    BY <1>1, <1>p, <1>i, BlockedIsListed DEF beta_report_builds
<1>2. ASSUME beta_report_builds, NEW phase \in Phases, beta_report.status[phase] = "ready",
             \A row \in beta_report.incomplete : PHASE(row.id) # phase
      PROVE  /\ blocking_counts(phase) = 0
             /\ \A r \in release_mode_blockers(phase) \cap Requirements : PHASE(r) # phase
    <2>1. \A r \in Requirements : PHASE(r) = phase =>
              manifest.rows[r].status \notin INCOMPLETE_STATUSES
        BY <1>2, <1>p, <1>i, IncompleteIsListed
    <2>2. {r \in Requirements : PHASE(r) = phase
              /\ manifest.rows[r].status \in BLOCKING_STATUSES} = {}
        BY <2>1 DEF BLOCKING_STATUSES, INCOMPLETE_STATUSES, REQUIREMENT_STATUSES
    <2>3. blocking_counts(phase) = 0
        BY <2>2, FS_EmptySet DEF blocking_counts
    <2>4. ASSUME NEW r \in release_mode_blockers(phase) \cap Requirements PROVE PHASE(r) # phase
        <3>1. r \notin Phases
            BY GateConstants
        <3>2. row_blocks(r)
            BY <3>1 DEF release_mode_blockers, required_phases, Phases
        <3>3. PICK row \in beta_report.incomplete : row.id = r
            BY <3>2, <1>1, <1>2
        <3> QED  BY <3>3, <1>2
    <2> QED  BY <2>3, <2>4
<1>3. ASSUME production_report_builds, NEW r \in Requirements \cap PRODUCTION_REQUIREMENTS
      PROVE  /\ row_blocks(r) => \E row \in production_report.incomplete : row.id = r
             /\ \A row \in beta_report.incomplete :
                   row.id = r => row \in production_report.incomplete
    <2>1. PHASE(r) \in {"production_release"}
        BY DEF PHASE
    <2>2. row_blocks(r) => \E row \in production_report.incomplete : row.id = r
        BY <1>3, <1>i, <2>1, BlockedIsListed DEF production_report_builds
    <2>3. \A row \in beta_report.incomplete : row.id = r => row \in production_report.incomplete
        BY <1>i, <2>1 DEF requirement_table_rows
    <2> QED  BY <2>2, <2>3
<1> QED  BY <1>1, <1>2, <1>3 DEF ReportsTellTheGate

\* What the generator validates is what the other checkers look at.
LEMMA CurrentCompletes == CurrentEnvelopeCompletesItsRow
<1> SUFFICES ASSUME NEW r \in Requirements, NEW args \in Calls[r], envelope_current(r, args),
                    args.review = "reviewed", envelope[r].requirement = r
             PROVE  LET e == envelope[r]
                    IN /\ validate_runbook_metadata(e, r)
                       /\ r \in RETAINED_COMMAND_REQUIREMENTS =>
                             e.command = artifact[e.retained].command
                       /\ /\ r \in MANIFEST_REQUIREMENTS
                          /\ args.environment \in MarketEnvironments(r)
                          /\ args.notes = "final" /\ args.chain_id = 1
                          /\ ~validate_reviewed_evidence_envelope(e, r)
                          => artifact[e.retained].state = "file" /\ ~artifact[e.retained].accepted
    BY DEF CurrentEnvelopeCompletesItsRow
<1> DEFINE e == envelope[r]
<1>1. NonLocal_document(e) /\ e = generated(r, args)
    BY DEF envelope_current, build_accepted
<1>2. /\ e.type = "evidence" /\ e.review = "reviewed" /\ e.environment = args.environment
      /\ e.chain_id = args.chain_id /\ e.notes = args.notes /\ e.flaw = "none"
    BY <1>1 DEF generated
<1> HIDE DEF e
<1>3. /\ e.environment \in ENVIRONMENTS /\ e.reviewer # "TBD"
      /\ artifact[e.retained].state = "file" /\ e.sha256 = file_sha256(e.retained)
    BY <1>1, <1>2 DEF NonLocal_document, validate_reviewer, validate_retained_artifact_hash
<1>4. e.chain_id = NotApplicable => e.environment \in CHAINLESS_ENVIRONMENTS
    BY <1>1 DEF NonLocal_document, validate_chain_id, NotApplicable
<1>5. validate_runbook_metadata(e, r)
    BY <1>2, <1>3, <1>4 DEF validate_runbook_metadata, e
<1>6. r \in RETAINED_COMMAND_REQUIREMENTS => e.command = artifact[e.retained].command
    BY <1>1, <1>2 DEF NonLocal_document, validate_retained_command_fidelity, e
<1>7. ASSUME r \in MANIFEST_REQUIREMENTS, args.environment \in MarketEnvironments(r),
             args.notes = "final", args.chain_id = 1, artifact[e.retained].accepted
      PROVE  validate_reviewed_evidence_envelope(e, r)
    BY <1>2, <1>3, <1>7 DEF validate_reviewed_evidence_envelope, e
<1> QED  BY <1>3, <1>5, <1>6, <1>7 DEF e

\* GeneratedFilesTellTheGate: reports and envelopes that a generator calls current agree with the
\* gate and the checkers, in every tree.
THEOREM GeneratedFilesAgree == GateSpec => []GeneratedFilesTellTheGate
<1>1. GeneratedFilesTellTheGate
    BY ReportsTell, CurrentCompletes DEF GeneratedFilesTellTheGate
<1> QED  BY <1>1, PTL

\* TimeOnlyMovesWaivers: a day that passes opens or closes the gate only through a waiver whose
\* window starts or ends there.
THEOREM DaysMoveWaiversOnly == GateSpec => TimeOnlyMovesWaivers
<1> DEFINE Moved(phase) ==
         /\ OnlyStandingStops(phase) /\ ~OnlyStandingStops(phase)' =>
               \E r \in Requirements : manifest.rows[r].risk # NoRisk
                    /\ manifest.rows[r].risk.expires_at = today
         /\ ~OnlyStandingStops(phase) /\ OnlyStandingStops(phase)' =>
               \E r \in Requirements : manifest.rows[r].risk.accepted_at = today'
<1>1. ASSUME GateInv, [GateNext]_gateVars, today' # today, NEW phase \in Phases PROVE Moved(phase)
    <2>1. NextDay
        BY <1>1 DEF GateNext, gateVars, Retain, Submit, EditPolicy, EditSources, Rebaseline,
                    RenderMirror,
                    EditArtifact, EditEnvelope, EditTemplate, GenerateEnvelope, EditRow, SetReady
    <2>2. /\ today' = today + 1 /\ today \in Nat
          /\ UNCHANGED <<manifest, envelope, template, artifact, policy, slither>>
        BY <1>1, <2>1 DEF NextDay, GateInv
    <2>3. \A r \in Requirements : /\ manifest.rows[r].risk.accepted_at \in Int
                                  /\ manifest.rows[r].risk.expires_at \in Int
                                  /\ manifest.rows[r].risk.expires_at >= 0 =>
                                        manifest.rows[r].risk # NoRisk
        BY <1>1, DatesAreNumbers DEF GateInv, RowsTypeOK
    <2>4. release_mode_refuses(phase)' = release_mode_refuses(phase)
        BY <2>2 DEF release_mode_refuses, check_public_beta_evidence, validate_requirement,
                    validate_file_ref, At, validate_runbook_review_evidence,
                    validate_runbook_metadata, validate_retained_artifacts, file_sha256,
                    resolve, ResolvesToFile,
                    validate_overall_status, validate_baseline, validate_baseline_data,
                    validate_provenance, validate_markdown_mirror
    <2>5. \A r \in Requirements : row_blocks(r) /\ ~row_blocks(r)' =>
              manifest.rows[r].risk.accepted_at = today'
        BY <2>2, <2>3 DEF row_blocks, accepted_risk_blocker
    <2>6. \A r \in Requirements : ~row_blocks(r) /\ row_blocks(r)' =>
              /\ manifest.rows[r].risk # NoRisk
              /\ manifest.rows[r].risk.expires_at = today
        BY <2>2, <2>3 DEF row_blocks, accepted_risk_blocker
    <2> DEFINE rest == slither_baseline_blockers
                       \cup governance_native_value_blockers \cup standing_blockers(phase)
                       \cup (IF phase = "production_release"
                             THEN governed_parameter_completeness_blockers
                                  \cup production_core_headroom_blocker
                             ELSE {})
    <2>7. rest' = rest
        BY <2>2 DEF slither_baseline_blockers, governance_native_value_blockers, standing_blockers,
                    governed_parameter_completeness_blockers, production_core_headroom_blocker
    <2>8. /\ OnlyStandingStops(phase) <=> /\ ~release_mode_refuses(phase) /\ rest \subseteq STANDING
                                         /\ release_mode_blockers(phase) \subseteq STANDING
          /\ OnlyStandingStops(phase)' <=> /\ ~release_mode_refuses(phase)' /\ rest' \subseteq STANDING
                                          /\ release_mode_blockers(phase)' \subseteq STANDING
        BY DEF OnlyStandingStops, validate_release_mode
    <2> HIDE DEF rest
    <2>9. ASSUME release_mode_blockers(phase) \subseteq STANDING,
                 ~(release_mode_blockers(phase)' \subseteq STANDING)
          PROVE  \E r \in Requirements : ~row_blocks(r) /\ row_blocks(r)'
        BY <2>9, <2>2 DEF release_mode_blockers
    <2>10. ASSUME ~(release_mode_blockers(phase) \subseteq STANDING),
                  release_mode_blockers(phase)' \subseteq STANDING
           PROVE  \E r \in Requirements : row_blocks(r) /\ ~row_blocks(r)'
        BY <2>10, <2>2 DEF release_mode_blockers
    <2> QED  BY <2>4, <2>5, <2>6, <2>7, <2>8, <2>9, <2>10
<1>2. GateInv /\ [GateNext]_gateVars =>
          [today' # today => \A phase \in Phases :
             /\ OnlyStandingStops(phase) /\ ~OnlyStandingStops(phase)' =>
                   \E r \in Requirements : manifest.rows[r].risk # NoRisk
                        /\ manifest.rows[r].risk.expires_at = today
             /\ ~OnlyStandingStops(phase) /\ OnlyStandingStops(phase)' =>
                   \E r \in Requirements : manifest.rows[r].risk.accepted_at = today']_gateVars
    BY <1>1
<1> QED  BY <1>2, GateAlways, PTL DEF TimeOnlyMovesWaivers, GateSpec
==============================================================================
