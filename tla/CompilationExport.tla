--------------------------- MODULE CompilationExport ---------------------------
(***************************************************************************)
(* The current compilation: its export from Foundry's output              *)
(* (generate_current_stack_artifacts.py) and the TypeScript client's       *)
(* projection of that export (generate.mjs).                               *)
(*                                                                         *)
(* Both programs write file after file over what is there, and the second  *)
(* reads file after file what the first is writing.  Sources change and    *)
(* contracts are recompiled meanwhile, and either program may be killed    *)
(* between two files.  An edition stands for what one state of the sources *)
(* compiles to; a digest is the content it names.                          *)
(***************************************************************************)
EXTENDS Integers, SequencesExt

CONSTANTS Targets,       \* what the compilation is exported of
          TargetOrder,   \* the order of the exported artifacts
          ClientTargets, \* the targets the client projects, in order
          Rebuilds,      \* the sets of targets one build recompiles
          MaxEdition

CompilerInput == "compiler-input.json"
ManifestFile == "manifest.json"
Digested == {CompilerInput} \cup Targets
Generated == <<"abis.ts", "contracts.ts", "provenance.ts">>
WriteOrder == <<CompilerInput>> \o TargetOrder \o <<ManifestFile>>

ASSUME ExportConstants ==
    /\ CompilerInput \notin Targets /\ ManifestFile \notin Targets
    /\ TargetOrder \in Seq(Targets) /\ Range(TargetOrder) = Targets
    /\ ClientTargets \in Seq(Targets)
    /\ Rebuilds \subseteq SUBSET Targets /\ MaxEdition \in Nat

VARIABLES source,    \* edition of the sources
          out,       \* [artifacts, infos]: Foundry's output, build-infos included
          current,   \* release-artifacts/current: [files, manifest]
          exporting, \* the exporter: its candidate and the files it has yet to write
          rendering, \* the client's generator: its manifest, what it read, what is left
          client     \* src/generated: [manifest, artifacts] per file

exportVars == <<source, out, current, exporting, rendering, client>>

(* Files after one of them is written. *)
WithFile(files, f, content) ==
    [g \in DOMAIN files \cup {f} |-> IF g = f THEN content ELSE files[g]]

-----------------------------------------------------------------------------
(***************************************************************************)
(* Sources and builds                                                      *)
(***************************************************************************)
EditSources ==
    /\ source < MaxEdition /\ source' = source + 1
    /\ UNCHANGED <<out, current, exporting, rendering, client>>

(* A build recompiles everything, or only what changed.                    *)
Compile ==
    /\ \E names \in Rebuilds :
          /\ \E n \in names : out.artifacts[n] # source
          /\ out' = [artifacts |-> [n \in Targets |-> IF n \in names THEN source ELSE out.artifacts[n]],
                     infos |-> out.infos \cup {[edition |-> source, names |-> names]}]
    /\ UNCHANGED <<source, current, exporting, rendering, client>>

-----------------------------------------------------------------------------
(***************************************************************************)
(* The export                                                              *)
(***************************************************************************)
NoDigests == <<>>
NoExport == [files |-> NoDigests, manifest |-> NoDigests]
NotExporting == [files |-> NoDigests, left |-> <<>>]

matches_artifacts(info, artifacts) ==
    \A n \in Targets : n \in info.names /\ artifacts[n] = info.edition

(* Exactly one compiler input matches, and its sources are the tree's.     *)
select_build_info(artifacts) ==
    {info \in out.infos :
        /\ matches_artifacts(info, artifacts)
        /\ \A other \in out.infos : matches_artifacts(other, artifacts) => other.edition = info.edition}
compiler_sources_fresh(info) == info.edition = source

(* The files beside the manifest, which has the digest of each.            *)
candidate_files(info, artifacts) ==
    [f \in Digested |-> IF f = CompilerInput THEN info.edition ELSE artifacts[f]]

(* The artifacts are read first, the build-infos and the sources later.    *)
load_targets_and_libraries ==
    /\ exporting = NotExporting
    /\ exporting' = [files |-> out.artifacts, left |-> <<>>]
    /\ UNCHANGED <<source, out, current, rendering, client>>

SelectCandidate ==
    /\ exporting.files # NoDigests /\ exporting.left = <<>>
    /\ \/ \E info \in select_build_info(exporting.files) :
            /\ compiler_sources_fresh(info)
            /\ exporting' = [files |-> candidate_files(info, exporting.files), left |-> WriteOrder]
       \/ /\ ~\E info \in select_build_info(exporting.files) : compiler_sources_fresh(info)
          /\ exporting' = NotExporting
    /\ UNCHANGED <<source, out, current, rendering, client>>

(* One file is written over what is there, the manifest last.              *)
publish ==
    /\ exporting.left # <<>>
    /\ LET f == Head(exporting.left)
       IN current' = IF f = ManifestFile THEN [current EXCEPT !.manifest = exporting.files]
                     ELSE [current EXCEPT !.files = WithFile(@, f, exporting.files[f])]
    /\ exporting' = IF Tail(exporting.left) = <<>> THEN NotExporting
                    ELSE [exporting EXCEPT !.left = Tail(@)]
    /\ UNCHANGED <<source, out, rendering, client>>

-----------------------------------------------------------------------------
(***************************************************************************)
(* The client's projection                                                 *)
(***************************************************************************)
NotRendering == [manifest |-> NoDigests, artifacts |-> NoDigests, unread |-> <<>>, unwritten |-> <<>>]

(* Mutant: only the compiler input is compared with the manifest.          *)
digest_matches_InputOnly(files, manifest, f) ==
    f \in DOMAIN files /\ (f = CompilerInput => files[f] = manifest[f])

digest_matches(files, manifest, f) == f \in DOMAIN files /\ files[f] = manifest[f]

(* The manifest is read first. *)
StartRender ==
    /\ rendering = NotRendering /\ current.manifest # NoDigests
    /\ rendering' = [manifest |-> current.manifest, artifacts |-> NoDigests,
                     unread |-> <<CompilerInput>> \o ClientTargets, unwritten |-> Generated]
    /\ UNCHANGED <<source, out, current, exporting, client>>

(* Then one file after another; a digest that differs ends the run.        *)
render ==
    /\ rendering.unread # <<>>
    /\ LET f == Head(rendering.unread)
           read == IF f = CompilerInput THEN rendering.artifacts
                   ELSE WithFile(rendering.artifacts, f, current.files[f])
       IN rendering' = IF digest_matches(current.files, rendering.manifest, f)
                       THEN [rendering EXCEPT !.artifacts = read, !.unread = Tail(@)]
                       ELSE NotRendering
    /\ UNCHANGED <<source, out, current, exporting, client>>

(* What is generated into a file; the provenance names the manifest too.   *)
projection(f, manifest, artifacts) ==
    [manifest |-> IF f = "provenance.ts" THEN manifest ELSE NoDigests, artifacts |-> artifacts]

(* When everything is read and matched, file after file is written.        *)
generate ==
    /\ rendering.unread = <<>> /\ rendering.unwritten # <<>>
    /\ LET f == Head(rendering.unwritten)
       IN client' = WithFile(client, f, projection(f, rendering.manifest, rendering.artifacts))
    /\ rendering' = IF Tail(rendering.unwritten) = <<>> THEN NotRendering
                    ELSE [rendering EXCEPT !.unwritten = Tail(@)]
    /\ UNCHANGED <<source, out, current, exporting>>

(* With --check: what would be generated now is what is there.             *)
client_checked ==
    /\ current.manifest # NoDigests
    /\ \A f \in {CompilerInput} \cup Range(ClientTargets) :
          digest_matches(current.files, current.manifest, f)
    /\ \A f \in Range(Generated) :
          /\ f \in DOMAIN client
          /\ client[f] = projection(f, current.manifest, [n \in Range(ClientTargets) |-> current.files[n]])

(* Either program is killed; what it wrote stays.                          *)
KillExport ==
    /\ exporting # NotExporting /\ exporting' = NotExporting
    /\ UNCHANGED <<source, out, current, rendering, client>>
KillRender ==
    /\ rendering # NotRendering /\ rendering' = NotRendering
    /\ UNCHANGED <<source, out, current, exporting, client>>

ExportInit ==
    /\ source = 0
    /\ out = [artifacts |-> [n \in Targets |-> 0], infos |-> {[edition |-> 0, names |-> Targets]}]
    /\ current = NoExport /\ exporting = NotExporting
    /\ rendering = NotRendering /\ client = NoDigests

ExportNext ==
    \/ EditSources \/ Compile
    \/ load_targets_and_libraries \/ SelectCandidate \/ publish \/ KillExport
    \/ StartRender \/ render \/ generate \/ KillRender

-----------------------------------------------------------------------------
(***************************************************************************)
(* Whatever mixture of two exports a killed or running exporter leaves in  *)
(* the directory, and however its files change while they are read:        *)
(* every file the client generates holds the ABIs of one compilation; its  *)
(* provenance names the compiler input these come from; an export all of   *)
(* whose digests are right is one compilation; and a checked client is the *)
(* same compilation in all its files (publish, render, generate).          *)
(***************************************************************************)
ExportIsOneCompilation ==
    /\ \A f \in DOMAIN client : \A n, m \in Range(ClientTargets) :
          client[f].artifacts[n] = client[f].artifacts[m]
    /\ "provenance.ts" \in DOMAIN client =>
          \A n \in Range(ClientTargets) :
              client["provenance.ts"].artifacts[n] = client["provenance.ts"].manifest[CompilerInput]
    /\ current.files = current.manifest =>
          \A f \in DOMAIN current.files : current.files[f] = current.files[CompilerInput]
    /\ client_checked =>
          \A f \in Range(Generated) : \A n \in Range(ClientTargets) :
              client[f].artifacts[n] = current.files[CompilerInput]
=============================================================================
