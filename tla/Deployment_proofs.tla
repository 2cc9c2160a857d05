-------------------------- MODULE Deployment_proofs --------------------------
(***************************************************************************)
(* The records of a Foundry deployment, for any set of contracts and any   *)
(* number of deployments: what the address book, the bytecode report and   *)
(* the exported compilation say is so.                                     *)
(* The executor, for every number of runs, clones, plans and outputs: type *)
(* correctness, that no deployment is ever sent twice from one clone, that *)
(* every receipt is true of its chain, and that journals and receipts      *)
(* agree.                                                                  *)
(***************************************************************************)
EXTENDS DeploymentExecutor, DeploymentRecords, TLAPS

-----------------------------------------------------------------------------
(* The records of a Foundry deployment.                                    *)

\* What is mined: code of a compiled contract or none, and whether it succeeded.
DeployedCode == [name : Targets \cup {"none"}, edition : Int, library : Int, argument : Int]
Mining == [ok : BOOLEAN, code : DeployedCode, inner : DeployedCode]

\* The ledger only grows by what the compiler has put out.
LedgerTypeOK ==
    /\ source \in Nat /\ out.artifacts \in [Targets -> Int]
    /\ \A info \in out.infos : info.names \subseteq Targets
    /\ ledger \in Seq(Mining)

\* The first half of VerifiedMeansOnChain, of any report and any code.
RecordsAreCode(contracts, rows) ==
    \A row \in rows :
        LET code == CodeAt(row.address)
        IN /\ code.name = row.name /\ row.name # "none"
           /\ [name |-> row.name, edition |-> code.edition] \in contracts
           /\ code.library # NoAddress => Record(code.library, Library) \in rows

\* What is true of records verified against some contracts: they are code on chain, and one
\* edition of each contract is known.
RecordsTrue(contracts, rows) ==
    /\ RecordsAreCode(contracts, rows)
    /\ \A c, d \in contracts : c.name = d.name => c = d

\* It is true of what is reported and of what is about to be.
ReportTruthful ==
    /\ RecordsTrue(report.contracts, report.records)
    /\ RecordsTrue(verification.contracts, verification.records)

\* Digests or files of one compilation.
OneCompilation(contents) == \A f \in Digested : contents[f] = contents[CompilerInput]

\* Every manifest is of one compilation, on disk or in the memory of a program, ...
Compiled(digests) == DOMAIN digests = Digested /\ OneCompilation(digests)
ExporterInv ==
    /\ current = [files |-> current.files, manifest |-> current.manifest]
    /\ current.manifest = NoDigests \/ Compiled(current.manifest)
    /\ exporting = [files |-> exporting.files, left |-> exporting.left]
    /\ exporting.left = <<>> \/ Compiled(exporting.files)

\* ... and what the client's generator has read is as its manifest says.
RenderInv ==
    /\ rendering = [manifest |-> rendering.manifest, artifacts |-> rendering.artifacts,
                    unread |-> rendering.unread, unwritten |-> rendering.unwritten]
    /\ \/ rendering = NotRendering
       \/ /\ OneCompilation(rendering.manifest) /\ rendering.unread \in Seq(Digested)
          /\ Range(ClientTargets) \subseteq DOMAIN rendering.artifacts \cup Range(rendering.unread)
          /\ \A n \in DOMAIN rendering.artifacts :
                rendering.artifacts[n] = rendering.manifest[CompilerInput]

\* What was written into the client.
ClientInv ==
    \A f \in DOMAIN client : \E e :
        /\ \A n \in Range(ClientTargets) : client[f].artifacts[n] = e
        /\ f = "provenance.ts" => client[f].manifest[CompilerInput] = e

ExportInv == ExporterInv /\ RenderInv /\ ClientInv

DeploymentInv == LedgerTypeOK /\ ReportTruthful /\ ExportInv

\* Code that is on chain stays there when more transactions are mined.
LEMMA CodeStays ==
    ASSUME ledger \in Seq(Mining), ledger' \in Seq(Mining), Len(ledger') >= Len(ledger),
           \A h \in DOMAIN ledger : ledger'[h] = ledger[h],
           NEW address, CodeAt(address).name # "none"
    PROVE  CodeAt(address)' = CodeAt(address)
<1> DEFINE created == {h \in DOMAIN ledger : ledger[h].ok /\ address = h}
           inner == {h \in DOMAIN ledger : ledger[h].ok /\ address = InnerAddress(h)}
<1>1. /\ DOMAIN ledger = 1 .. Len(ledger) /\ DOMAIN ledger' = 1 .. Len(ledger')
      /\ Len(ledger) \in Nat /\ Len(ledger') \in Nat
    OBVIOUS
<1>2. CodeAt(address) = CASE created # {} -> ledger[CHOOSE h \in created : TRUE].code
                          [] inner # {} -> ledger[CHOOSE h \in inner : TRUE].inner
                          [] OTHER -> NoCode
    BY DEF CodeAt
<1>3. CodeAt(address)' = CASE created' # {} -> ledger'[CHOOSE h \in created' : TRUE].code
                           [] inner' # {} -> ledger'[CHOOSE h \in inner' : TRUE].inner
                           [] OTHER -> NoCode
    BY DEF CodeAt
<1>4. \A h \in created' : \A g \in created : h = g
    OBVIOUS
<1>5. created \subseteq created' /\ inner \subseteq inner'
    BY <1>1
<1>6. \A h, g \in inner' : h = g
    BY <1>1 DEF InnerAddress
<1>7. (created # {} => inner = {}) /\ (created' # {} => inner' = {})
    BY <1>1 DEF InnerAddress
<1>8. CASE created # {}
    <2>0. inner = {} /\ inner' = {}
        BY <1>5, <1>7, <1>8
    <2>1. PICK h \in created : created = {h} /\ created' = {h}
        BY <1>4, <1>5, <1>8
    <2> HIDE DEF created, inner
    <2>2. (CHOOSE g \in created : TRUE) = h /\ (CHOOSE g \in created' : TRUE) = h
        BY <2>1
    <2>3. ledger'[h] = ledger[h]
        BY <2>1 DEF created
    <2> QED  BY <1>2, <1>3, <2>0, <2>1, <2>2, <2>3
<1>9. CASE created = {} /\ inner # {}
    <2>1. PICK h \in inner : inner = {h} /\ inner' = {h}
        BY <1>5, <1>6, <1>9
    <2>2. created' = {}
        BY <1>7, <2>1
    <2>3. h \in DOMAIN ledger
        BY <2>1
    <2> HIDE DEF created, inner
    <2>4. (CHOOSE g \in inner : TRUE) = h /\ (CHOOSE g \in inner' : TRUE) = h
        BY <2>1
    <2> QED  BY <1>2, <1>3, <1>9, <2>1, <2>2, <2>3, <2>4
<1>10. CASE created = {} /\ inner = {}
    BY <1>2, <1>10 DEF NoCode
<1> QED  BY <1>8, <1>9, <1>10

LEMMA ReportsStay ==
    ASSUME ledger \in Seq(Mining), ledger' \in Seq(Mining), Len(ledger') >= Len(ledger),
           \A h \in DOMAIN ledger : ledger'[h] = ledger[h],
           UNCHANGED reports, ReportTruthful
    PROVE  ReportTruthful'
<1>1. RecordsTrue(report.contracts, report.records)'
    <2>1. UNCHANGED report
        BY DEF reports
    <2>2. \A row \in report.records : CodeAt(row.address)' = CodeAt(row.address)
        BY CodeStays DEF ReportTruthful, RecordsTrue, RecordsAreCode
    <2> QED  BY <2>1, <2>2 DEF ReportTruthful, RecordsTrue, RecordsAreCode, Record
<1>2. RecordsTrue(verification.contracts, verification.records)'
    <2>1. UNCHANGED verification
        BY DEF reports
    <2>2. \A row \in verification.records : CodeAt(row.address)' = CodeAt(row.address)
        BY CodeStays DEF ReportTruthful, RecordsTrue, RecordsAreCode
    <2> QED  BY <2>1, <2>2 DEF ReportTruthful, RecordsTrue, RecordsAreCode, Record
<1> QED  BY <1>1, <1>2 DEF ReportTruthful

\* A run of the script appends what it mines.
LEMMA DeployAppends ==
    ASSUME LedgerTypeOK, NEW order \in Orders, NEW failed, NEW simulated,
           Deploy(order, failed, simulated)
    PROVE  /\ ledger' \in Seq(Mining) /\ Len(ledger') >= Len(ledger)
           /\ \A h \in DOMAIN ledger : ledger'[h] = ledger[h]
<1> DEFINE first == Len(ledger)
           at(n) == first + CHOOSE i \in DOMAIN order : order[i] = n
           code(n) == [name |-> n, edition |-> out.artifacts[n],
                       library |-> IF n \in LinksLibrary THEN at(Library) ELSE NoAddress,
                       argument |-> IF n \in Contracts /\ ArgumentOf[n] # n THEN at(ArgumentOf[n])
                                    ELSE NoAddress]
           creates(n) == n # Inner
           mined(n) == [ok |-> n # failed, code |-> IF creates(n) THEN code(n) ELSE NoCode,
                        inner |-> IF creates(n) THEN NoCode ELSE code(n)]
           more == [i \in DOMAIN order |-> mined(order[i])]
<1>1. /\ order \in Seq(Targets) /\ \A n \in Targets : \E i \in DOMAIN order : order[i] = n
      /\ DOMAIN order = 1 .. Len(order) /\ Len(order) \in Nat /\ first \in Nat
    BY RecordsConstants DEF Range, LedgerTypeOK
<1>2. \A n \in Targets : at(n) \in Int
    <2>1. \A n \in Targets : (CHOOSE i \in DOMAIN order : order[i] = n) \in DOMAIN order
        BY <1>1
    <2> QED  BY <1>1, <2>1
<1>3. \A n \in Contracts : ArgumentOf[n] \in Targets
    BY RecordsConstants
<1> HIDE DEF at
<1>4. \A n \in Targets : code(n) \in DeployedCode
    BY <1>2, <1>3, RecordsConstants DEF LedgerTypeOK, DeployedCode, NoAddress
<1>5. NoCode \in DeployedCode
    BY DEF NoCode, DeployedCode, NoAddress
<1> HIDE DEF code
<1>6. \A n \in Targets : mined(n) \in Mining
    BY <1>4, <1>5 DEF Mining
<1> HIDE DEF mined
<1>7. more \in Seq(Mining)
    BY <1>1, <1>6
<1>8. ledger' = ledger \o more
    BY DEF Deploy, mined, code, at
<1> HIDE DEF more
<1> QED  BY <1>7, <1>8 DEF LedgerTypeOK

\* Code that a comparison passed is a compiled contract, linked to the library of the broadcast.
LEMMA ComparedCode ==
    ASSUME NEW infos \in SUBSET out.infos, NEW artifacts,
           NEW c \in load_contracts(infos, artifacts), NEW b, NEW address,
           compare_runtime(c, b, address)
    PROVE  /\ CodeAt(address).name = c.name
           /\ [name |-> c.name, edition |-> CodeAt(address).edition] = c
           /\ CodeAt(address).library \in {NoAddress, b.library}
<1>1. c = [name |-> c.name, edition |-> c.edition]
    BY DEF load_contracts
<1>2. /\ CodeAt(address).name = c.name /\ CodeAt(address).edition = c.edition
      /\ CodeAt(address).library = IF c.name \in LinksLibrary THEN b.library ELSE NoAddress
    BY DEF compare_runtime, Unmasked, linked_bytes
<1> QED  BY <1>1, <1>2

\* What was verified is on chain.
LEMMA VerifiedIsTrue ==
    ASSUME VerifyBroadcast, LedgerTypeOK
    PROVE  RecordsTrue(verification.contracts, verification.records)'
<1>1. PICK infos \in SUBSET out.infos \ {{}}, artifacts \in BOOLEAN :
         \E named \in {{}} \cup {{Record(a, Library)} : a \in NamedAddresses} :
            /\ Unambiguous(infos)
            /\ verify(load_contracts(infos, artifacts), named)
            /\ verification' = [contracts |-> load_contracts(infos, artifacts),
                                records |-> created_records(broadcast) \cup runtime_only(broadcast, named)]
    BY DEF VerifyBroadcast
<1> DEFINE contracts == load_contracts(infos, artifacts)
<1>2. PICK named \in {{}} \cup {{Record(a, Library)} : a \in NamedAddresses} :
            /\ Unambiguous(infos) /\ verify(contracts, named)
            /\ verification' = [contracts |-> contracts,
                                records |-> created_records(broadcast) \cup runtime_only(broadcast, named)]
    BY <1>1
<1> DEFINE rows == created_records(broadcast) \cup runtime_only(broadcast, named)
<1>3. \A c \in contracts : c.name \in Targets
    BY DEF load_contracts, LedgerTypeOK
<1>4. \A c, d \in contracts : c.name = d.name => c = d
    BY <1>2 DEF load_contracts, Unambiguous
<1>5. Record(broadcast.library, Library) \in rows
    <2>1. CASE \E n \in named : n.address = broadcast.library
        BY <2>1 DEF runtime_only, Record
    <2>2. CASE ~\E n \in named : n.address = broadcast.library
        BY <2>2 DEF runtime_only, Record
    <2> QED  BY <2>1, <2>2
\* A row whose runtime was compared with a compiled contract of its name.
<1>6. ASSUME NEW row \in rows,
             \E c \in contracts : c.name = row.name /\ compare_runtime(c, broadcast, row.address)
      PROVE  LET code == CodeAt(row.address)
             IN /\ code.name = row.name /\ row.name # "none"
                /\ [name |-> row.name, edition |-> code.edition] \in contracts
                /\ code.library # NoAddress => Record(code.library, Library) \in rows
    <2>1. PICK c \in contracts : c.name = row.name /\ compare_runtime(c, broadcast, row.address)
        BY <1>6
    <2>2. /\ CodeAt(row.address).name = c.name
          /\ [name |-> c.name, edition |-> CodeAt(row.address).edition] = c
          /\ CodeAt(row.address).library \in {NoAddress, broadcast.library}
        BY <2>1, ComparedCode
    <2>3. row.name # "none"
        BY <2>1, <1>3, RecordsConstants
    <2> HIDE DEF contracts, rows
    <2> QED  BY <2>1, <2>2, <2>3, <1>5
<1>7. ASSUME NEW row \in created_records(broadcast)
      PROVE  \E c \in contracts : c.name = row.name /\ compare_runtime(c, broadcast, row.address)
    <2>1. PICK i \in DOMAIN broadcast.transactions :
             row = IF is_deployment_transaction(broadcast.transactions[i])
                   THEN Record(broadcast.transactions[i].address, broadcast.transactions[i].name)
                   ELSE Record(InnerAddress(broadcast.transactions[i].hash),
                               broadcast.transactions[i].inner.name)
        BY <1>7 DEF created_records
    <2> DEFINE entry == broadcast.transactions[i]
    <2>2. entry \in Range(broadcast.transactions)
        BY DEF Range
    <2>3. CASE is_deployment_transaction(entry)
        <3>1. creation_verified(entry, contracts, broadcast)
            BY <1>2, <2>2, <2>3 DEF verify
        <3> QED  BY <2>1, <2>3, <3>1 DEF creation_verified, Record
    <2>4. CASE ~is_deployment_transaction(entry)
        <3>1. internal_verified(entry, contracts, broadcast)
            BY <1>2, <2>2, <2>4 DEF verify
        <3> QED  BY <2>1, <2>4, <3>1 DEF internal_verified, Record
    <2> QED  BY <2>3, <2>4
<1>8. ASSUME NEW row \in runtime_only(broadcast, named)
      PROVE  \/ row \in created_records(broadcast)
             \/ \E c \in contracts : c.name = row.name /\ compare_runtime(c, broadcast, row.address)
    BY <1>2, <1>8 DEF verify, runtime_only_verified
<1>9. RecordsAreCode(contracts, rows)
    <2> SUFFICES ASSUME NEW row \in rows
                 PROVE  LET code == CodeAt(row.address)
                        IN /\ code.name = row.name /\ row.name # "none"
                           /\ [name |-> row.name, edition |-> code.edition] \in contracts
                           /\ code.library # NoAddress => Record(code.library, Library) \in rows
        BY DEF RecordsAreCode
    <2>1. \E c \in contracts : c.name = row.name /\ compare_runtime(c, broadcast, row.address)
        BY <1>7, <1>8
    <2> QED  BY <1>6, <2>1
<1>10. UNCHANGED ledger
    BY DEF VerifyBroadcast
<1>11. verification'.contracts = contracts /\ verification'.records = rows
    BY <1>2
<1> HIDE DEF contracts, rows
<1>12. RecordsAreCode(verification.contracts, verification.records)'
    <2>1. \A row : CodeAt(row.address)' = CodeAt(row.address)
        BY <1>10 DEF CodeAt, InnerAddress
    <2> QED  BY <1>9, <1>11, <2>1 DEF RecordsAreCode, Record
<1> QED  BY <1>4, <1>11, <1>12 DEF RecordsTrue

\* The export starts with nothing, ...
LEMMA ExportStarts == ExportInit => ExportInv
<1> SUFFICES ASSUME ExportInit PROVE ExportInv
    OBVIOUS
<1>1. ExporterInv
    BY DEF ExportInit, ExporterInv, NoExport, NotExporting
<1>2. RenderInv
    BY DEF ExportInit, RenderInv, NotRendering
<1>3. ClientInv
    BY DEF ExportInit, ClientInv, NoDigests
<1> QED  BY <1>1, <1>2, <1>3 DEF ExportInv

\* ... the exporter only writes manifests of one compilation, after the files they list, ...
LEMMA ExporterSteps == ExportInv /\ [ExportNext]_exportVars => ExporterInv'
<1> SUFFICES ASSUME ExportInv, [ExportNext]_exportVars PROVE ExporterInv'
    OBVIOUS
<1>t. ExporterInv
    BY DEF ExportInv
<1>1. ASSUME UNCHANGED <<current, exporting>> PROVE ExporterInv'
    BY <1>t, <1>1 DEF ExporterInv
\* One of the two records changes, to one whose files are of one compilation.
<1>e. ASSUME UNCHANGED current, NEW fs, NEW left, left = <<>> \/ Compiled(fs),
             exporting' = [files |-> fs, left |-> left]
      PROVE  ExporterInv'
    BY <1>t, <1>e DEF ExporterInv
<1>2. CASE load_targets_and_libraries \/ KillExport
    BY <1>e, <1>2 DEF load_targets_and_libraries, KillExport, NotExporting
<1>3. CASE SelectCandidate
    <2>1. UNCHANGED current
        BY <1>3 DEF SelectCandidate
    <2>2. CASE exporting' = NotExporting
        BY <1>e, <2>1, <2>2 DEF NotExporting
    <2>3. CASE \E info \in select_build_info(exporting.files) :
                  exporting' = [files |-> candidate_files(info, exporting.files), left |-> WriteOrder]
        <3>1. PICK info \in select_build_info(exporting.files) :
                  exporting' = [files |-> candidate_files(info, exporting.files), left |-> WriteOrder]
            BY <2>3
        <3> DEFINE made == candidate_files(info, exporting.files)
        <3>2. Compiled(made)
            BY DEF candidate_files, select_build_info, matches_artifacts, OneCompilation, Compiled,
                   Digested
        <3> QED  BY <1>e, <2>1, <3>1, <3>2
    <2> QED  BY <1>3, <2>2, <2>3 DEF SelectCandidate
<1>4. CASE publish
    <2>1. exporting.left # <<>>
        BY <1>4, Zenon DEF publish
    <2>2. Compiled(exporting.files)
        BY <1>t, <2>1 DEF ExporterInv
    <2>3. \E f : current' = IF f = ManifestFile THEN [current EXCEPT !.manifest = exporting.files]
                           ELSE [current EXCEPT !.files = WithFile(@, f, exporting.files[f])]
        BY <1>4, Zenon DEF publish
    <2>4. /\ current' = [files |-> current'.files, manifest |-> current'.manifest]
          /\ current'.manifest \in {current.manifest, exporting.files}
        BY <1>t, <2>3 DEF ExporterInv
    <2>5. \E l : exporting' = IF l = <<>> THEN NotExporting ELSE [exporting EXCEPT !.left = l]
        BY <1>4, Zenon DEF publish
    <2>6. PICK l : exporting' = IF l = <<>> THEN NotExporting ELSE [exporting EXCEPT !.left = l]
        BY <2>5
    <2>7. exporting' = NotExporting \/ exporting' = [files |-> exporting.files, left |-> l]
        BY <1>t, <2>6 DEF ExporterInv
    <2>8. /\ exporting' = [files |-> exporting'.files, left |-> exporting'.left]
          /\ exporting'.left = <<>> \/ exporting'.files = exporting.files
        BY <2>7 DEF NotExporting
    <2> QED  BY <1>t, <2>2, <2>4, <2>8 DEF ExporterInv
<1> QED
    BY <1>1, <1>2, <1>3, <1>4 DEF ExportNext, exportVars, EditSources, Compile, StartRender, render,
                                  generate, KillRender

\* ... and the client's generator reads and writes what one manifest lists.
LEMMA RenderSteps == ExportInv /\ [ExportNext]_exportVars => RenderInv' /\ ClientInv'
<1> SUFFICES ASSUME ExportInv, [ExportNext]_exportVars PROVE RenderInv' /\ ClientInv'
    OBVIOUS
<1>t. ExporterInv /\ RenderInv /\ ClientInv
    BY DEF ExportInv
<1>c. ASSUME UNCHANGED client PROVE ClientInv'
    BY <1>t, <1>c DEF ClientInv
<1>o. Range(ClientTargets) \subseteq Targets /\ ClientTargets \in Seq(Targets)
    BY ExportConstants DEF Range
<1>1. ASSUME UNCHANGED <<rendering, client>> PROVE RenderInv' /\ ClientInv'
    BY <1>t, <1>c, <1>1 DEF RenderInv
<1>k. ASSUME rendering' = NotRendering PROVE RenderInv'
    BY <1>k DEF RenderInv, NotRendering
<1>2. CASE KillRender
    BY <1>2, <1>c, <1>k DEF KillRender
<1>3. CASE StartRender
    <2> DEFINE unread == <<CompilerInput>> \o ClientTargets
    <2>1. OneCompilation(current.manifest)
        BY <1>3, <1>t DEF StartRender, ExporterInv, Compiled
    <2>2. unread \in Seq(Digested)
        <3>1. CompilerInput \in Digested /\ ClientTargets \in Seq(Digested)
            BY <1>o DEF Digested
        <3> QED  BY <3>1
    <2>3. Range(ClientTargets) \subseteq Range(unread)
        <3>1. \A i \in DOMAIN ClientTargets : i + 1 \in DOMAIN unread /\ unread[i + 1] = ClientTargets[i]
            BY <1>o
        <3> QED  BY <3>1 DEF Range
    <2>4. rendering' = [manifest |-> current.manifest, artifacts |-> NoDigests, unread |-> unread,
                        unwritten |-> Generated]
        BY <1>3 DEF StartRender
    <2>5. DOMAIN NoDigests = {}
        BY DEF NoDigests
    <2> HIDE DEF unread
    <2>6. RenderInv'
        BY <2>1, <2>2, <2>3, <2>4, <2>5 DEF RenderInv
    <2> QED  BY <1>3, <1>c, <2>6 DEF StartRender
<1>4. CASE render
    <2> DEFINE f == Head(rendering.unread)
               rest == Tail(rendering.unread)
               read == IF f = CompilerInput THEN rendering.artifacts
                       ELSE WithFile(rendering.artifacts, f, current.files[f])
    <2>1. rendering.unread # <<>> /\ UNCHANGED client
        BY <1>4, Zenon DEF render
    <2>2. /\ OneCompilation(rendering.manifest) /\ rendering.unread \in Seq(Digested)
          /\ Range(ClientTargets) \subseteq DOMAIN rendering.artifacts \cup Range(rendering.unread)
          /\ \A n \in DOMAIN rendering.artifacts :
                rendering.artifacts[n] = rendering.manifest[CompilerInput]
        BY <1>t, <2>1 DEF RenderInv, NotRendering
    <2>3. f \in Digested /\ rest \in Seq(Digested)
        BY <2>1, <2>2
    <2>4. Range(rendering.unread) \subseteq {f} \cup Range(rest)
        <3>1. \A i \in DOMAIN rendering.unread : i # 1 =>
                 i - 1 \in DOMAIN rest /\ rest[i - 1] = rendering.unread[i]
            BY <2>1, <2>2
        <3>2. rendering.unread[1] = f
            BY <2>1, <2>2
        <3> HIDE DEF f, rest
        <3> QED  BY <3>1, <3>2 DEF Range
    <2>5. rendering' = IF digest_matches(current.files, rendering.manifest, f)
                       THEN [rendering EXCEPT !.artifacts = read, !.unread = rest]
                       ELSE NotRendering
        BY <1>4, Zenon DEF render
    <2> HIDE DEF f, rest
    <2>6. CASE digest_matches(current.files, rendering.manifest, f)
        <3>1. rendering' = [manifest |-> rendering.manifest, artifacts |-> read, unread |-> rest,
                            unwritten |-> rendering.unwritten]
            <4> HIDE DEF read
            <4> QED  BY <1>t, <2>5, <2>6 DEF RenderInv
        <3>2. current.files[f] = rendering.manifest[CompilerInput]
            BY <2>2, <2>3, <2>6 DEF digest_matches, OneCompilation
        <3>3. \A n \in DOMAIN read : read[n] = rendering.manifest[CompilerInput]
            BY <2>2, <3>2 DEF WithFile
        <3>4. Range(ClientTargets) \subseteq DOMAIN read \cup Range(rest)
            <4>1. CompilerInput \notin Range(ClientTargets)
                BY <1>o, ExportConstants
            <4> QED  BY <2>2, <2>4, <4>1 DEF WithFile
        <3> HIDE DEF read
        <3> QED  BY <1>c, <2>1, <2>2, <2>3, <3>1, <3>3, <3>4 DEF RenderInv
    <2> QED  BY <1>c, <1>k, <2>1, <2>5, <2>6
<1>5. CASE generate
    <2> DEFINE f == Head(rendering.unwritten)
               rest == Tail(rendering.unwritten)
               made == projection(f, rendering.manifest, rendering.artifacts)
    <2>1. rendering.unread = <<>> /\ rendering.unwritten # <<>>
        BY <1>5, Zenon DEF generate
    <2>2. client' = WithFile(client, f, made)
        BY <1>5, Zenon DEF generate
    <2>3. rendering' = IF rest = <<>> THEN NotRendering ELSE [rendering EXCEPT !.unwritten = rest]
        BY <1>5, Zenon DEF generate
    <2>4. /\ OneCompilation(rendering.manifest) /\ rendering.unread \in Seq(Digested)
          /\ Range(ClientTargets) \subseteq DOMAIN rendering.artifacts \cup Range(rendering.unread)
          /\ \A n \in DOMAIN rendering.artifacts :
                rendering.artifacts[n] = rendering.manifest[CompilerInput]
        BY <1>t, <2>1 DEF RenderInv, NotRendering
    <2> HIDE DEF f, rest
    <2>5. RenderInv'
        <3>1. CASE rendering' = [manifest |-> rendering.manifest, artifacts |-> rendering.artifacts,
                                 unread |-> rendering.unread, unwritten |-> rest]
            BY <2>4, <3>1 DEF RenderInv
        <3>2. [rendering EXCEPT !.unwritten = rest]
                 = [manifest |-> rendering.manifest, artifacts |-> rendering.artifacts,
                    unread |-> rendering.unread, unwritten |-> rest]
            BY <1>t DEF RenderInv
        <3> QED  BY <1>k, <2>3, <3>1, <3>2
    <2>6. \A n \in Range(ClientTargets) : rendering.artifacts[n] = rendering.manifest[CompilerInput]
        <3>1. Range(rendering.unread) = {}
            BY <2>1 DEF Range
        <3> QED  BY <2>4, <3>1
    <2>7. /\ \A n \in Range(ClientTargets) : made.artifacts[n] = rendering.manifest[CompilerInput]
          /\ f = "provenance.ts" => made.manifest[CompilerInput] = rendering.manifest[CompilerInput]
        BY <2>6 DEF projection
    <2> HIDE DEF made
    <2>8. ClientInv'
        BY <1>t, <2>2, <2>7 DEF ClientInv, WithFile
    <2> QED  BY <2>5, <2>8
<1> QED
    BY <1>1, <1>2, <1>3, <1>4, <1>5 DEF ExportNext, exportVars, EditSources, Compile, publish,
                                        load_targets_and_libraries, SelectCandidate, KillExport

LEMMA ExportSteps == ExportInv /\ [ExportNext]_exportVars => ExportInv'
    BY ExporterSteps, RenderSteps DEF ExportInv

LEMMA DeploymentStarts == DeploymentInit => DeploymentInv
<1> SUFFICES ASSUME DeploymentInit PROVE DeploymentInv
    OBVIOUS
<1>1. LedgerTypeOK
    BY DEF DeploymentInit, ExportInit, LedgerTypeOK
<1>2. ReportTruthful
    BY DEF DeploymentInit, ReportTruthful, RecordsTrue, RecordsAreCode, NoReport, NotVerifying
<1>3. ExportInv
    BY ExportStarts DEF DeploymentInit
<1> QED  BY <1>1, <1>2, <1>3 DEF DeploymentInv

LEMMA DeploymentSteps == DeploymentInv /\ [DeploymentNext]_deploymentVars => DeploymentInv'
<1> SUFFICES ASSUME DeploymentInv, [DeploymentNext]_deploymentVars PROVE DeploymentInv'
    OBVIOUS
<1>t. LedgerTypeOK /\ ReportTruthful /\ ExportInv
    BY DEF DeploymentInv
<1>l. ASSUME UNCHANGED <<source, out, ledger>> PROVE LedgerTypeOK'
    BY <1>t, <1>l DEF LedgerTypeOK
<1>r. ASSUME UNCHANGED <<ledger, reports>> PROVE ReportTruthful'
    BY <1>t, <1>r, ReportsStay DEF LedgerTypeOK
<1>e. ASSUME UNCHANGED exportVars PROVE ExportInv'
    BY <1>t, <1>e, ExportSteps
<1>1. CASE UNCHANGED deploymentVars
    BY <1>1, <1>l, <1>r, <1>e DEF deploymentVars, recordVars, exportVars, DeploymentInv
<1>2. ASSUME NEW order \in Orders, NEW mishap \in Mishaps,
             Deploy(order, mishap.failed, mishap.simulated)
      PROVE  DeploymentInv'
    <2>1. UNCHANGED <<exportVars, reports>>
        BY <1>2 DEF Deploy
    <2>2. /\ ledger' \in Seq(Mining) /\ Len(ledger') >= Len(ledger)
          /\ \A h \in DOMAIN ledger : ledger'[h] = ledger[h]
        BY <1>2, <1>t, DeployAppends
    <2>3. LedgerTypeOK'
        BY <1>t, <2>1, <2>2 DEF LedgerTypeOK, exportVars
    <2>4. ReportTruthful'
        BY <1>t, <2>1, <2>2, ReportsStay DEF LedgerTypeOK
    <2> QED  BY <1>e, <2>1, <2>3, <2>4 DEF DeploymentInv
<1>3. CASE ExportNext /\ UNCHANGED recordVars
    <2>1. UNCHANGED <<ledger, reports>>
        BY <1>3 DEF recordVars
    <2>2. ASSUME Compile PROVE LedgerTypeOK'
        <3>1. PICK names \in Rebuilds :
                 out' = [artifacts |-> [n \in Targets |-> IF n \in names THEN source ELSE out.artifacts[n]],
                         infos |-> out.infos \cup {[edition |-> source, names |-> names]}]
            BY <2>2 DEF Compile
        <3>2. names \subseteq Targets /\ UNCHANGED source
            BY <2>2, ExportConstants DEF Compile
        <3>3. out.artifacts \in [Targets -> Int] /\ source \in Int
            BY <1>t DEF LedgerTypeOK
        <3>4. out'.artifacts \in [Targets -> Int]
            BY <3>1, <3>3
        <3>5. \A info \in out'.infos : info.names \subseteq Targets
            BY <1>t, <3>1, <3>2 DEF LedgerTypeOK
        <3>6. source \in Nat /\ ledger \in Seq(Mining) /\ ledger' = ledger
            BY <1>t, <2>1 DEF LedgerTypeOK
        <3> QED  BY <3>2, <3>4, <3>5, <3>6 DEF LedgerTypeOK
    <2>3. ASSUME EditSources PROVE LedgerTypeOK'
        <3>1. source' = source + 1 /\ UNCHANGED out
            BY <2>3 DEF EditSources
        <3>2. UNCHANGED ledger
            BY <2>1
        <3> QED  BY <1>t, <3>1, <3>2 DEF LedgerTypeOK
    <2>4. ASSUME UNCHANGED <<source, out>> PROVE LedgerTypeOK'
        <3>1. UNCHANGED ledger
            BY <2>1
        <3> QED  BY <1>l, <2>4, <3>1
    <2>5. LedgerTypeOK'
        BY <1>3, <2>2, <2>3, <2>4, Zenon DEF ExportNext, load_targets_and_libraries, SelectCandidate, publish,
                                      KillExport, StartRender, render, generate, KillRender
    <2> QED  BY <1>t, <1>3, <1>r, <2>1, <2>5, ExportSteps DEF DeploymentInv
<1>4. CASE GenerateReleaseArtifacts
    BY <1>4, <1>l, <1>r, <1>e DEF GenerateReleaseArtifacts, exportVars, DeploymentInv
<1>5. CASE generate_manifest_input \/ generate_manifest \/ generate_address_books
    BY <1>5, <1>l, <1>r, <1>e DEF generate_manifest_input, generate_manifest,
                                  generate_address_books, exportVars, DeploymentInv
<1>6. ASSUME UNCHANGED <<exportVars, ledger>>, ReportTruthful' PROVE DeploymentInv'
    BY <1>6, <1>l, <1>e DEF exportVars, DeploymentInv
\* What is true of some records stays true while nothing is mined.
<1>s. ASSUME UNCHANGED ledger, NEW contracts, NEW rows, RecordsTrue(contracts, rows),
             report'.contracts = contracts, report'.records = rows
      PROVE  RecordsTrue(report.contracts, report.records)'
    <2>1. \A row : CodeAt(row.address)' = CodeAt(row.address)
        BY <1>s DEF CodeAt, InnerAddress
    <2> QED  BY <1>s, <2>1 DEF RecordsTrue, RecordsAreCode, Record
<1>7. CASE VerifyBroadcast
    <2>1. UNCHANGED <<exportVars, ledger, report>>
        BY <1>7 DEF VerifyBroadcast
    <2>2. RecordsTrue(report.contracts, report.records)'
        BY <1>s, <1>t, <2>1 DEF ReportTruthful
    <2> QED  BY <1>6, <1>7, <1>t, <2>1, <2>2, VerifiedIsTrue DEF ReportTruthful
<1>8. CASE WriteReport
    <2>1. /\ UNCHANGED <<exportVars, ledger>> /\ verification' = NotVerifying
          /\ report'.contracts = verification.contracts /\ report'.records = verification.records
        BY <1>8 DEF WriteReport
    <2>2. RecordsTrue(report.contracts, report.records)'
        BY <1>s, <1>t, <2>1 DEF ReportTruthful
    <2>3. RecordsTrue(verification.contracts, verification.records)'
        BY <2>1 DEF NotVerifying, RecordsTrue, RecordsAreCode
    <2> QED  BY <1>6, <2>1, <2>2, <2>3 DEF ReportTruthful
<1>9. CASE KillVerifier
    <2>1. UNCHANGED <<exportVars, ledger, report>> /\ verification' = NotVerifying
        BY <1>9 DEF KillVerifier
    <2>2. RecordsTrue(report.contracts, report.records)'
        BY <1>s, <1>t, <2>1 DEF ReportTruthful
    <2>3. RecordsTrue(verification.contracts, verification.records)'
        BY <2>1 DEF NotVerifying, RecordsTrue, RecordsAreCode
    <2> QED  BY <1>6, <2>1, <2>2, <2>3 DEF ReportTruthful
<1>10. CASE Edit
    <2>1. UNCHANGED <<exportVars, ledger, reports>>
        BY <1>10 DEF Edit, EditTemplate, EditBroadcast, EditRecord
    <2> QED  BY <1>6, <1>r, <2>1
<1> QED
    BY <1>1, <1>2, <1>3, <1>4, <1>5, <1>7, <1>8, <1>9, <1>10 DEF DeploymentNext

LEMMA DeploymentAlways == DeploymentSpec => []DeploymentInv
    BY DeploymentStarts, DeploymentSteps, PTL DEF DeploymentSpec

\* ExportIsOneCompilation: what the client's generator took from an export, while it was being
\* written or after a writer was killed, is one compilation; so is an export with right digests.
THEOREM ExportsAreOneCompilation == DeploymentSpec => []ExportIsOneCompilation
<1>1. ASSUME ExportInv PROVE ExportIsOneCompilation
    <2>1. /\ \A f \in DOMAIN client : \A n, m \in Range(ClientTargets) :
                client[f].artifacts[n] = client[f].artifacts[m]
          /\ "provenance.ts" \in DOMAIN client =>
                \A n \in Range(ClientTargets) :
                    client["provenance.ts"].artifacts[n] = client["provenance.ts"].manifest[CompilerInput]
        BY <1>1 DEF ExportInv, ClientInv
    <2>2. ASSUME current.manifest # NoDigests
          PROVE  DOMAIN current.manifest = Digested /\ OneCompilation(current.manifest)
        BY <1>1, <2>2 DEF ExportInv, ExporterInv, Compiled
    <2>3. ASSUME current.files = current.manifest, NEW f \in DOMAIN current.files
          PROVE  current.files[f] = current.files[CompilerInput]
        BY <2>2, <2>3 DEF OneCompilation, NoDigests
    <2>4. ASSUME client_checked, NEW f \in Range(Generated), NEW n \in Range(ClientTargets)
          PROVE  client[f].artifacts[n] = current.files[CompilerInput]
        <3>1. n \in Digested /\ CompilerInput \in Digested
            BY ExportConstants DEF Range, Digested
        <3>2. OneCompilation(current.manifest)
            BY <2>2, <2>4 DEF client_checked
        <3>3. client[f] = projection(f, current.manifest,
                                     [m \in Range(ClientTargets) |-> current.files[m]])
            BY <2>4 DEF client_checked
        <3>4. client[f].artifacts[n] = current.files[n]
            BY <2>4, <3>3 DEF projection
        <3>5. /\ current.files[n] = current.manifest[n]
              /\ current.files[CompilerInput] = current.manifest[CompilerInput]
            BY <2>4 DEF client_checked, digest_matches
        <3> QED  BY <3>1, <3>2, <3>4, <3>5 DEF OneCompilation
    <2> QED  BY <2>1, <2>3, <2>4 DEF ExportIsOneCompilation
<1>2. DeploymentInv => ExportIsOneCompilation
    BY <1>1 DEF DeploymentInv
<1> QED  BY <1>2, DeploymentAlways, PTL

\* The transaction that created a contract of the release, in a broadcast the records agree with.
LEMMA AcceptedBook ==
    ASSUME RecordsChecked, NEW n \in Contracts
    PROVE  LET entry(m) == CHOOSE i \in DOMAIN broadcast.transactions :
                               broadcast.transactions[i].create /\ broadcast.transactions[i].name = m
               created(m) == broadcast.transactions[entry(m)].address
           IN /\ entry(n) \in DOMAIN broadcast.transactions
              /\ broadcast.transactions[entry(n)].create
              /\ broadcast.transactions[entry(n)].name = n
              /\ book.address[n] = created(n) /\ book.hashes[n] = checksums
              /\ template.argument[n] = template.address[ArgumentOf[n]] =>
                    manifest.argument[n] = created(ArgumentOf[n])
<1> DEFINE made == broadcast.transactions
           entry(m) == CHOOSE i \in DOMAIN made : made[i].create /\ made[i].name = m
           created(m) == made[entry(m)].address
<1>1. /\ input = build_manifest_input(template, broadcast)
      /\ deployments_extracted(broadcast, template) /\ template_is_unambiguous(template)
      /\ DOMAIN input.address = Contracts
      /\ manifest = build_manifest /\ book = build_address_book
    BY DEF RecordsChecked, check_manifest_input, input_buildable, check_manifest,
           manifest_buildable, Manifest_contract_set, load_release_hashes, check_address_books
<1>2. DOMAIN template.address = Contracts
    BY <1>1 DEF build_manifest_input, expected_contract_names
<1>3. \A m \in Contracts : \E i \in DOMAIN made : made[i].create /\ made[i].name = m
    BY <1>1, <1>2 DEF deployments_extracted, expected_contract_names, Creations,
                      is_deployment_transaction
<1>4. \A m : extract_deployments(broadcast, m).address = created(m)
    <2>1. Creations(broadcast) = {i \in DOMAIN made : made[i].create}
        BY DEF Creations, is_deployment_transaction
    <2> SUFFICES ASSUME NEW m PROVE extract_deployments(broadcast, m).address = created(m)
        OBVIOUS
    <2>2. (CHOOSE k \in Creations(broadcast) : made[k].name = m) = entry(m)
        BY <2>1
    <2> QED  BY <2>2 DEF extract_deployments
<1>5. /\ entry(n) \in DOMAIN made /\ made[entry(n)].create /\ made[entry(n)].name = n
    BY <1>3
<1>6. /\ input.address[n] = extract_deployments(broadcast, n).address
      /\ input.argument[n] = replace_constructor_arg_addresses(template, broadcast, template.argument[n])
    BY <1>1, <1>2 DEF build_manifest_input, expected_contract_names
<1>7. /\ book.address[n] = input.address[n] /\ book.hashes[n] = checksums
      /\ manifest.argument[n] = input.argument[n]
    BY <1>1 DEF build_manifest, build_address_book, load_release_hashes
<1>8. ASSUME template.argument[n] = template.address[ArgumentOf[n]]
      PROVE  input.argument[n] = created(ArgumentOf[n])
    <2> DEFINE named == {m \in expected_contract_names(template) :
                            template.address[m] = template.argument[n]}
    <2>1. ArgumentOf[n] \in Contracts
        BY RecordsConstants
    <2>2. named = {ArgumentOf[n]}
        BY <1>1, <1>2, <1>8, <2>1 DEF template_is_unambiguous, expected_contract_names
    <2>3. (CHOOSE m \in named : TRUE) = ArgumentOf[n]
        BY <2>2
    <2> HIDE DEF created
    <2> QED  BY <1>4, <1>6, <2>2, <2>3 DEF replace_constructor_arg_addresses
<1> QED  BY <1>4, <1>5, <1>6, <1>7, <1>8

\* AcceptedBookFollowsTheBroadcast: when the three checks pass, addresses, constructor arguments
\* and hashes of every contract are those of one broadcast and of the release baseline.
THEOREM BooksFollowTheBroadcast == DeploymentSpec => []AcceptedBookFollowsTheBroadcast
<1>1. AcceptedBookFollowsTheBroadcast
    BY AcceptedBook DEF AcceptedBookFollowsTheBroadcast
<1> QED  BY <1>1, PTL

\* VerifiedMeansOnChain: what a report lists is code on chain, linked to a reported library, also
\* after further deployments; and an accepted book of a broadcast whose creations are all reported
\* gives the addresses of that very code.
THEOREM VerifiedIsOnChain == DeploymentSpec => []VerifiedMeansOnChain
<1>1. ASSUME DeploymentInv PROVE VerifiedMeansOnChain
    <2>1. /\ RecordsAreCode(report.contracts, report.records)
          /\ \A c, d \in report.contracts : c.name = d.name => c = d
        BY <1>1 DEF DeploymentInv, ReportTruthful, RecordsTrue
    <2>2. ASSUME RecordsChecked, created_records(broadcast) \subseteq report.records,
                 NEW n \in Contracts, [name |-> n, edition |-> checksums] \in report.contracts
          PROVE  LET code == CodeAt(book.address[n])
                 IN code.name = n /\ code.edition = book.hashes[n]
        <3>1. PICK i \in DOMAIN broadcast.transactions :
                 /\ broadcast.transactions[i].create /\ broadcast.transactions[i].name = n
                 /\ book.address[n] = broadcast.transactions[i].address
                 /\ book.hashes[n] = checksums
            BY <2>2, AcceptedBook
        <3>2. Record(book.address[n], n) \in report.records
            BY <2>2, <3>1 DEF created_records, is_deployment_transaction
        <3> DEFINE code == CodeAt(book.address[n])
        <3>3. code.name = n /\ [name |-> n, edition |-> code.edition] \in report.contracts
            BY <2>1, <3>2 DEF RecordsAreCode, Record
        <3>4. [name |-> n, edition |-> code.edition] = [name |-> n, edition |-> checksums]
            BY <2>1, <2>2, <3>3
        <3> HIDE DEF code
        <3>5. code.edition = checksums
            BY <3>4
        <3> QED  BY <3>1, <3>3, <3>5 DEF code
    <2> QED  BY <2>1, <2>2 DEF VerifiedMeansOnChain, RecordsAreCode
<1> QED  BY <1>1, DeploymentAlways, PTL

-----------------------------------------------------------------------------
(* The executor.                                                           *)

USE SessionAssumption, PlanAssumption

\* Where a run has read its starting nonce.
Counting == (InTry \ {"preflight"}) \cup {"orphan"}

\* From the loop on, initial_nonce is a number.
NonceInv == \A s \in Sessions : pc[s] \in Counting => run[s].nonce \in Nat

TInv == TypeOK /\ NonceInv

\* What a step of run s does to the runs: it moves s to `to', leaves it with the variables
\* r and the journal j, and does not touch the others.
Moves(s, to, r, j) ==
    /\ pc' = [pc EXCEPT ![s] = to]
    /\ run' = [run EXCEPT ![s] = r]
    /\ journal' = [journal EXCEPT ![s] = j]

\* The variables outside the runs have their types after the step.
RestOK ==
    /\ lock' \in [Clones -> Sessions \cup {NoSession}]
    /\ receipts' \in [Outputs -> Receipt]
    /\ blocks' \in Seq(Block) /\ pool' \in Seq(Tx) /\ nextBlock' \in Nat
    /\ sent' \subseteq [session : Sessions, index : Nat, nonce : Nat]

\* The type invariant holds initially: nothing has started and the chain is empty.
LEMMA TypeInit == Init => TInv
  BY DEF Init, TInv, TypeOK, NonceInv, NewRun, NoJournal, NoReceipt, Locations, InTry, Dead,
         Run, Journal, Receipt, Statuses, Counting

\* A step that moves one run to a typed place with typed variables keeps the type invariant.
LEMMA TypeMoves ==
    ASSUME TInv, NEW s \in Sessions, NEW to \in Locations, NEW r \in Run, NEW j \in Journal,
           Moves(s, to, r, j), to \in Counting => r.nonce \in Nat, RestOK
    PROVE  TInv'
  BY DEF TInv, TypeOK, NonceInv, Moves, RestOK

\* The fields of a run and of a journal.
LEMMA Fields ==
    ASSUME TInv, NEW s \in Sessions
    PROVE  /\ run[s] \in Run /\ run[s].nonce \in Nat \cup {NoNonce} /\ run[s].index \in Nat
           /\ run[s].attempted \in BOOLEAN /\ run[s].retained \in Seq(Nat)
           /\ run[s].tip \in Seq(Block) /\ run[s].swept \in Nat
           /\ journal[s] \in Journal /\ journal[s].verified \in Nat
           /\ journal[s].status \in Statuses /\ journal[s].success \in BOOLEAN
           /\ run = [run EXCEPT ![s] = run[s]] /\ journal = [journal EXCEPT ![s] = journal[s]]
           /\ Len(blocks) \in Nat /\ Len(pool) \in Nat /\ PendingNonce \in Nat
           /\ pc[s] \in Counting => run[s].nonce \in Nat
<1>1. run[s] \in Run /\ journal[s] \in Journal
  BY DEF TInv, TypeOK
<1>2. run = [run EXCEPT ![s] = run[s]] /\ journal = [journal EXCEPT ![s] = journal[s]]
  BY DEF TInv, TypeOK
<1>3. Len(blocks) \in Nat /\ Len(pool) \in Nat /\ PendingNonce \in Nat
  BY DEF TInv, TypeOK, PendingNonce
<1>4. pc[s] \in Counting => run[s].nonce \in Nat
  BY DEF TInv, NonceInv
<1> QED  BY <1>1, <1>2, <1>3, <1>4 DEF Run, Journal

\* Updating a number, a sequence or the flag of a run keeps its type.
LEMMA RunUpdates ==
    /\ \A r \in Run, n \in Nat : /\ [r EXCEPT !.nonce = n] \in Run
                               /\ [r EXCEPT !.index = n] \in Run
                               /\ [r EXCEPT !.swept = n] \in Run
    /\ \A r \in Run : [r EXCEPT !.attempted = TRUE] \in Run
    /\ \A r \in Run, q \in Seq(Nat) : [r EXCEPT !.retained = q] \in Run
    /\ \A r \in Run, q \in Seq(Block) : [r EXCEPT !.tip = q] \in Run
  BY DEF Run

\* Updating a journal keeps its type.
LEMMA JournalUpdates ==
    \A j \in Journal :
        /\ \A st \in Statuses : [j EXCEPT !.status = st] \in Journal
        /\ \A st \in Statuses, b \in BOOLEAN : [j EXCEPT !.status = st, !.success = b] \in Journal
        /\ \A a \in {"none", "prepared", "submitted"} : [j EXCEPT !.active = a] \in Journal
        /\ \A n \in Nat : [j EXCEPT !.active = "none", !.verified = n] \in Journal
  BY DEF Journal

\* Starting: execute_plan, the lock, the journal.
LEMMA TypeStart ==
    ASSUME TInv, NEW s \in Sessions,
           \/ execute_plan(s) \/ acquire_execution_lock(s) \/ LockRefused(s)
           \/ OpenJournal(s) \/ JournalRefused(s)
    PROVE  TInv'
<1>0. RestOK
  <2> USE DEF TInv, TypeOK, RestOK, files, chain
  <2>1. CASE acquire_execution_lock(s)
    BY <2>1 DEF acquire_execution_lock
  <2>2. CASE JournalRefused(s)
    BY <2>2 DEF JournalRefused
  <2>3. CASE execute_plan(s) \/ LockRefused(s) \/ OpenJournal(s)
    BY <2>3 DEF execute_plan, LockRefused, OpenJournal
  <2> QED  BY <2>1, <2>2, <2>3
<1> USE Fields DEF Locations, InTry, Dead, Counting, Goto, Moves, files, chain
<1>1. CASE execute_plan(s)
  <2>1. CASE IsV2(s)
    <3>1. Len(blocks) \in Nat
      BY Fields
    <3>2. [run[s] EXCEPT !.nonce = Len(blocks)] \in Run
      BY <3>1, RunUpdates
    <3>3. Moves(s, "starting", [run[s] EXCEPT !.nonce = Len(blocks)], journal[s])
      BY <1>1, <2>1 DEF execute_plan
    <3> QED  BY <1>0, <3>2, <3>3, TypeMoves
  <2>2. CASE ~IsV2(s)
    <3>1. Moves(s, "starting", run[s], journal[s])
      BY <1>1, <2>2 DEF execute_plan
    <3> QED  BY <1>0, <3>1, TypeMoves
  <2> QED  BY <2>1, <2>2
<1>2. CASE acquire_execution_lock(s)
  <2>1. Moves(s, "locked", run[s], journal[s])
    BY <1>2 DEF acquire_execution_lock
  <2> QED  BY <1>0, <2>1, TypeMoves
<1>3. CASE LockRefused(s)
  <2>1. Moves(s, "idle", NewRun, journal[s]) /\ NewRun \in Run
    BY <1>3 DEF LockRefused, NewRun, Run
  <2> QED  BY <1>0, <2>1, TypeMoves
<1>4. CASE OpenJournal(s)
  <2>1. [NoJournal EXCEPT !.status = "preflight"] \in Journal
    BY DEF NoJournal, Journal, Statuses
  <2>2. Moves(s, "preflight", run[s], [NoJournal EXCEPT !.status = "preflight"])
    BY <1>4 DEF OpenJournal
  <2> QED  BY <1>0, <2>1, <2>2, TypeMoves
<1>5. CASE JournalRefused(s)
  <2>1. Moves(s, "done", run[s], journal[s])
    BY <1>5 DEF JournalRefused
  <2> QED  BY <1>0, <2>1, TypeMoves
<1> QED  BY <1>1, <1>2, <1>3, <1>4, <1>5

\* Deployment b of a run that starts at nonce a is transaction a + b + 1 of the chain.
LEMMA Position ==
    ASSUME NEW a \in Nat, NEW b \in Nat, NEW n \in Nat, a + b + 1 <= n
    PROVE  a + b + 1 \in 1 .. n
OBVIOUS

\* Broadcasting: nonces are numbers once Preflight has read one, and so are block ids.
LEMMA TypeLoop ==
    ASSUME TInv, NEW s \in Sessions,
           \/ Preflight(s) \/ Prepare(s) \/ StartForge(s)
           \/ \E ok \in BOOLEAN : Broadcast(s, ok)
           \/ transaction_hash_from_broadcast(s) \/ verify_chain_deployment(s) \/ Retain(s)
    PROVE  TInv'
<1>0. CASE ~\E ok \in BOOLEAN : Broadcast(s, ok)
  <2>0. RestOK
    BY <1>0 DEF TInv, TypeOK, RestOK, files, chain, Preflight, Prepare, StartForge,
           transaction_hash_from_broadcast, verify_chain_deployment, Retain
  <2> USE Fields, RunUpdates DEF Locations, InTry, Dead, Counting, Goto, Moves, files
  <2>1. CASE Preflight(s)
    <3>1. Moves(s, "loop", [run[s] EXCEPT !.nonce = Len(blocks)],
                [journal[s] EXCEPT !.status = "broadcasting"])
      BY <2>1 DEF Preflight
    <3>2. [journal[s] EXCEPT !.status = "broadcasting"] \in Journal
      BY JournalUpdates DEF Statuses
    <3>3. [run[s] EXCEPT !.nonce = Len(blocks)].nonce \in Nat
      BY DEF Run
    <3> QED  BY <2>0, <3>1, <3>2, <3>3, TypeMoves
  <2>2. CASE Prepare(s)
    <3>1. Moves(s, "prepared", run[s], [journal[s] EXCEPT !.active = "prepared"])
      BY <2>2 DEF Prepare
    <3>2. [journal[s] EXCEPT !.active = "prepared"] \in Journal /\ run[s].nonce \in Nat
      BY <2>2 DEF Prepare, Journal
    <3> QED  BY <2>0, <3>1, <3>2, TypeMoves
  <2>3. CASE StartForge(s)
    <3>1. Moves(s, "sending", [run[s] EXCEPT !.attempted = TRUE], journal[s])
      BY <2>3 DEF StartForge
    <3>2. [run[s] EXCEPT !.attempted = TRUE].nonce \in Nat
      BY <2>3 DEF StartForge, Run
    <3> QED  BY <2>0, <3>1, <3>2, TypeMoves
  <2>4. CASE transaction_hash_from_broadcast(s)
    <3>1. Moves(s, "submitted", run[s], [journal[s] EXCEPT !.active = "submitted"])
      BY <2>4 DEF transaction_hash_from_broadcast
    <3>2. [journal[s] EXCEPT !.active = "submitted"] \in Journal /\ run[s].nonce \in Nat
      BY <2>4 DEF transaction_hash_from_broadcast, Journal
    <3> QED  BY <2>0, <3>1, <3>2, TypeMoves
  <2>5. CASE verify_chain_deployment(s)
    <3> DEFINE at == run[s].nonce + run[s].index + 1
    <3>0. run[s].nonce \in Nat
      BY <2>5 DEF verify_chain_deployment
    <3>1. at \in 1 .. Len(blocks)
      <4>1. at <= Len(blocks)
        BY <2>5 DEF verify_chain_deployment, Deployed
      <4>2. run[s].index \in Nat /\ Len(blocks) \in Nat
        BY Fields DEF TInv, TypeOK
      <4> HIDE DEF Locations, InTry, Dead, Counting, Goto, Moves, files
      <4>3. QED
        BY <3>0, <4>1, <4>2, Position
    <3>2. blocks[at] \in Block
      BY <3>1 DEF TInv, TypeOK
    <3>3. blocks[at].id \in Nat
      BY <3>2 DEF Block
    <3>4. Append(run[s].retained, blocks[at].id) \in Seq(Nat)
      BY <3>3
    <3>5. Moves(s, "checked", [run[s] EXCEPT !.retained = Append(run[s].retained, blocks[at].id)],
                journal[s])
      BY <2>5 DEF verify_chain_deployment
    <3>6. [run[s] EXCEPT !.retained = Append(run[s].retained, blocks[at].id)].nonce \in Nat
      BY <3>0 DEF Run
    <3> QED  BY <2>0, <3>4, <3>5, <3>6, TypeMoves
  <2>6. CASE Retain(s)
    <3> DEFINE r == [run[s] EXCEPT !.index = run[s].index + 1]
               j == [journal[s] EXCEPT !.active = "none", !.verified = journal[s].verified + 1]
    <3>1. Moves(s, "loop", r, j)
      BY <2>6 DEF Retain
    <3>0. run[s].index + 1 \in Nat /\ journal[s].verified + 1 \in Nat
      BY Fields
    <3>2. r \in Run
      BY <3>0, RunUpdates
    <3>3. r.nonce \in Nat
      BY <2>6 DEF Retain, Run
    <3>4. j \in Journal
      BY <3>0, JournalUpdates
    <3> HIDE DEF r, j
    <3> QED  BY <2>0, <3>1, <3>2, <3>3, <3>4, TypeMoves
  <2> QED  BY <1>0, <2>1, <2>2, <2>3, <2>4, <2>5, <2>6
<1>1. ASSUME NEW ok \in BOOLEAN, Broadcast(s, ok)
      PROVE  TInv'
  <2>1. run[s].index \in Nat /\ PendingNonce \in Nat
    BY Fields
  <2>2. [session |-> s, index |-> run[s].index, succeeds |-> ok] \in Tx
    BY <2>1 DEF Tx
  <2>3. pool' \in Seq(Tx)
    BY <1>1, <2>2 DEF Broadcast, TInv, TypeOK
  <2>4. sent' \subseteq [session : Sessions, index : Nat, nonce : Nat]
    BY <1>1, <2>1 DEF Broadcast, TInv, TypeOK
  <2>5. UNCHANGED <<run, journal, lock, receipts, blocks, nextBlock>>
    BY <1>1 DEF Broadcast, files
  <2>6. RestOK
    BY <2>3, <2>4, <2>5 DEF RestOK, TInv, TypeOK
  <2>7. \/ pc[s] = "sending" /\ pc' = [pc EXCEPT ![s] = "sent"]
        \/ pc[s] = "orphan" /\ pc' = [pc EXCEPT ![s] = "crashed"]
    BY <1>1 DEF Broadcast, Goto
  <2>8. CASE pc[s] = "sending"
    <3>1. Moves(s, "sent", run[s], journal[s]) /\ run[s].nonce \in Nat
      BY <2>5, <2>7, <2>8, Fields DEF Moves, Counting, InTry
    <3> QED  BY <2>6, <3>1, TypeMoves, Fields DEF Locations, InTry
  <2>9. CASE pc[s] = "orphan"
    <3>1. Moves(s, "crashed", run[s], journal[s]) /\ run[s].nonce \in Nat
      BY <2>5, <2>7, <2>9, Fields DEF Moves, Counting
    <3> QED  BY <2>6, <3>1, TypeMoves, Fields DEF Locations, Dead
  <2> QED  BY <2>7, <2>8, <2>9
<1> QED  BY <1>0, <1>1

\* The sweep, the receipt and the ways out.
LEMMA TypeFinish ==
    ASSUME TInv, NEW s \in Sessions,
           \/ capture_canonical_tip(s) \/ FinalSweep(s) \/ AnnounceReceipt(s)
           \/ PublishReceipt(s) \/ CloseJournal(s)
           \/ Fail(s) \/ Interrupt(s) \/ release_execution_lock(s) \/ Crash(s)
    PROVE  TInv'
<1>1. RestOK
  <2> USE DEF TInv, TypeOK, RestOK, files, chain
  <2>1. CASE PublishReceipt(s)
    <3>1. run[s].nonce \in Nat /\ run[s].tip \in Seq(Block)
      BY <2>1, Fields DEF PublishReceipt, Goto, Counting, InTry
    <3>2. [session |-> s, nonce |-> run[s].nonce, tip |-> run[s].tip] \in Receipt
      BY <3>1 DEF Receipt
    <3> QED  BY <2>1, <3>2 DEF PublishReceipt
  <2>2. CASE release_execution_lock(s)
    BY <2>2 DEF release_execution_lock
  <2>3. CASE ~PublishReceipt(s) /\ ~release_execution_lock(s)
    BY <2>3 DEF capture_canonical_tip, FinalSweep, AnnounceReceipt, CloseJournal, Fail, Interrupt,
                Crash
  <2> QED  BY <2>1, <2>2, <2>3
<1> USE Fields, RunUpdates DEF Locations, InTry, Dead, Counting, Goto, Moves, files, chain
<1>2. CASE capture_canonical_tip(s)
  <2>1. Moves(s, "sweep", [run[s] EXCEPT !.tip = blocks], journal[s])
    BY <1>2 DEF capture_canonical_tip
  <2>2. [run[s] EXCEPT !.tip = blocks] \in Run
    BY DEF TInv, TypeOK
  <2>3. [run[s] EXCEPT !.tip = blocks].nonce \in Nat
    BY <1>2 DEF capture_canonical_tip, Run
  <2> QED  BY <1>1, <2>1, <2>2, <2>3, TypeMoves
<1>3. CASE FinalSweep(s)
  <2>1. pc' = [pc EXCEPT ![s] = "sweep"]
    BY <1>3 DEF FinalSweep, TInv, TypeOK
  <2>2. Moves(s, "sweep", [run[s] EXCEPT !.swept = run[s].swept + 1], journal[s])
    BY <1>3, <2>1 DEF FinalSweep
  <2>3. [run[s] EXCEPT !.swept = run[s].swept + 1].nonce \in Nat
    BY <1>3 DEF FinalSweep, Run
  <2>0. run[s].swept + 1 \in Nat
    BY Fields
  <2>4. [run[s] EXCEPT !.swept = run[s].swept + 1] \in Run
    BY <2>0, RunUpdates
  <2> QED  BY <1>1, <2>2, <2>3, <2>4, TypeMoves
<1>4. CASE AnnounceReceipt(s)
  <2>1. Moves(s, "publishing", run[s],
              [journal[s] EXCEPT !.status = "publishing", !.success = FALSE])
    BY <1>4 DEF AnnounceReceipt
  <2>2. [journal[s] EXCEPT !.status = "publishing", !.success = FALSE] \in Journal
    BY JournalUpdates DEF Statuses
  <2>3. run[s].nonce \in Nat
    BY <1>4 DEF AnnounceReceipt
  <2> QED  BY <1>1, <2>1, <2>2, <2>3, TypeMoves
<1>5. CASE PublishReceipt(s)
  <2>1. Moves(s, "published", run[s], journal[s]) /\ run[s].nonce \in Nat
    BY <1>5 DEF PublishReceipt
  <2> QED  BY <1>1, <2>1, TypeMoves
<1>6. CASE CloseJournal(s)
  <2>1. Moves(s, "releasing", run[s],
              [journal[s] EXCEPT !.status = "verified", !.success = TRUE])
    BY <1>6 DEF CloseJournal
  <2>2. [journal[s] EXCEPT !.status = "verified", !.success = TRUE] \in Journal
    BY JournalUpdates DEF Statuses
  <2> QED  BY <1>1, <2>1, <2>2, TypeMoves
<1>7. CASE Fail(s)
  <2> DEFINE st == IF run[s].attempted THEN "failed_or_ambiguous" ELSE "failed_preflight"
             j == [journal[s] EXCEPT !.status = st, !.success = FALSE]
  <2>1. Moves(s, "releasing", run[s], j)
    BY <1>7 DEF Fail
  <2>2. j \in Journal
    BY JournalUpdates DEF Statuses
  <2> HIDE DEF j
  <2> QED  BY <1>1, <2>1, <2>2, TypeMoves
<1>8. CASE Interrupt(s)
  <2>1. Moves(s, "releasing", run[s], journal[s])
    BY <1>8 DEF Interrupt
  <2> QED  BY <1>1, <2>1, TypeMoves
<1>9. CASE release_execution_lock(s)
  <2>1. Moves(s, "done", run[s], journal[s])
    BY <1>9 DEF release_execution_lock
  <2> QED  BY <1>1, <2>1, TypeMoves
<1>10. CASE Crash(s)
  <2> DEFINE to == IF pc[s] = "sending" THEN "orphan" ELSE "crashed"
  <2>1. Moves(s, to, run[s], journal[s])
    BY <1>10 DEF Crash
  <2>2. to \in Locations /\ (to \in Counting => run[s].nonce \in Nat)
    OBVIOUS
  <2> HIDE DEF to
  <2> QED  BY <1>1, <2>1, <2>2, TypeMoves
<1> QED  BY <1>2, <1>3, <1>4, <1>5, <1>6, <1>7, <1>8, <1>9, <1>10

\* The operator and the chain.
LEMMA TypeChain ==
    ASSUME TInv, (\E c \in Clones : RemoveStaleLock(c)) \/ Mine \/ Reorg \/ Drop \/ OtherWallet
    PROVE  TInv'
<1> USE DEF TInv, TypeOK, NonceInv, files, chain
<1>1. ASSUME NEW c \in Clones, RemoveStaleLock(c)
      PROVE  TInv'
  BY <1>1 DEF RemoveStaleLock
<1>2. CASE Mine
  <2>1. Head(pool) \in Tx /\ Tail(pool) \in Seq(Tx)
    BY <1>2 DEF Mine
  <2>2. [id |-> nextBlock, tx |-> Head(pool)] \in Block
    BY <2>1 DEF Block
  <2>3. blocks' \in Seq(Block) /\ pool' \in Seq(Tx) /\ nextBlock' \in Nat
    BY <1>2, <2>1, <2>2 DEF Mine
  <2> QED  BY <1>2, <2>3 DEF Mine
<1>3. CASE Reorg
  <2>1. Len(blocks) \in Nat \ {0}
    BY <1>3 DEF Reorg
  <2>2. Last(blocks) \in Block /\ Front(blocks) \in Seq(Block)
    BY <2>1 DEF Last, Front
  <2>3. Last(blocks).tx \in Tx
    BY <2>2 DEF Block
  <2>4. blocks' \in Seq(Block) /\ pool' \in Seq(Tx)
    BY <1>3, <2>2, <2>3 DEF Reorg
  <2> QED  BY <1>3, <2>4 DEF Reorg
<1>4. CASE Drop
  <2>1. Len(pool) \in Nat \ {0}
    BY <1>4 DEF Drop
  <2>2. Front(pool) \in Seq(Tx)
    BY <2>1 DEF Front
  <2> QED  BY <1>4, <2>2 DEF Drop
<1>5. CASE OtherWallet
  <2>1. [session |-> NoSession, index |-> 0, succeeds |-> TRUE] \in Tx
    BY DEF Tx
  <2> QED  BY <1>5, <2>1 DEF OtherWallet
<1> QED  BY <1>1, <1>2, <1>3, <1>4, <1>5

\* Each step keeps the type invariant.
LEMMA TypeNext ==
    ASSUME TInv, [Next]_vars
    PROVE  TInv'
<1>1. CASE UNCHANGED vars
  BY <1>1 DEF vars, files, chain, TInv, TypeOK, NonceInv
<1>2. CASE Next
  BY <1>2, TypeStart, TypeLoop, TypeFinish, TypeChain DEF Next, Step
<1> QED  BY <1>1, <1>2

\* Every variable of the executor, its files and the chain keeps its type, for every set of
\* runs, clones, plans and outputs.
THEOREM TypeCorrect == Spec => []TypeOK
<1>1. TInv /\ [Next]_vars => TInv'
  BY TypeNext
<1>2. TInv => TypeOK
  BY DEF TInv
<1> QED  BY <1>1, <1>2, TypeInit, PTL DEF Spec

-------------------------------------------------------------------------------
(* No deployment is sent twice.                                            *)

Early == {"idle", "starting", "locked", "preflight"}
Holding == InTry \cup {"locked", "releasing"}
\* Where the current deployment has not been sent yet, or has and forge has not said so.
Unsent == {"loop", "prepared", "sending", "orphan"}
Attempting == {"sending", "sent", "submitted", "checked", "orphan"}

\* The journal is one that no later run of the plan gets past.
Committed(j) == j.status \in {"broadcasting", "publishing", "verified", "failed_or_ambiguous"}

\* A run in the locked part of execute_plan owns the lock of its clone.
LockInv == \A s \in Sessions : pc[s] \in Holding => lock[CloneOf[s]] = s

\* The journal is written ahead: it is committed before forge can have been started.
Ahead(p, r, j) ==
    /\ p \in Early => ~r.attempted
    /\ p \in Counting => Committed(j)
    /\ p \in Attempting => r.attempted
    /\ r.attempted => Committed(j)
AheadInv == \A s \in Sessions : Ahead(pc[s], run[s], journal[s])

Rival(s, u) == s # u /\ CloneOf[s] = CloneOf[u] /\ PlanOf[s] = PlanOf[u]

\* Of the runs of one plan in one clone, only one is ever committed, and none begins beside it.
ExclusiveInv ==
    \A s, u \in Sessions :
        Rival(s, u) /\ Committed(journal[s]) => ~Committed(journal[u]) /\ pc[u] # "preflight"

\* What a run has sent is behind its index, or at it once forge has been heard of.
SentInv ==
    \A a \in sent :
        LET s == a.session
        IN  /\ run[s].attempted
            /\ a.index <= run[s].index
            /\ pc[s] \in Unsent => a.index < run[s].index

SInv == LockInv /\ AheadInv /\ ExclusiveInv /\ SentInv /\ SentOnce

\* The invariant holds before the first run starts.
LEMMA SafeInit == Init => SInv
  BY DEF Init, SInv, LockInv, AheadInv, Ahead, ExclusiveInv, SentInv, SentOnce, NewRun, NoJournal,
         Early, Holding, Counting, Attempting, Committed, InTry

\* Progress of one run: its index never falls once it has started forge, and it is only
\* back before a broadcast with a higher index.
Forward(s, to, r) ==
    run[s].attempted => /\ r.attempted /\ run[s].index <= r.index
                        /\ to \in Unsent => pc[s] \in Unsent \/ run[s].index < r.index

\* A step of one run that keeps the locks apart, writes its journal ahead, commits it only
\* from preflight, enters preflight only beside uncommitted journals and sends nothing keeps
\* the invariant.
LEMMA SafeMoves ==
    ASSUME TInv, SInv, NEW s \in Sessions, NEW to \in Locations, NEW r \in Run, NEW j \in Journal,
           Moves(s, to, r, j), LockInv', Ahead(to, r, j), Forward(s, to, r),
           Committed(j) => Committed(journal[s]) \/ pc[s] = "preflight",
           to = "preflight" => \A u \in Sessions : Rival(s, u) => ~Committed(journal[u]),
           sent' = sent
    PROVE  SInv'
<1>1. /\ pc'[s] = to /\ run'[s] = r /\ journal'[s] = j
      /\ \A u \in Sessions \ {s} : pc'[u] = pc[u] /\ run'[u] = run[u] /\ journal'[u] = journal[u]
  BY DEF Moves, TInv, TypeOK
<1>2. AheadInv'
  BY <1>1 DEF AheadInv, SInv
<1>3. ExclusiveInv'
  <2> SUFFICES ASSUME NEW u \in Sessions, NEW v \in Sessions, Rival(u, v), Committed(journal'[u])
               PROVE  ~Committed(journal'[v]) /\ pc'[v] # "preflight"
    BY DEF ExclusiveInv
  <2>0. u # v /\ Rival(v, u)
    BY DEF Rival
  <2>1. CASE u # s /\ v # s
    BY <1>1, <2>1 DEF ExclusiveInv, SInv
  <2>2. CASE u = s
    <3>1. v # s /\ journal'[v] = journal[v] /\ pc'[v] = pc[v] /\ Committed(j)
      BY <1>1, <2>0, <2>2
    <3>2. CASE Committed(journal[s])
      BY <2>2, <3>1, <3>2 DEF ExclusiveInv, SInv
    <3>3. CASE pc[s] = "preflight"
      <4>1. ~Committed(journal[v])
        BY <2>0, <2>2, <3>3 DEF ExclusiveInv, SInv
      <4>2. pc[v] # "preflight"
        BY <2>0, <2>2, <3>3 DEF SInv, LockInv, Holding, InTry, Rival
      <4> QED  BY <3>1, <4>1, <4>2
    <3> QED  BY <3>1, <3>2, <3>3
  <2>3. CASE v = s
    <3>1. u # s /\ journal'[u] = journal[u] /\ Committed(journal[u])
      BY <1>1, <2>0, <2>3
    <3>2. ~Committed(journal[s]) /\ pc[s] # "preflight"
      BY <2>3, <3>1 DEF ExclusiveInv, SInv
    <3>3. to # "preflight"
      BY <2>0, <2>3, <3>1
    <3> QED  BY <1>1, <2>3, <3>2, <3>3
  <2> QED  BY <2>1, <2>2, <2>3
<1>4. SentInv'
  <2> SUFFICES ASSUME NEW a \in sent
               PROVE  /\ run'[a.session].attempted
                      /\ a.index <= run'[a.session].index
                      /\ pc'[a.session] \in Unsent => a.index < run'[a.session].index
    BY DEF SentInv
  <2>1. /\ a.session \in Sessions /\ a.index \in Nat /\ run[a.session].attempted
        /\ a.index <= run[a.session].index
        /\ pc[a.session] \in Unsent => a.index < run[a.session].index
    BY DEF SentInv, SInv, TInv, TypeOK
  <2>2. CASE a.session # s
    BY <1>1, <2>1, <2>2
  <2>3. CASE a.session = s
    <3>1. run[s].index \in Nat /\ r.index \in Nat
      BY Fields DEF Run
    <3>2. r.attempted /\ run[s].index <= r.index
      BY <2>1, <2>3 DEF Forward
    <3>3. to \in Unsent => pc[s] \in Unsent \/ run[s].index < r.index
      BY <2>1, <2>3 DEF Forward
    <3> QED  BY <1>1, <2>1, <2>3, <3>1, <3>2, <3>3
  <2> QED  BY <2>2, <2>3
<1>5. SentOnce'
  BY DEF SentOnce, SInv
<1> QED  BY <1>2, <1>3, <1>4, <1>5 DEF SInv

\* A step of one run that leaves the locks alone keeps each with its owner, unless it enters
\* the locked part.
LEMMA LockStays ==
    ASSUME TInv, SInv, NEW s \in Sessions, NEW to, NEW r, NEW j, Moves(s, to, r, j), lock' = lock,
           to \in Holding => pc[s] \in Holding
    PROVE  LockInv'
  BY DEF SInv, LockInv, Moves, TInv, TypeOK

\* A run that leaves the locked part may remove its lock: nobody else relies on it.
LEMMA LockLeft ==
    ASSUME TInv, SInv, NEW s \in Sessions, NEW to, NEW r, NEW j, Moves(s, to, r, j),
           pc[s] \in Holding, to \notin Holding,
           lock' = [lock EXCEPT ![CloneOf[s]] = NoSession]
    PROVE  LockInv'
<1>1. lock[CloneOf[s]] = s /\ CloneOf[s] \in Clones
  BY DEF SInv, LockInv
<1> QED  BY <1>1 DEF SInv, LockInv, Moves, TInv, TypeOK

\* Committed journals are neither absent nor safe to retry.
LEMMA CommittedBlocks ==
    ASSUME NEW j, Committed(j)
    PROVE  j # NoJournal /\ ~RetrySafe(j)
  BY DEF Committed, NoJournal, RetrySafe

\* Starting a run: reject_ambiguous_journals lets it in only beside uncommitted journals.
LEMMA SafeStart ==
    ASSUME TInv, SInv, NEW s \in Sessions,
           \/ execute_plan(s) \/ acquire_execution_lock(s) \/ LockRefused(s)
           \/ OpenJournal(s) \/ JournalRefused(s)
    PROVE  SInv'
<1>0. /\ pc[s] \in Early => ~run[s].attempted
      /\ run[s].attempted => Committed(journal[s])
  BY DEF SInv, AheadInv, Ahead
<1> USE Fields DEF Locations, InTry, Dead, Goto, files, chain
<1>1. CASE execute_plan(s)
  <2>1. CASE IsV2(s)
    <3> DEFINE r == [run[s] EXCEPT !.nonce = Len(blocks)]
    <3>1. Len(blocks) \in Nat
      BY Fields
    <3>a. r \in Run
      BY <3>1, RunUpdates
    <3>b. r.attempted = run[s].attempted
      BY DEF Run
    <3>2. r \in Run /\ r.attempted = run[s].attempted
      BY <3>a, <3>b
    <3>3. Moves(s, "starting", r, journal[s]) /\ lock' = lock /\ sent' = sent /\ pc[s] = "idle"
      BY <1>1, <2>1 DEF execute_plan, Moves
    <3> HIDE DEF r
    <3>4. Ahead("starting", r, journal[s]) /\ Forward(s, "starting", r)
      BY <1>0, <3>2, <3>3 DEF Ahead, Forward, Early, Counting, Attempting
    <3>5. LockInv'
      BY <3>3, LockStays DEF Holding
    <3> QED  BY <3>2, <3>3, <3>4, <3>5, SafeMoves
  <2>2. CASE ~IsV2(s)
    <3>3. Moves(s, "starting", run[s], journal[s]) /\ lock' = lock /\ sent' = sent /\ pc[s] = "idle"
      BY <1>1, <2>2 DEF execute_plan, Moves
    <3>4. Ahead("starting", run[s], journal[s]) /\ Forward(s, "starting", run[s])
      BY <1>0, <3>3 DEF Ahead, Forward, Early, Counting, Attempting
    <3>5. LockInv'
      BY <3>3, LockStays DEF Holding
    <3> QED  BY <3>3, <3>4, <3>5, SafeMoves
  <2> QED  BY <2>1, <2>2
<1>2. CASE acquire_execution_lock(s)
  <2>1. /\ Moves(s, "locked", run[s], journal[s]) /\ sent' = sent /\ pc[s] = "starting"
        /\ lock[CloneOf[s]] = NoSession /\ lock' = [lock EXCEPT ![CloneOf[s]] = s]
    BY <1>2 DEF acquire_execution_lock, Moves
  <2>2. Ahead("locked", run[s], journal[s]) /\ Forward(s, "locked", run[s])
    BY <1>0, <2>1 DEF Ahead, Forward, Early, Counting, Attempting
  <2>3. LockInv'
    BY <2>1 DEF SInv, LockInv, Moves, TInv, TypeOK
  <2> QED  BY <2>1, <2>2, <2>3, SafeMoves
<1>3. CASE LockRefused(s)
  <2>1. Moves(s, "idle", NewRun, journal[s]) /\ lock' = lock /\ sent' = sent /\ pc[s] = "starting"
    BY <1>3 DEF LockRefused, Moves
  <2>2. NewRun \in Run /\ ~NewRun.attempted
    BY DEF NewRun, Run
  <2>3. Ahead("idle", NewRun, journal[s]) /\ Forward(s, "idle", NewRun)
    BY <1>0, <2>1, <2>2 DEF Ahead, Forward, Early, Counting, Attempting
  <2>4. LockInv'
    BY <2>1, LockStays DEF Holding
  <2> QED  BY <2>1, <2>2, <2>3, <2>4, SafeMoves
<1>4. CASE OpenJournal(s)
  <2> DEFINE j == [NoJournal EXCEPT !.status = "preflight"]
  <2>1. j \in Journal /\ ~Committed(j)
    BY DEF NoJournal, Journal, Statuses, Committed
  <2>2. Moves(s, "preflight", run[s], j) /\ lock' = lock /\ sent' = sent /\ pc[s] = "locked"
    BY <1>4 DEF OpenJournal, Moves
  <2>3. \A u \in Sessions : Rival(s, u) => ~Committed(journal[u])
    BY <1>4, CommittedBlocks DEF OpenJournal, reject_ambiguous_journals, Rivals, Rival
  <2> HIDE DEF j
  <2>4. Ahead("preflight", run[s], j) /\ Forward(s, "preflight", run[s])
    BY <1>0, <2>2 DEF Ahead, Forward, Early, Counting, Attempting
  <2>5. LockInv'
    BY <2>2, LockStays DEF Holding
  <2> QED  BY <2>1, <2>2, <2>3, <2>4, <2>5, SafeMoves
<1>5. CASE JournalRefused(s)
  <2>1. /\ Moves(s, "done", run[s], journal[s]) /\ sent' = sent /\ pc[s] = "locked"
        /\ lock' = [lock EXCEPT ![CloneOf[s]] = NoSession]
    BY <1>5 DEF JournalRefused, Moves
  <2>2. Ahead("done", run[s], journal[s]) /\ Forward(s, "done", run[s])
    BY <1>0, <2>1 DEF Ahead, Forward, Early, Counting, Attempting, Unsent
  <2>3. LockInv'
    BY <2>1, LockLeft DEF Holding
  <2> QED  BY <2>1, <2>2, <2>3, SafeMoves
<1> QED  BY <1>1, <1>2, <1>3, <1>4, <1>5

\* Broadcasting, but for the broadcast itself: the journal is committed from preflight, before
\* any forge is started.
LEMMA SafeLoop ==
    ASSUME TInv, SInv, NEW s \in Sessions,
           \/ Preflight(s) \/ Prepare(s) \/ StartForge(s)
           \/ transaction_hash_from_broadcast(s) \/ verify_chain_deployment(s) \/ Retain(s)
    PROVE  SInv'
<1>0. Ahead(pc[s], run[s], journal[s])
  BY DEF SInv, AheadInv
<1>a. lock' = lock /\ sent' = sent
  BY DEF Preflight, Prepare, StartForge, transaction_hash_from_broadcast, verify_chain_deployment,
         Retain, files
<1> USE DEF Locations, InTry, Dead, Goto, Early, Counting, Attempting, Unsent, Holding
<1>1. CASE Preflight(s)
  <2> DEFINE r == [run[s] EXCEPT !.nonce = Len(blocks)]
             j == [journal[s] EXCEPT !.status = "broadcasting"]
  <2>1. Moves(s, "loop", r, j) /\ pc[s] = "preflight"
    BY <1>1, Fields DEF Preflight, Moves
  <2>2. r \in Run /\ j \in Journal
    BY Fields, RunUpdates, JournalUpdates DEF Statuses
  <2>3. r.attempted = run[s].attempted /\ Committed(j)
    BY Fields DEF Run, Journal, Committed
  <2> HIDE DEF r, j
  <2>4. Ahead("loop", r, j) /\ Forward(s, "loop", r)
    BY <1>0, <2>1, <2>3 DEF Ahead, Forward
  <2>5. LockInv'
    BY <1>a, <2>1, LockStays
  <2> QED  BY <1>a, <2>1, <2>2, <2>4, <2>5, SafeMoves
<1>2. CASE Prepare(s)
  <2> DEFINE j == [journal[s] EXCEPT !.active = "prepared"]
  <2>1. Moves(s, "prepared", run[s], j) /\ pc[s] = "loop"
    BY <1>2, Fields DEF Prepare, Moves
  <2>2. run[s] \in Run /\ j \in Journal /\ run[s].index \in Nat
    BY Fields, JournalUpdates
  <2>3. Committed(j) <=> Committed(journal[s])
    BY Fields DEF Journal, Committed
  <2> HIDE DEF j
  <2>4. Ahead("prepared", run[s], j) /\ Forward(s, "prepared", run[s])
    BY <1>0, <2>1, <2>2, <2>3 DEF Ahead, Forward
  <2>5. LockInv'
    BY <1>a, <2>1, LockStays
  <2> QED  BY <1>a, <2>1, <2>2, <2>3, <2>4, <2>5, SafeMoves
<1>3. CASE StartForge(s)
  <2> DEFINE r == [run[s] EXCEPT !.attempted = TRUE]
  <2>1. Moves(s, "sending", r, journal[s]) /\ pc[s] = "prepared"
    BY <1>3, Fields DEF StartForge, Moves, files
  <2>2. r \in Run /\ journal[s] \in Journal /\ run[s].index \in Nat
    BY Fields, RunUpdates
  <2>3. r.attempted /\ r.index = run[s].index
    BY Fields DEF Run
  <2> HIDE DEF r
  <2>4. Ahead("sending", r, journal[s]) /\ Forward(s, "sending", r)
    BY <1>0, <2>1, <2>2, <2>3 DEF Ahead, Forward
  <2>5. LockInv'
    BY <1>a, <2>1, LockStays
  <2> QED  BY <1>a, <2>1, <2>2, <2>4, <2>5, SafeMoves
<1>4. CASE transaction_hash_from_broadcast(s)
  <2> DEFINE j == [journal[s] EXCEPT !.active = "submitted"]
  <2>1. Moves(s, "submitted", run[s], j) /\ pc[s] = "sent"
    BY <1>4, Fields DEF transaction_hash_from_broadcast, Moves
  <2>2. run[s] \in Run /\ j \in Journal /\ run[s].index \in Nat
    BY Fields, JournalUpdates
  <2>3. Committed(j) <=> Committed(journal[s])
    BY Fields DEF Journal, Committed
  <2> HIDE DEF j
  <2>4. Ahead("submitted", run[s], j) /\ Forward(s, "submitted", run[s])
    BY <1>0, <2>1, <2>2, <2>3 DEF Ahead, Forward
  <2>5. LockInv'
    BY <1>a, <2>1, LockStays
  <2> QED  BY <1>a, <2>1, <2>2, <2>3, <2>4, <2>5, SafeMoves
<1>5. CASE verify_chain_deployment(s)
  <2>0. PICK q : run' = [run EXCEPT ![s] = [run[s] EXCEPT !.retained = q]]
    BY <1>5 DEF verify_chain_deployment
  <2> DEFINE r == [run[s] EXCEPT !.retained = q]
  <2>1. Moves(s, "checked", r, journal[s]) /\ pc[s] = "submitted"
    BY <1>5, <2>0, Fields DEF verify_chain_deployment, Moves, files
  <2>2. TInv'
    BY <1>5, TypeLoop
  <2>3. r \in Run /\ journal[s] \in Journal /\ run[s].index \in Nat
    BY <2>0, <2>2, Fields DEF TInv, TypeOK
  <2>4. r.attempted = run[s].attempted /\ r.index = run[s].index
    BY Fields DEF Run
  <2> HIDE DEF r
  <2>5. Ahead("checked", r, journal[s]) /\ Forward(s, "checked", r)
    BY <1>0, <2>1, <2>3, <2>4 DEF Ahead, Forward
  <2>6. LockInv'
    BY <1>a, <2>1, LockStays
  <2> QED  BY <1>a, <2>1, <2>3, <2>5, <2>6, SafeMoves
<1>6. CASE Retain(s)
  <2> DEFINE r == [run[s] EXCEPT !.index = run[s].index + 1]
             j == [journal[s] EXCEPT !.active = "none", !.verified = journal[s].verified + 1]
  <2>1. Moves(s, "loop", r, j) /\ pc[s] = "checked"
    BY <1>6, Fields DEF Retain, Moves
  <2>2. run[s].index \in Nat /\ run[s].index + 1 \in Nat /\ journal[s].verified + 1 \in Nat
    BY Fields
  <2>3. r \in Run /\ j \in Journal
    BY <2>2, Fields, RunUpdates, JournalUpdates
  <2>4. /\ r.attempted = run[s].attempted /\ r.index = run[s].index + 1
        /\ Committed(j) <=> Committed(journal[s])
    BY Fields DEF Run, Journal, Committed
  <2> HIDE DEF r, j
  <2>5. Ahead("loop", r, j) /\ Forward(s, "loop", r)
    BY <1>0, <2>1, <2>2, <2>4 DEF Ahead, Forward
  <2>6. LockInv'
    BY <1>a, <2>1, LockStays
  <2> QED  BY <1>a, <2>1, <2>3, <2>4, <2>5, <2>6, SafeMoves
<1> QED  BY <1>1, <1>2, <1>3, <1>4, <1>5, <1>6

\* The broadcast: everything the run sent before is behind its index, and its rivals have
\* sent nothing, so the new transaction repeats no deployment.
LEMMA SafeBroadcast ==
    ASSUME TInv, SInv, NEW s \in Sessions, NEW ok \in BOOLEAN, Broadcast(s, ok)
    PROVE  SInv'
<1> DEFINE new == [session |-> s, index |-> run[s].index, nonce |-> PendingNonce]
<1>1. /\ UNCHANGED <<run, journal, lock>> /\ sent' = sent \cup {new}
      /\ pc[s] \in {"sending", "orphan"}
      /\ pc' = [pc EXCEPT ![s] = IF pc[s] = "sending" THEN "sent" ELSE "crashed"]
  BY DEF Broadcast, Goto, files
<1>2. pc'[s] \in {"sent", "crashed"} /\ \A u \in Sessions \ {s} : pc'[u] = pc[u]
  BY <1>1 DEF TInv, TypeOK
<1>3. run[s].index \in Nat /\ Ahead(pc[s], run[s], journal[s])
  BY Fields DEF SInv, AheadInv
<1>4. run[s].attempted /\ Committed(journal[s])
  BY <1>1, <1>3 DEF Ahead, Attempting
<1>5. LockInv'
  <2>1. pc'[s] \in Holding => pc[s] \in Holding
    BY <1>1, TypeLoop DEF Holding, InTry, TInv, TypeOK
  <2> QED  BY <1>1, <1>2, <2>1 DEF SInv, LockInv
<1>6. AheadInv'
  <2>1. Ahead(pc'[s], run[s], journal[s])
    BY <1>2, <1>4 DEF Ahead, Early
  <2> QED  BY <1>1, <1>2, <2>1 DEF SInv, AheadInv
<1>7. ExclusiveInv'
  BY <1>1, <1>2 DEF SInv, ExclusiveInv
<1>8. \A a \in sent : a.session \in Sessions /\ a.index \in Nat /\ run[a.session].attempted
  BY DEF SInv, SentInv, TInv, TypeOK
<1>9. \A a \in sent : a.session = s => a.index < run[s].index
  BY <1>1 DEF SInv, SentInv, Unsent
<1>10. SentInv'
  <2> SUFFICES ASSUME NEW a \in sent'
               PROVE  /\ run[a.session].attempted
                      /\ a.index <= run[a.session].index
                      /\ pc'[a.session] \in Unsent => a.index < run[a.session].index
    BY <1>1 DEF SentInv
  <2>1. CASE a = new
    BY <1>2, <1>3, <1>4, <2>1 DEF Unsent
  <2>2. CASE a \in sent /\ a.session = s
    BY <1>2, <1>3, <1>8, <1>9, <2>2 DEF Unsent
  <2>3. CASE a \in sent /\ a.session # s
    BY <1>2, <1>8, <2>3 DEF SInv, SentInv
  <2> QED  BY <1>1, <2>1, <2>2, <2>3
<1>11. \A a \in sent : /\ CloneOf[a.session] = CloneOf[s]
                       /\ PlanOf[a.session] = PlanOf[s]
                       => a.index # run[s].index
  <2> SUFFICES ASSUME NEW a \in sent, CloneOf[a.session] = CloneOf[s], PlanOf[a.session] = PlanOf[s]
               PROVE  a.index # run[s].index
    OBVIOUS
  <2>1. Committed(journal[a.session])
    BY <1>8 DEF SInv, AheadInv, Ahead
  <2>2. a.session = s
    BY <1>4, <1>8, <2>1 DEF SInv, ExclusiveInv, Rival
  <2> QED  BY <1>3, <1>8, <1>9, <2>2
<1>12. SentOnce'
  <2> SUFFICES ASSUME NEW a \in sent', NEW b \in sent',
                      CloneOf[a.session] = CloneOf[b.session],
                      PlanOf[a.session] = PlanOf[b.session], a.index = b.index
               PROVE  a = b
    BY DEF SentOnce
  <2>1. CASE a \in sent /\ b \in sent
    BY <2>1 DEF SInv, SentOnce
  <2>2. CASE a = new /\ b \in sent
    BY <1>11, <2>2
  <2>3. CASE b = new /\ a \in sent
    BY <1>11, <2>3
  <2> QED  BY <1>1, <2>1, <2>2, <2>3
<1> QED  BY <1>5, <1>6, <1>7, <1>10, <1>12 DEF SInv

\* The sweep, the receipt and the ways out: a journal that was committed stays committed.
LEMMA SafeFinish ==
    ASSUME TInv, SInv, NEW s \in Sessions,
           \/ capture_canonical_tip(s) \/ FinalSweep(s) \/ AnnounceReceipt(s)
           \/ PublishReceipt(s) \/ CloseJournal(s)
           \/ Fail(s) \/ Interrupt(s) \/ release_execution_lock(s) \/ Crash(s)
    PROVE  SInv'
<1>0. Ahead(pc[s], run[s], journal[s]) /\ run[s] \in Run /\ journal[s] \in Journal
  BY Fields DEF SInv, AheadInv
<1>a. sent' = sent /\ (~release_execution_lock(s) => lock' = lock)
  BY DEF capture_canonical_tip, FinalSweep, AnnounceReceipt, PublishReceipt, CloseJournal, Fail,
         Interrupt, release_execution_lock, Crash, files
<1>b. run[s].index \in Nat
  BY Fields
<1> USE DEF Locations, InTry, Dead, Goto, Early, Counting, Attempting, Unsent, Holding
<1>1. CASE capture_canonical_tip(s)
  <2> DEFINE r == [run[s] EXCEPT !.tip = blocks]
  <2>1. Moves(s, "sweep", r, journal[s]) /\ pc[s] = "loop" /\ lock' = lock
    BY <1>1, <1>a, Fields DEF capture_canonical_tip, Moves, files
  <2>2. r \in Run
    BY <1>0, RunUpdates DEF TInv, TypeOK
  <2>3. r.attempted = run[s].attempted /\ r.index = run[s].index
    BY <1>0 DEF Run
  <2> HIDE DEF r
  <2>4. Ahead("sweep", r, journal[s]) /\ Forward(s, "sweep", r)
    BY <1>0, <1>b, <2>1, <2>3 DEF Ahead, Forward
  <2>5. LockInv'
    BY <2>1, LockStays
  <2> QED  BY <1>0, <1>a, <2>1, <2>2, <2>4, <2>5, SafeMoves
<1>2. CASE FinalSweep(s)
  <2> DEFINE r == [run[s] EXCEPT !.swept = run[s].swept + 1]
  <2>0. pc' = [pc EXCEPT ![s] = "sweep"] /\ run[s].swept + 1 \in Nat
    BY <1>2, Fields DEF FinalSweep, TInv, TypeOK
  <2>1. Moves(s, "sweep", r, journal[s]) /\ pc[s] = "sweep" /\ lock' = lock
    BY <1>2, <2>0, <1>a, Fields DEF FinalSweep, Moves, files
  <2>2. r \in Run
    BY <1>0, <2>0, RunUpdates
  <2>3. r.attempted = run[s].attempted /\ r.index = run[s].index
    BY <1>0 DEF Run
  <2> HIDE DEF r
  <2>4. Ahead("sweep", r, journal[s]) /\ Forward(s, "sweep", r)
    BY <1>0, <1>b, <2>1, <2>3 DEF Ahead, Forward
  <2>5. LockInv'
    BY <2>1, LockStays
  <2> QED  BY <1>0, <1>a, <2>1, <2>2, <2>4, <2>5, SafeMoves
<1>3. CASE AnnounceReceipt(s)
  <2> DEFINE j == [journal[s] EXCEPT !.status = "publishing", !.success = FALSE]
  <2>1. Moves(s, "publishing", run[s], j) /\ pc[s] = "sweep" /\ lock' = lock
    BY <1>3, <1>a, Fields DEF AnnounceReceipt, Moves
  <2>2. j \in Journal
    BY <1>0, JournalUpdates DEF Statuses
  <2>3. Committed(j) /\ Committed(journal[s])
    BY <1>0, <2>1 DEF Journal, Committed, Ahead
  <2> HIDE DEF j
  <2>4. Ahead("publishing", run[s], j) /\ Forward(s, "publishing", run[s])
    BY <1>0, <1>b, <2>1, <2>3 DEF Ahead, Forward
  <2>5. LockInv'
    BY <2>1, LockStays
  <2> QED  BY <1>0, <1>a, <2>1, <2>2, <2>3, <2>4, <2>5, SafeMoves
<1>4. CASE PublishReceipt(s)
  <2>1. Moves(s, "published", run[s], journal[s]) /\ pc[s] = "publishing" /\ lock' = lock
    BY <1>4, <1>a, Fields DEF PublishReceipt, Moves
  <2>4. Ahead("published", run[s], journal[s]) /\ Forward(s, "published", run[s])
    BY <1>0, <1>b, <2>1 DEF Ahead, Forward
  <2>5. LockInv'
    BY <2>1, LockStays
  <2> QED  BY <1>0, <1>a, <2>1, <2>4, <2>5, SafeMoves
<1>5. CASE CloseJournal(s)
  <2> DEFINE j == [journal[s] EXCEPT !.status = "verified", !.success = TRUE]
  <2>1. Moves(s, "releasing", run[s], j) /\ pc[s] = "published" /\ lock' = lock
    BY <1>5, <1>a, Fields DEF CloseJournal, Moves
  <2>2. j \in Journal
    BY <1>0, JournalUpdates DEF Statuses
  <2>3. Committed(j) /\ Committed(journal[s])
    BY <1>0, <2>1 DEF Journal, Committed, Ahead
  <2> HIDE DEF j
  <2>4. Ahead("releasing", run[s], j) /\ Forward(s, "releasing", run[s])
    BY <1>0, <1>b, <2>1, <2>3 DEF Ahead, Forward
  <2>5. LockInv'
    BY <2>1, LockStays
  <2> QED  BY <1>0, <1>a, <2>1, <2>2, <2>3, <2>4, <2>5, SafeMoves
<1>6. CASE Fail(s)
  <2> DEFINE st == IF run[s].attempted THEN "failed_or_ambiguous" ELSE "failed_preflight"
             j == [journal[s] EXCEPT !.status = st, !.success = FALSE]
  <2>1. Moves(s, "releasing", run[s], j) /\ pc[s] \in InTry /\ lock' = lock
    BY <1>6, <1>a, Fields DEF Fail, Moves
  <2>2. j \in Journal
    BY <1>0, JournalUpdates DEF Statuses
  <2>a. j.status = st
    BY <1>0 DEF Journal
  <2>3. Committed(j) <=> run[s].attempted
    BY <2>a DEF Committed
  <2>4. run[s].attempted => Committed(journal[s])
    BY <1>0 DEF Ahead
  <2> HIDE DEF j
  <2>5. Ahead("releasing", run[s], j) /\ Forward(s, "releasing", run[s])
    BY <1>0, <1>b, <2>3 DEF Ahead, Forward
  <2>6. LockInv'
    BY <2>1, LockStays
  <2> QED  BY <1>0, <1>a, <2>1, <2>2, <2>3, <2>4, <2>5, <2>6, SafeMoves
<1>7. CASE Interrupt(s)
  <2>1. Moves(s, "releasing", run[s], journal[s]) /\ pc[s] \in InTry /\ lock' = lock
    BY <1>7, <1>a, Fields DEF Interrupt, Moves, files
  <2>4. Ahead("releasing", run[s], journal[s]) /\ Forward(s, "releasing", run[s])
    BY <1>0, <1>b DEF Ahead, Forward
  <2>5. LockInv'
    BY <2>1, LockStays
  <2> QED  BY <1>0, <1>a, <2>1, <2>4, <2>5, SafeMoves
<1>8. CASE release_execution_lock(s)
  <2>1. /\ Moves(s, "done", run[s], journal[s]) /\ pc[s] = "releasing"
        /\ lock' = [lock EXCEPT ![CloneOf[s]] = NoSession]
    BY <1>8, Fields DEF release_execution_lock, Moves
  <2>4. Ahead("done", run[s], journal[s]) /\ Forward(s, "done", run[s])
    BY <1>0, <1>b DEF Ahead, Forward
  <2>5. LockInv'
    BY <2>1, LockLeft
  <2> QED  BY <1>0, <1>a, <2>1, <2>4, <2>5, SafeMoves
<1>9. CASE Crash(s)
  <2> DEFINE to == IF pc[s] = "sending" THEN "orphan" ELSE "crashed"
  <2>1. Moves(s, to, run[s], journal[s]) /\ lock' = lock
    BY <1>9, <1>a, Fields DEF Crash, Moves, files
  <2>4. Ahead(to, run[s], journal[s]) /\ Forward(s, to, run[s])
    BY <1>0, <1>b DEF Ahead, Forward
  <2>5. to \in Locations /\ to \notin Holding /\ to # "preflight"
    OBVIOUS
  <2> HIDE DEF to
  <2>6. LockInv'
    BY <2>1, <2>5, LockStays
  <2> QED  BY <1>0, <1>a, <2>1, <2>4, <2>5, <2>6, SafeMoves
<1> QED  BY <1>1, <1>2, <1>3, <1>4, <1>5, <1>6, <1>7, <1>8, <1>9

\* The operator and the chain: only the lock of a dead run is removed.
LEMMA SafeChain ==
    ASSUME TInv, SInv,
           (\E c \in Clones : RemoveStaleLock(c)) \/ Mine \/ Reorg \/ Drop \/ OtherWallet
    PROVE  SInv'
<1>1. ASSUME NEW c \in Clones, RemoveStaleLock(c)
      PROVE  SInv'
  <2>1. /\ UNCHANGED <<pc, run, journal, sent>> /\ lock' = [lock EXCEPT ![c] = NoSession]
        /\ lock[c] \in Sessions /\ pc[lock[c]] \notin Holding
    BY <1>1 DEF RemoveStaleLock, chain, TInv, TypeOK, Dead, Holding, InTry
  <2>2. LockInv'
    BY <2>1 DEF SInv, LockInv, TInv, TypeOK
  <2> QED  BY <2>1, <2>2 DEF SInv, AheadInv, ExclusiveInv, SentInv, SentOnce
<1>2. CASE Mine \/ Reorg \/ Drop \/ OtherWallet
  <2>1. UNCHANGED <<pc, run, journal, lock, sent>>
    BY <1>2 DEF Mine, Reorg, Drop, OtherWallet, files
  <2> QED  BY <2>1 DEF SInv, LockInv, AheadInv, ExclusiveInv, SentInv, SentOnce
<1> QED  BY <1>1, <1>2

\* From one clone, whatever fails, is interrupted or dies, and however the chain reorganises,
\* no deployment of a plan is ever sent twice, for every number of runs, clones and plans.
THEOREM NoDoubleSend == Spec => []SentOnce
<1> DEFINE I == TInv /\ SInv
<1>1. Init => I
  BY TypeInit, SafeInit
<1>2. ASSUME I, [Next]_vars
      PROVE  I'
  <2>1. TInv'
    BY <1>2, TypeNext
  <2>2. CASE UNCHANGED vars
    BY <1>2, <2>1, <2>2 DEF vars, files, SInv, LockInv, AheadInv, ExclusiveInv, SentInv, SentOnce
  <2>3. CASE Next
    BY <1>2, <2>1, <2>3, SafeStart, SafeLoop, SafeBroadcast, SafeFinish, SafeChain DEF Next, Step
  <2> QED  BY <1>2, <2>2, <2>3
<1>3. I => SentOnce
  BY DEF SInv
<1> QED  BY <1>1, <1>2, <1>3, PTL DEF Spec

-------------------------------------------------------------------------------
(* What a receipt says is true, and its journal agrees with it.            *)

BeforeSweep == {"idle", "starting", "locked", "preflight", "loop", "prepared", "sending", "sent",
                "submitted", "checked"}
Sweeping == {"sweep", "publishing", "published"}
\* Where a run can be that has published its receipt.
Written == {"published", "releasing", "done", "crashed"}

\* Deployment i of run s stands at its nonce on the tip that r, a run or a receipt, holds.
Stands(r, s, i) ==
    /\ r.nonce + i + 1 <= Len(r.tip)
    /\ r.tip[r.nonce + i + 1].tx = [session |-> s, index |-> i, succeeds |-> TRUE]

\* The progress of run s at p, with variables r and journal j: the journal counts what the
\* loop has verified, a v2 run keeps its plan's nonce, and the sweep has found every
\* deployment before `swept' on the captured tip.
Progress(s, p, r, j) ==
    /\ p \in BeforeSweep => r.swept = 0
    /\ p \in Early => r.index = 0
    /\ p = "preflight" => j.verified = 0
    /\ p \in InTry \ {"preflight"} => j.verified = r.index
    /\ p \in InTry \cup {"starting", "locked"} /\ IsV2(s) => r.nonce = StartNonce[PlanOf[s]]
    /\ p \in Sweeping => /\ r.index = Length[PlanOf[s]]
                         /\ \A i \in 0 .. (r.swept - 1) : Stands(r, s, i)
    /\ p \in {"publishing", "published"} => r.swept = Length[PlanOf[s]]
ProgressInv == \A s \in Sessions : Progress(s, pc[s], run[s], journal[s])

\* Receipt r says of its run only what stands on its tip, and that run's journal, which has
\* verified every deployment, is past the steps that could reset it.
Genuine(r) ==
    LET s == r.session
    IN  /\ s \in Sessions
        /\ \A i \in 0 .. (Length[PlanOf[s]] - 1) : Stands(r, s, i)
        /\ IsV2(s) => r.nonce = StartNonce[PlanOf[s]]
        /\ pc[s] \in Written /\ journal[s].verified = Length[PlanOf[s]]
GenuineInv == \A o \in Outputs : receipts[o] # NoReceipt => Genuine(receipts[o])

\* Success is announced behind the run's own receipt.
AnnouncedInv ==
    \A s \in Sessions :
        pc[s] = "published" \/ journal[s].success => receipts[OutputOf[s]].session = s

RecInv == ProgressInv /\ GenuineInv /\ AnnouncedInv

\* The invariant holds before the first run starts.
LEMMA RecInit == Init => RecInv
  BY DEF Init, RecInv, ProgressInv, Progress, GenuineInv, AnnouncedInv, NewRun, NoJournal,
         BeforeSweep, Sweeping, InTry, Early

\* A step of one run that makes the progress its new place asks for, publishes nothing,
\* announces success only behind its receipt and, once it has published, goes on to places
\* that keep the journal's count, keeps the invariant.
LEMMA RecMoves ==
    ASSUME TInv, RecInv, NEW s \in Sessions, NEW to, NEW r, NEW j, Moves(s, to, r, j),
           receipts' = receipts, Progress(s, to, r, j),
           pc[s] \in Written => to \in Written /\ j.verified = journal[s].verified,
           to # "published",
           j.success => journal[s].success \/ pc[s] = "published"
    PROVE  RecInv'
<1>1. /\ pc'[s] = to /\ run'[s] = r /\ journal'[s] = j
      /\ \A u \in Sessions \ {s} : pc'[u] = pc[u] /\ run'[u] = run[u] /\ journal'[u] = journal[u]
  BY DEF Moves, TInv, TypeOK
<1>2. ProgressInv'
  BY <1>1 DEF ProgressInv, RecInv
<1>3. GenuineInv'
  BY <1>1 DEF GenuineInv, Genuine, RecInv
<1>4. AnnouncedInv'
  BY <1>1 DEF AnnouncedInv, RecInv
<1> QED  BY <1>2, <1>3, <1>4 DEF RecInv

\* The fields an update of a run or of a journal leaves alone.
LEMMA Kept ==
    ASSUME NEW r \in Run, NEW j \in Journal
    PROVE  /\ \A v : LET q == [r EXCEPT !.nonce = v]
                     IN  q.nonce = v /\ q.index = r.index /\ q.swept = r.swept
           /\ \A v : LET q == [r EXCEPT !.index = v]
                     IN  q.nonce = r.nonce /\ q.index = v /\ q.swept = r.swept
           /\ \A v : LET q == [r EXCEPT !.attempted = v]
                     IN  q.nonce = r.nonce /\ q.index = r.index /\ q.swept = r.swept
           /\ \A v : LET q == [r EXCEPT !.retained = v]
                     IN  q.nonce = r.nonce /\ q.index = r.index /\ q.swept = r.swept
           /\ \A v : LET q == [r EXCEPT !.tip = v]
                     IN  q.nonce = r.nonce /\ q.index = r.index /\ q.swept = r.swept
           /\ \A v : LET q == [r EXCEPT !.swept = v]
                     IN  /\ q.nonce = r.nonce /\ q.index = r.index /\ q.swept = v
                         /\ q.tip = r.tip
           /\ \A v : LET q == [j EXCEPT !.status = v]
                     IN  q.verified = j.verified /\ q.success = j.success
           /\ \A v : LET q == [j EXCEPT !.active = v]
                     IN  q.verified = j.verified /\ q.success = j.success
           /\ \A v, w : LET q == [j EXCEPT !.status = v, !.success = w]
                        IN  q.verified = j.verified /\ q.success = w
           /\ \A v, w : LET q == [j EXCEPT !.active = v, !.verified = w]
                        IN  q.verified = w /\ q.success = j.success
  BY DEF Run, Journal

\* Starting a run: a v2 run starts from the nonce its addresses are derived from.
LEMMA RecStart ==
    ASSUME TInv, RecInv, NEW s \in Sessions,
           \/ execute_plan(s) \/ acquire_execution_lock(s) \/ LockRefused(s)
           \/ OpenJournal(s) \/ JournalRefused(s)
    PROVE  RecInv'
<1>0. Progress(s, pc[s], run[s], journal[s]) /\ run[s] \in Run /\ journal[s] \in Journal
  BY Fields DEF RecInv, ProgressInv
<1>a. receipts' = receipts
  BY DEF execute_plan, acquire_execution_lock, LockRefused, OpenJournal, JournalRefused, files
<1> USE DEF InTry, Early, BeforeSweep, Sweeping, Written, Goto, files, chain
<1>1. CASE execute_plan(s)
  <2> DEFINE r == [run[s] EXCEPT !.nonce = Len(blocks)]
  <2>0. r.nonce = Len(blocks) /\ r.index = run[s].index /\ r.swept = run[s].swept
    BY <1>0, Kept
  <2>1. CASE IsV2(s)
    <3>1. Moves(s, "starting", r, journal[s]) /\ pc[s] = "idle" /\ Len(blocks) = StartNonce[PlanOf[s]]
      BY <1>1, <2>1, Fields DEF execute_plan, Moves, require_v2_expected_create_addresses
    <3> HIDE DEF r
    <3>2. Progress(s, "starting", r, journal[s])
      BY <1>0, <2>0, <3>1 DEF Progress
    <3> QED  BY <1>a, <3>1, <3>2, RecMoves
  <2>2. CASE ~IsV2(s)
    <3>1. Moves(s, "starting", run[s], journal[s]) /\ pc[s] = "idle"
      BY <1>1, <2>2, Fields DEF execute_plan, Moves
    <3>2. Progress(s, "starting", run[s], journal[s])
      BY <1>0, <2>2, <3>1 DEF Progress
    <3> QED  BY <1>a, <3>1, <3>2, RecMoves
  <2> QED  BY <2>1, <2>2
<1>2. CASE acquire_execution_lock(s)
  <2>1. Moves(s, "locked", run[s], journal[s]) /\ pc[s] = "starting"
    BY <1>2, Fields DEF acquire_execution_lock, Moves
  <2>2. Progress(s, "locked", run[s], journal[s])
    BY <1>0, <2>1 DEF Progress
  <2> QED  BY <1>a, <2>1, <2>2, RecMoves
<1>3. CASE LockRefused(s)
  <2>1. Moves(s, "idle", NewRun, journal[s]) /\ pc[s] = "starting"
    BY <1>3, Fields DEF LockRefused, Moves
  <2>2. Progress(s, "idle", NewRun, journal[s])
    BY DEF Progress, NewRun
  <2> QED  BY <1>a, <2>1, <2>2, RecMoves
<1>4. CASE OpenJournal(s)
  <2> DEFINE j == [NoJournal EXCEPT !.status = "preflight"]
  <2>1. Moves(s, "preflight", run[s], j) /\ pc[s] = "locked"
    BY <1>4, Fields DEF OpenJournal, Moves
  <2>2. j.verified = 0 /\ ~j.success
    BY DEF NoJournal
  <2> HIDE DEF j
  <2>3. Progress(s, "preflight", run[s], j)
    BY <1>0, <2>1, <2>2 DEF Progress
  <2> QED  BY <1>a, <2>1, <2>2, <2>3, RecMoves
<1>5. CASE JournalRefused(s)
  <2>1. Moves(s, "done", run[s], journal[s]) /\ pc[s] = "locked"
    BY <1>5, Fields DEF JournalRefused, Moves
  <2>2. Progress(s, "done", run[s], journal[s])
    BY DEF Progress
  <2> QED  BY <1>a, <2>1, <2>2, RecMoves
<1> QED  BY <1>1, <1>2, <1>3, <1>4, <1>5

\* Broadcasting: the nonce the loop starts from is the one a v2 run has read before, and the
\* journal's count follows the index.
LEMMA RecLoop ==
    ASSUME TInv, RecInv, NEW s \in Sessions,
           \/ Preflight(s) \/ Prepare(s) \/ StartForge(s)
           \/ \E ok \in BOOLEAN : Broadcast(s, ok)
           \/ transaction_hash_from_broadcast(s) \/ verify_chain_deployment(s) \/ Retain(s)
    PROVE  RecInv'
<1>0. Progress(s, pc[s], run[s], journal[s]) /\ run[s] \in Run /\ journal[s] \in Journal
  BY Fields DEF RecInv, ProgressInv
<1>a. receipts' = receipts
  BY DEF Preflight, Prepare, StartForge, Broadcast, transaction_hash_from_broadcast,
         verify_chain_deployment, Retain, files
<1> USE DEF InTry, Early, BeforeSweep, Sweeping, Written, Goto, files
<1>1. CASE Preflight(s)
  <2> DEFINE r == [run[s] EXCEPT !.nonce = Len(blocks)]
             j == [journal[s] EXCEPT !.status = "broadcasting"]
  <2>1. Moves(s, "loop", r, j) /\ pc[s] = "preflight" /\ run[s].nonce \in {NoNonce, Len(blocks)}
    BY <1>1, Fields DEF Preflight, Moves, require_uncontended_sender_nonce
  <2>2. /\ r.nonce = Len(blocks) /\ r.index = run[s].index /\ r.swept = run[s].swept
        /\ j.verified = journal[s].verified /\ j.success = journal[s].success
    BY <1>0, Kept
  <2> HIDE DEF r, j
  <2>3. IsV2(s) => run[s].nonce = StartNonce[PlanOf[s]] /\ run[s].nonce # NoNonce
    BY <1>0, <2>1 DEF Progress, IsV2
  <2>4. Progress(s, "loop", r, j)
    BY <1>0, <2>1, <2>2, <2>3 DEF Progress
  <2> QED  BY <1>a, <2>1, <2>2, <2>4, RecMoves
<1>2. CASE Prepare(s)
  <2> DEFINE j == [journal[s] EXCEPT !.active = "prepared"]
  <2>1. Moves(s, "prepared", run[s], j) /\ pc[s] = "loop"
    BY <1>2, Fields DEF Prepare, Moves
  <2>2. j.verified = journal[s].verified /\ j.success = journal[s].success
    BY <1>0, Kept
  <2> HIDE DEF j
  <2>3. Progress(s, "prepared", run[s], j)
    BY <1>0, <2>1, <2>2 DEF Progress
  <2> QED  BY <1>a, <2>1, <2>2, <2>3, RecMoves
<1>3. CASE StartForge(s)
  <2> DEFINE r == [run[s] EXCEPT !.attempted = TRUE]
  <2>1. Moves(s, "sending", r, journal[s]) /\ pc[s] = "prepared"
    BY <1>3, Fields DEF StartForge, Moves
  <2>2. r.nonce = run[s].nonce /\ r.index = run[s].index /\ r.swept = run[s].swept
    BY <1>0, Kept
  <2> HIDE DEF r
  <2>3. Progress(s, "sending", r, journal[s])
    BY <1>0, <2>1, <2>2 DEF Progress
  <2> QED  BY <1>a, <2>1, <2>3, RecMoves
<1>4. CASE \E ok \in BOOLEAN : Broadcast(s, ok)
  <2>1. \/ Moves(s, "sent", run[s], journal[s]) /\ pc[s] = "sending"
        \/ Moves(s, "crashed", run[s], journal[s]) /\ pc[s] = "orphan"
    BY <1>4, Fields DEF Broadcast, Moves
  <2>2. pc[s] = "sending" => Progress(s, "sent", run[s], journal[s])
    BY <1>0 DEF Progress
  <2>3. Progress(s, "crashed", run[s], journal[s])
    BY DEF Progress
  <2> QED  BY <1>a, <2>1, <2>2, <2>3, RecMoves
<1>5. CASE transaction_hash_from_broadcast(s)
  <2> DEFINE j == [journal[s] EXCEPT !.active = "submitted"]
  <2>1. Moves(s, "submitted", run[s], j) /\ pc[s] = "sent"
    BY <1>5, Fields DEF transaction_hash_from_broadcast, Moves
  <2>2. j.verified = journal[s].verified /\ j.success = journal[s].success
    BY <1>0, Kept
  <2> HIDE DEF j
  <2>3. Progress(s, "submitted", run[s], j)
    BY <1>0, <2>1, <2>2 DEF Progress
  <2> QED  BY <1>a, <2>1, <2>2, <2>3, RecMoves
<1>6. CASE verify_chain_deployment(s)
  <2>0. PICK q : run' = [run EXCEPT ![s] = [run[s] EXCEPT !.retained = q]]
    BY <1>6 DEF verify_chain_deployment
  <2> DEFINE r == [run[s] EXCEPT !.retained = q]
  <2>1. Moves(s, "checked", r, journal[s]) /\ pc[s] = "submitted"
    BY <1>6, <2>0, Fields DEF verify_chain_deployment, Moves
  <2>2. r.nonce = run[s].nonce /\ r.index = run[s].index /\ r.swept = run[s].swept
    BY <1>0, Kept
  <2> HIDE DEF r
  <2>3. Progress(s, "checked", r, journal[s])
    BY <1>0, <2>1, <2>2 DEF Progress
  <2> QED  BY <1>a, <2>1, <2>3, RecMoves
<1>7. CASE Retain(s)
  <2> DEFINE r == [run[s] EXCEPT !.index = run[s].index + 1]
             j == [journal[s] EXCEPT !.active = "none", !.verified = journal[s].verified + 1]
  <2>1. Moves(s, "loop", r, j) /\ pc[s] = "checked"
    BY <1>7, Fields DEF Retain, Moves
  <2>2. /\ r.nonce = run[s].nonce /\ r.index = run[s].index + 1 /\ r.swept = run[s].swept
        /\ j.verified = journal[s].verified + 1 /\ j.success = journal[s].success
    BY <1>0, Kept
  <2> HIDE DEF r, j
  <2>3. Progress(s, "loop", r, j)
    BY <1>0, <2>1, <2>2 DEF Progress
  <2> QED  BY <1>a, <2>1, <2>2, <2>3, RecMoves
<1> QED  BY <1>1, <1>2, <1>3, <1>4, <1>5, <1>6, <1>7

\* The sweep checks each deployment against the tip that the receipt will hold; the ways out
\* keep what the journal counted.
LEMMA RecFinish ==
    ASSUME TInv, RecInv, NEW s \in Sessions,
           \/ capture_canonical_tip(s) \/ FinalSweep(s) \/ AnnounceReceipt(s) \/ CloseJournal(s)
           \/ Fail(s) \/ Interrupt(s) \/ release_execution_lock(s) \/ Crash(s)
    PROVE  RecInv'
<1>0. Progress(s, pc[s], run[s], journal[s]) /\ run[s] \in Run /\ journal[s] \in Journal
  BY Fields DEF RecInv, ProgressInv
<1>a. receipts' = receipts
  BY DEF capture_canonical_tip, FinalSweep, AnnounceReceipt, CloseJournal, Fail, Interrupt,
         release_execution_lock, Crash, files
<1>b. run[s].swept \in Nat /\ Length[PlanOf[s]] \in Nat
  BY Fields
<1> USE DEF InTry, Early, BeforeSweep, Sweeping, Written, Goto, files
<1>1. CASE capture_canonical_tip(s)
  <2> DEFINE r == [run[s] EXCEPT !.tip = blocks]
  <2>1. /\ Moves(s, "sweep", r, journal[s]) /\ pc[s] = "loop"
        /\ run[s].index = Length[PlanOf[s]]
    BY <1>1, Fields DEF capture_canonical_tip, Moves
  <2>2. r.nonce = run[s].nonce /\ r.index = run[s].index /\ r.swept = run[s].swept
    BY <1>0, Kept
  <2> HIDE DEF r
  <2>3. r.swept = 0
    BY <1>0, <2>1, <2>2 DEF Progress
  <2>4. Progress(s, "sweep", r, journal[s])
    BY <1>0, <2>1, <2>2, <2>3 DEF Progress
  <2> QED  BY <1>a, <2>1, <2>4, RecMoves
<1>2. CASE FinalSweep(s)
  <2> DEFINE r == [run[s] EXCEPT !.swept = run[s].swept + 1]
  <2>1. Moves(s, "sweep", r, journal[s]) /\ pc[s] = "sweep" /\ Stands(run[s], s, run[s].swept)
    BY <1>2, Fields DEF FinalSweep, Moves, TInv, TypeOK, Swept, Deployed, Stands
  <2>2. /\ r.nonce = run[s].nonce /\ r.index = run[s].index /\ r.swept = run[s].swept + 1
        /\ r.tip = run[s].tip
    BY <1>0, Kept
  <2> HIDE DEF r
  <2>3. \A i \in 0 .. (r.swept - 1) : i = run[s].swept \/ i \in 0 .. (run[s].swept - 1)
    BY <1>b, <2>2
  <2>4. \A i \in 0 .. (run[s].swept - 1) : Stands(run[s], s, i)
    BY <1>0, <2>1 DEF Progress
  <2>5. \A i \in 0 .. (r.swept - 1) : Stands(run[s], s, i)
    BY <2>1, <2>3, <2>4
  <2>6. \A i \in 0 .. (r.swept - 1) : Stands(r, s, i)
    BY <2>2, <2>5 DEF Stands
  <2>7. Progress(s, "sweep", r, journal[s])
    BY <1>0, <2>1, <2>2, <2>6 DEF Progress
  <2> QED  BY <1>a, <2>1, <2>7, RecMoves
<1>3. CASE AnnounceReceipt(s)
  <2> DEFINE j == [journal[s] EXCEPT !.status = "publishing", !.success = FALSE]
  <2>1. /\ Moves(s, "publishing", run[s], j) /\ pc[s] = "sweep"
        /\ run[s].swept = Length[PlanOf[s]]
    BY <1>3, Fields DEF AnnounceReceipt, Moves
  <2>2. j.verified = journal[s].verified /\ ~j.success
    BY <1>0, Kept
  <2> HIDE DEF j
  <2>3. Progress(s, "publishing", run[s], j)
    BY <1>0, <2>1, <2>2 DEF Progress
  <2> QED  BY <1>a, <2>1, <2>2, <2>3, RecMoves
<1>4. CASE CloseJournal(s)
  <2> DEFINE j == [journal[s] EXCEPT !.status = "verified", !.success = TRUE]
  <2>1. Moves(s, "releasing", run[s], j) /\ pc[s] = "published"
    BY <1>4, Fields DEF CloseJournal, Moves
  <2>2. j.verified = journal[s].verified
    BY <1>0, Kept
  <2> HIDE DEF j
  <2>3. Progress(s, "releasing", run[s], j)
    BY DEF Progress
  <2> QED  BY <1>a, <2>1, <2>2, <2>3, RecMoves
<1>5. CASE Fail(s)
  <2> DEFINE st == IF run[s].attempted THEN "failed_or_ambiguous" ELSE "failed_preflight"
             j == [journal[s] EXCEPT !.status = st, !.success = FALSE]
  <2>1. Moves(s, "releasing", run[s], j)
    BY <1>5, Fields DEF Fail, Moves
  <2>2. j.verified = journal[s].verified /\ ~j.success
    BY <1>0, Kept
  <2> HIDE DEF j
  <2>3. Progress(s, "releasing", run[s], j)
    BY DEF Progress
  <2> QED  BY <1>a, <2>1, <2>2, <2>3, RecMoves
<1>6. CASE Interrupt(s)
  <2>1. Moves(s, "releasing", run[s], journal[s])
    BY <1>6, Fields DEF Interrupt, Moves
  <2>2. Progress(s, "releasing", run[s], journal[s])
    BY DEF Progress
  <2> QED  BY <1>a, <2>1, <2>2, RecMoves
<1>7. CASE release_execution_lock(s)
  <2>1. Moves(s, "done", run[s], journal[s])
    BY <1>7, Fields DEF release_execution_lock, Moves
  <2>2. Progress(s, "done", run[s], journal[s])
    BY DEF Progress
  <2> QED  BY <1>a, <2>1, <2>2, RecMoves
<1>8. CASE Crash(s)
  <2> DEFINE to == IF pc[s] = "sending" THEN "orphan" ELSE "crashed"
  <2>1. Moves(s, to, run[s], journal[s])
    BY <1>8, Fields DEF Crash, Moves
  <2>2. Progress(s, to, run[s], journal[s]) /\ to # "published"
    BY DEF Progress
  <2>3. pc[s] \in Written => to \in Written
    OBVIOUS
  <2> HIDE DEF to
  <2> QED  BY <1>a, <2>1, <2>2, <2>3, RecMoves
<1> QED  BY <1>1, <1>2, <1>3, <1>4, <1>5, <1>6, <1>7, <1>8

\* write_json_exclusive: the first receipt of a path is the run's, whose sweep has found every
\* deployment on the tip, and no earlier receipt is written over.
LEMMA RecPublish ==
    ASSUME TInv, RecInv, NEW s \in Sessions, PublishReceipt(s)
    PROVE  RecInv'
<1> DEFINE o == OutputOf[s]
           new == [session |-> s, nonce |-> run[s].nonce, tip |-> run[s].tip]
<1>1. /\ UNCHANGED <<run, journal>> /\ pc[s] = "publishing" /\ o \in Outputs
      /\ receipts' = [receipts EXCEPT ![o] = new] /\ receipts[o] = NoReceipt
  BY DEF PublishReceipt, Goto, Publishable
<1>2. /\ receipts'[o] = new /\ \A p \in Outputs \ {o} : receipts'[p] = receipts[p]
      /\ pc'[s] = "published" /\ \A u \in Sessions \ {s} : pc'[u] = pc[u]
  BY <1>1 DEF PublishReceipt, Goto, TInv, TypeOK
<1>3. /\ Progress(s, "publishing", run[s], journal[s])
      /\ Length[PlanOf[s]] \in Nat
  BY <1>1 DEF RecInv, ProgressInv
<1>4. ProgressInv'
  <2>1. Progress(s, "published", run[s], journal[s])
    BY <1>3 DEF Progress, InTry, Early, BeforeSweep, Sweeping
  <2> QED  BY <1>1, <1>2, <2>1 DEF ProgressInv, RecInv
<1>5. /\ run[s].swept = Length[PlanOf[s]] /\ journal[s].verified = Length[PlanOf[s]]
      /\ \A i \in 0 .. (Length[PlanOf[s]] - 1) : Stands(run[s], s, i)
      /\ IsV2(s) => run[s].nonce = StartNonce[PlanOf[s]]
  BY <1>3 DEF Progress, InTry, Sweeping
<1>6. Genuine(new)'
  BY <1>1, <1>2, <1>5 DEF Genuine, Stands, Written, IsV2
<1>7. GenuineInv'
  <2> SUFFICES ASSUME NEW p \in Outputs, receipts'[p] # NoReceipt
               PROVE  Genuine(receipts[p])'
    BY DEF GenuineInv
  <2>1. CASE p = o
    BY <1>1, <1>2, <1>6, <2>1
  <2>2. CASE p # o
    <3>1. receipts'[p] = receipts[p] /\ Genuine(receipts[p])
      BY <1>2, <2>2 DEF GenuineInv, RecInv
    <3> QED  BY <1>1, <1>2, <3>1 DEF Genuine, Written
  <2> QED  BY <2>1, <2>2
<1>8. AnnouncedInv'
  <2> SUFFICES ASSUME NEW u \in Sessions, pc'[u] = "published" \/ journal[u].success
               PROVE  receipts'[OutputOf[u]].session = u
    BY <1>1 DEF AnnouncedInv
  <2>1. CASE u = s
    BY <1>2, <2>1
  <2>2. CASE u # s
    <3>1. receipts[OutputOf[u]].session = u
      BY <1>2, <2>2 DEF AnnouncedInv, RecInv
    <3>2. OutputOf[u] # o
      BY <1>1, <3>1 DEF NoReceipt
    <3> QED  BY <1>2, <3>1, <3>2
  <2> QED  BY <2>1, <2>2
<1> QED  BY <1>4, <1>7, <1>8 DEF RecInv

\* Every step keeps the invariant of the receipts; the operator and the chain touch neither
\* the runs nor their files.
LEMMA RecNext ==
    ASSUME TInv, RecInv, [Next]_vars
    PROVE  RecInv'
<1>1. ASSUME UNCHANGED <<pc, run, journal, receipts>>
      PROVE  RecInv'
  BY <1>1 DEF RecInv, ProgressInv, GenuineInv, Genuine, AnnouncedInv
<1>2. CASE UNCHANGED vars
  BY <1>1, <1>2 DEF vars, files
<1>3. CASE (\E c \in Clones : RemoveStaleLock(c)) \/ Mine \/ Reorg \/ Drop \/ OtherWallet
  BY <1>1, <1>3 DEF RemoveStaleLock, Mine, Reorg, Drop, OtherWallet, files
<1>4. CASE \E s \in Sessions : Step(s) \/ Interrupt(s) \/ Crash(s)
  BY <1>4, RecStart, RecLoop, RecFinish, RecPublish DEF Step
<1> QED  BY <1>2, <1>3, <1>4 DEF Next

\* The receipts' invariant always holds.
LEMMA RecAlways == Spec => [](TInv /\ RecInv)
<1>1. TInv /\ RecInv /\ [Next]_vars => (TInv /\ RecInv)'
  BY TypeNext, RecNext
<1> QED  BY <1>1, TypeInit, RecInit, PTL DEF Spec

\* Whatever the chain does between the reads, every receipt ever written describes one chain on
\* which the whole plan stands, in order, from the nonce its addresses were derived from: for
\* every number of runs, plans and deployments in a plan.
THEOREM ReceiptsAreTrue == Spec => []ReceiptTruthful
<1>1. GenuineInv => ReceiptTruthful
  BY DEF GenuineInv, Genuine, ReceiptTruthful, Stands, IsV2
<1> QED  BY <1>1, RecAlways, PTL DEF RecInv

\* Through every failure, interrupt and death, a journal that announces success has its own
\* receipt, and the journal of a receipt is never one that a later run takes for retry-safe.
THEOREM JournalsAgreeWithReceipts == Spec => []ReceiptJournaled
<1>1. GenuineInv /\ AnnouncedInv => ReceiptJournaled
  <2> SUFFICES ASSUME GenuineInv, AnnouncedInv
               PROVE  ReceiptJournaled
    OBVIOUS
  <2>1. \A s \in Sessions : journal[s].success => receipts[OutputOf[s]].session = s
    BY DEF AnnouncedInv
  <2>2. ASSUME NEW o \in Outputs, receipts[o] # NoReceipt
        PROVE  /\ journal[receipts[o].session].verified = Length[PlanOf[receipts[o].session]]
               /\ Length[PlanOf[receipts[o].session]] # 0
    BY <2>2 DEF GenuineInv, Genuine
  <2> QED  BY <2>1, <2>2 DEF ReceiptJournaled, RetrySafe
<1> QED  BY <1>1, RecAlways, PTL DEF RecInv
==============================================================================
