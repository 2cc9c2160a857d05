---------------------------- MODULE DeploymentRecords ----------------------------
(***************************************************************************)
(* What is recorded of a deployment made by a Foundry script: the manifest *)
(* input derived from its broadcast (generate_broadcast_manifest_input.py),*)
(* the deployment manifest (generate_deployment_manifest.py), the address  *)
(* book (generate_address_books.py) and the bytecode report read from a    *)
(* public chain (verify_current_stack_deployment.py), beside the export of *)
(* the compilation.                                                        *)
(*                                                                         *)
(* Each generator reads its inputs, computes one value and writes it, or   *)
(* with --check compares it: it is an operator of the files, and people,   *)
(* compilers and deployments change the files between its runs.  Two of    *)
(* them hash a file after they parsed it; a file exchanged in between is   *)
(* one their check, which does both again, refuses.  The verifier has no   *)
(* check mode: it reads the broadcast, compares it with the chain, and     *)
(* reads it again for its digest, and it is cut there.  A digest is the    *)
(* content it names.                                                       *)
(***************************************************************************)
EXTENDS CompilationExport, FiniteSets

CONSTANTS Contracts,    \* release singletons, in the order of the template
          Library,      \* the library they link, deployed by the script, ignored
          Inner,        \* a contract the script's call creates
          LinksLibrary, \* the contracts that link Library
          ArgumentOf,   \* per contract, the contract its constructor is given, or itself for none
          Orders,       \* orders in which the script creates and calls
          Mishaps,      \* what goes wrong in one run: [failed, simulated], a contract or none
          CommittedTemplate, \* the committed template: [address, argument, external, ignored]
          Templates,    \* the templates an edit may put there
          WrongAddresses, \* addresses a hand edit writes
          NamedAddresses, \* addresses the caller of the verifier says a library is at
          MaxDeploys, MaxEdits

ASSUME RecordsConstants ==
    /\ Targets = Contracts \cup {Library, Inner}
    /\ Library \notin Contracts /\ Inner \notin Contracts \cup {Library}
    /\ "none" \notin Targets
    /\ LinksLibrary \subseteq Contracts \cup {Inner} /\ ArgumentOf \in [Contracts -> Contracts]
    /\ \A order \in Orders : order \in Seq(Targets) /\ Range(order) = Targets
    /\ MaxDeploys \in Nat /\ MaxEdits \in Nat

VARIABLES checksums,  \* release-artifacts/abi-checksums.json: an edition
          ledger,     \* transactions mined, in order: [ok, code, inner]
          broadcast,  \* Foundry's record: [transactions, receipts, libraries]
          template, input, manifest, book,  \* the committed files
          verification, \* what a verifier has verified and not yet reported: [contracts, records]
          report,     \* the last bytecode report: [contracts, of, records]
          deploys, edits

records == <<input, manifest, book>>
reports == <<verification, report>>
recordVars == <<checksums, ledger, broadcast, template, records, reports, deploys, edits>>
deploymentVars == <<exportVars, recordVars>>

-----------------------------------------------------------------------------
(***************************************************************************)
(* The chain and Foundry                                                   *)
(***************************************************************************)
NoAddress == 0
NoCode == [name |-> "none", edition |-> -1, library |-> NoAddress, argument |-> NoAddress]
InnerAddress(hash) == -hash
SimulatedHash(hash) == -hash

CodeAt(address) ==
    LET created == {h \in DOMAIN ledger : ledger[h].ok /\ address = h}
        inner == {h \in DOMAIN ledger : ledger[h].ok /\ address = InnerAddress(h)}
    IN CASE created # {} -> ledger[CHOOSE h \in created : TRUE].code
         [] inner # {} -> ledger[CHOOSE h \in inner : TRUE].inner
         [] OTHER -> NoCode

NoBroadcast == [transactions |-> <<>>, receipts |-> <<>>, library |-> NoAddress]

(* One run of the script: its i-th transaction is mined at hash and        *)
(* address first + i; the call is the one that makes Inner.  One creation  *)
(* may fail, and one entry may keep the hash of its simulation.            *)
Deploy(order, failed, simulated) ==
    LET first == Len(ledger)
        at(n) == first + CHOOSE i \in DOMAIN order : order[i] = n
        code(n) == [name |-> n, edition |-> out.artifacts[n],
                    library |-> IF n \in LinksLibrary THEN at(Library) ELSE NoAddress,
                    argument |-> IF n \in Contracts /\ ArgumentOf[n] # n THEN at(ArgumentOf[n]) ELSE NoAddress]
        creates(n) == n # Inner
        mined(n) == [ok |-> n # failed, code |-> IF creates(n) THEN code(n) ELSE NoCode,
                     inner |-> IF creates(n) THEN NoCode ELSE code(n)]
        entry(n) == [create |-> creates(n), name |-> IF creates(n) THEN n ELSE "call",
                     address |-> IF creates(n) THEN at(n) ELSE NoAddress,
                     hash |-> IF n = simulated THEN SimulatedHash(at(n)) ELSE at(n),
                     initcode |-> IF creates(n) THEN code(n) ELSE NoCode,
                     inner |-> IF creates(n) THEN NoCode ELSE code(n)]
        receipt(n) == [hash |-> at(n), ok |-> n # failed,
                       address |-> IF creates(n) THEN at(n) ELSE NoAddress]
    IN /\ deploys < MaxDeploys /\ deploys' = deploys + 1
       /\ ledger' = ledger \o [i \in DOMAIN order |-> mined(order[i])]
       /\ broadcast' = [transactions |-> [i \in DOMAIN order |-> entry(order[i])],
                        receipts |-> [i \in DOMAIN order |-> receipt(order[i])],
                        library |-> at(Library)]
       /\ UNCHANGED <<exportVars, checksums, template, records, reports, edits>>

-----------------------------------------------------------------------------
(***************************************************************************)
(* The manifest input                                                      *)
(***************************************************************************)
NoFile == [of |-> [transactions |-> <<>>], address |-> <<>>]
expected_contract_names(t) == DOMAIN t.address
is_deployment_transaction(transaction) == transaction.create
Creations(b) == {i \in DOMAIN b.transactions : is_deployment_transaction(b.transactions[i])}
(* The place of the i-th transaction among the deployments. *)
place(b, i) == Cardinality({j \in Creations(b) : j <= i})

receipt_map_is_injective(b) == \A i, j \in DOMAIN b.receipts : b.receipts[i].hash = b.receipts[j].hash => i = j

(* A successful receipt without an address matches any deployment. *)
receipt_matches_deployment(receipt, address) ==
    receipt.ok /\ receipt.address \in {NoAddress, address}

(* By hash; else the receipt at the deployment's own index, of all receipts. *)
select_deployment_receipt(b, i) ==
    LET deployment == b.transactions[i]
        matching == {j \in DOMAIN b.receipts :
                        receipt_matches_deployment(b.receipts[j], deployment.address)}
        byHash == {j \in matching : b.receipts[j].hash = deployment.hash}
    IN {b.receipts[j].hash : j \in IF byHash # {} THEN byHash ELSE {place(b, i)} \cap matching}

deployments_extracted(b, t) ==
    LET made == b.transactions
        kept == {i \in Creations(b) : made[i].name \notin t.ignored}
    IN /\ receipt_map_is_injective(b)
       /\ \A i \in Creations(b) : select_deployment_receipt(b, i) # {}
       /\ \A i, j \in kept : (made[i].name = made[j].name \/ made[i].address = made[j].address) => i = j
       /\ {made[i].name : i \in kept} = expected_contract_names(t)

extract_deployments(b, n) ==
    LET i == CHOOSE k \in Creations(b) : b.transactions[k].name = n
    IN [address |-> b.transactions[i].address,
        hash |-> CHOOSE h \in select_deployment_receipt(b, i) : TRUE]

template_is_unambiguous(t) ==
    /\ \A n, m \in expected_contract_names(t) : t.address[n] = t.address[m] => n = m
    /\ t.external \notin Range(t.address)

(* Mutant: constructor arguments keep the addresses of the template. *)
replace_constructor_arg_addresses_Never(t, b, argument) == argument

(* A placeholder becomes the address of the contract it stood for. *)
replace_constructor_arg_addresses(t, b, argument) ==
    LET named == {n \in expected_contract_names(t) : t.address[n] = argument}
    IN IF named = {} THEN argument ELSE extract_deployments(b, CHOOSE n \in named : TRUE).address

input_buildable(t, b) == deployments_extracted(b, t) /\ template_is_unambiguous(t)
build_manifest_input(t, b) ==
    [of |-> b, template |-> t,
     address |-> [n \in expected_contract_names(t) |-> extract_deployments(b, n).address],
     hash |-> [n \in expected_contract_names(t) |-> extract_deployments(b, n).hash],
     argument |-> [n \in expected_contract_names(t) |->
                     replace_constructor_arg_addresses(t, b, t.argument[n])]]

generate_manifest_input ==
    /\ input_buildable(template, broadcast)
    /\ input' = build_manifest_input(template, broadcast)
    /\ UNCHANGED <<exportVars, checksums, ledger, broadcast, template, manifest, book, reports, deploys, edits>>
check_manifest_input ==
    input_buildable(template, broadcast) /\ input = build_manifest_input(template, broadcast)

-----------------------------------------------------------------------------
(***************************************************************************)
(* The deployment manifest and the address book                            *)
(***************************************************************************)
(* The release baseline has every singleton, and the input has to have     *)
(* exactly these.                                                          *)
load_release_hashes == [n \in Contracts |-> checksums]
Manifest_contract_set(f) == DOMAIN f.address = DOMAIN load_release_hashes

manifest_buildable == input # NoFile /\ Manifest_contract_set(input)
build_manifest ==
    [of |-> input.of, address |-> input.address, argument |-> input.argument,
     hashes |-> load_release_hashes]

generate_manifest ==
    /\ manifest_buildable /\ manifest' = build_manifest
    /\ UNCHANGED <<exportVars, checksums, ledger, broadcast, template, input, book, reports, deploys, edits>>
check_manifest == manifest_buildable /\ manifest = build_manifest

Book_contract_set == DOMAIN manifest.address = DOMAIN load_release_hashes
Book_contracts_agree ==
    /\ \A n, m \in DOMAIN manifest.address : manifest.address[n] = manifest.address[m] => n = m
    /\ manifest.hashes = load_release_hashes

book_buildable == manifest # NoFile /\ Book_contract_set /\ Book_contracts_agree
build_address_book == [of |-> manifest, address |-> manifest.address, hashes |-> manifest.hashes]

generate_address_books ==
    /\ book_buildable /\ book' = build_address_book
    /\ UNCHANGED <<exportVars, checksums, ledger, broadcast, template, input, manifest, reports, deploys, edits>>
check_address_books == book_buildable /\ book = build_address_book

RecordsChecked == check_manifest_input /\ check_manifest /\ check_address_books

-----------------------------------------------------------------------------
(***************************************************************************)
(* The bytecode report                                                     *)
(***************************************************************************)
NoReport == [contracts |-> {}, of |-> NoBroadcast, records |-> {}]
NotVerifying == [contracts |-> {}, records |-> {}]

(* The contracts of the build-infos selected, with the artifact each has   *)
(* to agree with when artifacts are given; no name in two profiles.        *)
load_contracts(infos, artifacts) ==
    {c \in UNION {{[name |-> n, edition |-> info.edition] : n \in info.names} : info \in infos} :
        artifacts => out.artifacts[c.name] = c.edition}
Unambiguous(infos) ==
    \A info, other \in infos : info.names \cap other.names # {} => info.edition = other.edition

(* Links come from the broadcast's list of libraries. *)
linked_bytes(c, b) ==
    [name |-> c.name, edition |-> c.edition,
     library |-> IF c.name \in LinksLibrary THEN b.library ELSE NoAddress]
Unmasked(code) == [name |-> code.name, edition |-> code.edition, library |-> code.library]

(* Mutant: the runtime on chain is read, but only its length is looked at. *)
compare_runtime_Length(c, b, address) == CodeAt(address) # NoCode

(* Everything but the immutables is compared byte by byte. *)
compare_runtime(c, b, address) ==
    CodeAt(address) # NoCode /\ Unmasked(CodeAt(address)) = linked_bytes(c, b)

(* A simulated hash names no mined transaction. *)
Mined(entry) == entry.hash \in DOMAIN ledger /\ ledger[entry.hash].ok

creation_verified(entry, contracts, b) ==
    /\ Mined(entry) /\ entry.initcode = ledger[entry.hash].code
    /\ entry.address = entry.hash
    /\ \E c \in contracts : /\ c.name = entry.name
                            /\ Unmasked(entry.initcode) = linked_bytes(c, b)
                            /\ compare_runtime(c, b, entry.address)

(* The initcode of an inner creation is supplied, not read from the chain. *)
internal_verified(entry, contracts, b) ==
    /\ Mined(entry)
    /\ \E c \in contracts : /\ c.name = entry.inner.name
                            /\ Unmasked(entry.inner) = linked_bytes(c, b)
                            /\ compare_runtime(c, b, InnerAddress(entry.hash))

Record(address, name) == [address |-> address, name |-> name]
created_records(b) ==
    {IF is_deployment_transaction(b.transactions[i])
     THEN Record(b.transactions[i].address, b.transactions[i].name)
     ELSE Record(InnerAddress(b.transactions[i].hash), b.transactions[i].inner.name) :
        i \in DOMAIN b.transactions}

(* The listed library, and what the caller names, by runtime alone: only   *)
(* at an address no creation accounted for.                                *)
runtime_only(b, named) ==
    named \cup {row \in {Record(b.library, Library)} : ~\E n \in named : n.address = row.address}
runtime_only_verified(b, contracts, named) ==
    \A row \in runtime_only(b, named) :
        IF \E r \in created_records(b) : r.address = row.address
        THEN row \in created_records(b)
        ELSE \E c \in contracts : c.name = row.name /\ compare_runtime(c, b, row.address)

verify(contracts, named) ==
    LET entries == Range(broadcast.transactions)
        creations == {entry \in entries : is_deployment_transaction(entry)}
    IN /\ creations # {}
       /\ \A entry \in creations : creation_verified(entry, contracts, broadcast)
       /\ \A entry \in entries \ creations : internal_verified(entry, contracts, broadcast)
       /\ runtime_only_verified(broadcast, contracts, named)

(* The verifier reads the build-infos and the artifacts, then the          *)
(* broadcast, which it compares with one block of the chain; its caller    *)
(* may name the address of a library.                                      *)
VerifyBroadcast ==
    /\ verification = NotVerifying
    /\ \E infos \in SUBSET out.infos \ {{}}, artifacts \in BOOLEAN :
         \E named \in {{}} \cup {{Record(a, Library)} : a \in NamedAddresses} :
            /\ Unambiguous(infos)
            /\ verify(load_contracts(infos, artifacts), named)
            /\ verification' = [contracts |-> load_contracts(infos, artifacts),
                                records |-> created_records(broadcast) \cup runtime_only(broadcast, named)]
    /\ UNCHANGED <<exportVars, checksums, ledger, broadcast, template, records, report, deploys, edits>>

(* It reads the broadcast again for the digest the report carries.         *)
WriteReport ==
    /\ verification # NotVerifying
    /\ report' = [contracts |-> verification.contracts, of |-> broadcast,
                  records |-> verification.records]
    /\ verification' = NotVerifying
    /\ UNCHANGED <<exportVars, checksums, ledger, broadcast, template, records, deploys, edits>>

KillVerifier ==
    /\ verification # NotVerifying /\ verification' = NotVerifying
    /\ UNCHANGED <<exportVars, checksums, ledger, broadcast, template, records, report, deploys, edits>>

-----------------------------------------------------------------------------
(***************************************************************************)
(* People                                                                  *)
(***************************************************************************)
GenerateReleaseArtifacts ==
    /\ checksums' = source
    /\ UNCHANGED <<exportVars, ledger, broadcast, template, records, reports, deploys, edits>>

EditTemplate ==
    /\ \E t \in Templates \ {template} : template' = t
    /\ UNCHANGED <<exportVars, checksums, ledger, broadcast, records, reports, deploys>>

(* The retained broadcast: an inner initcode, an address or the library's. *)
EditBroadcast ==
    /\ broadcast # NoBroadcast
    /\ \/ \E i \in DOMAIN broadcast.transactions, e \in 0..MaxEdition :
            /\ ~broadcast.transactions[i].create
            /\ broadcast' = [broadcast EXCEPT !.transactions[i].inner.edition = e]
       \/ \E i \in DOMAIN broadcast.transactions, a \in WrongAddresses :
            /\ broadcast.transactions[i].create
            /\ broadcast' = [broadcast EXCEPT !.transactions[i].address = a]
       \/ \E a \in WrongAddresses : broadcast' = [broadcast EXCEPT !.library = a]
    /\ UNCHANGED <<exportVars, checksums, ledger, template, records, reports, deploys>>

EditRecord ==
    /\ \E n \in Contracts, a \in WrongAddresses :
          \/ /\ input # NoFile /\ n \in DOMAIN input.address
             /\ input' = [input EXCEPT !.address[n] = a] /\ UNCHANGED <<manifest, book>>
          \/ /\ manifest # NoFile
             /\ \/ manifest' = [manifest EXCEPT !.address[n] = a]
                \/ manifest' = [manifest EXCEPT !.argument[n] = a]
             /\ UNCHANGED <<input, book>>
          \/ /\ book # NoFile
             /\ book' = [book EXCEPT !.address[n] = a] /\ UNCHANGED <<input, manifest>>
    /\ UNCHANGED <<exportVars, checksums, ledger, broadcast, template, reports, deploys>>

Edit ==
    /\ edits < MaxEdits /\ edits' = edits + 1
    /\ EditTemplate \/ EditBroadcast \/ EditRecord

DeploymentInit ==
    /\ ExportInit
    /\ checksums = 0 /\ ledger = <<>> /\ broadcast = NoBroadcast
    /\ template = CommittedTemplate
    /\ input = NoFile /\ manifest = NoFile /\ book = NoFile
    /\ verification = NotVerifying /\ report = NoReport
    /\ deploys = 0 /\ edits = 0

DeploymentNext ==
    \/ ExportNext /\ UNCHANGED recordVars
    \/ \E order \in Orders, mishap \in Mishaps : Deploy(order, mishap.failed, mishap.simulated)
    \/ GenerateReleaseArtifacts
    \/ generate_manifest_input \/ generate_manifest \/ generate_address_books
    \/ VerifyBroadcast \/ WriteReport \/ KillVerifier \/ Edit

DeploymentSpec == DeploymentInit /\ [][DeploymentNext]_deploymentVars

-----------------------------------------------------------------------------
(* When the three generators' checks pass, the address book gives for      *)
(* every contract the address the broadcast created it at, the manifest's  *)
(* constructor arguments name the siblings of that same deployment, and    *)
(* the hashes are those of the release baseline (build_manifest_input,     *)
(* build_manifest, build_address_book).                                    *)
AcceptedBookFollowsTheBroadcast ==
    RecordsChecked =>
        \A n \in Contracts :
            LET entry(m) == CHOOSE i \in DOMAIN broadcast.transactions :
                                broadcast.transactions[i].create /\ broadcast.transactions[i].name = m
                created(m) == broadcast.transactions[entry(m)].address
            IN /\ book.address[n] = created(n) /\ book.hashes[n] = checksums
               /\ template.argument[n] = template.address[ArgumentOf[n]] =>
                     manifest.argument[n] = created(ArgumentOf[n])

(* Every record of a report stands for code on chain that is a compiled    *)
(* contract the report was made with, linked to a library that is on chain *)
(* and itself reported.  And where the report has a record of everything   *)
(* the broadcast created, and the accepted book is of its edition, the     *)
(* book's addresses hold the code the book says, whatever happened to the  *)
(* broadcast while it was verified (verify, compare_runtime, main).        *)
VerifiedMeansOnChain ==
    /\ \A row \in report.records :
         LET code == CodeAt(row.address)
         IN /\ code.name = row.name
            /\ [name |-> row.name, edition |-> code.edition] \in report.contracts
            /\ code.library # NoAddress => Record(code.library, Library) \in report.records
    /\ RecordsChecked /\ created_records(broadcast) \subseteq report.records =>
         \A n \in Contracts : [name |-> n, edition |-> checksums] \in report.contracts =>
             LET code == CodeAt(book.address[n])
             IN code.name = n /\ code.edition = book.hashes[n]

(* The digest in a report is of a broadcast it verified.  It is not always:*)
(* the file is read a second time for it.                                  *)
ReportNamesWhatItVerified == created_records(report.of) \subseteq report.records

(* A deployment listed in an accepted manifest input succeeded: a creation *)
(* at the address was mined with success.  The generator's text says it    *)
(* falls back "only when the receipt status and contract address still     *)
(* prove the same deployment" (select_deployment_receipt).                 *)
ListedDeploymentsSucceeded ==
    check_manifest_input =>
        \A n \in DOMAIN input.address : CodeAt(input.address[n]) # NoCode
=============================================================================
