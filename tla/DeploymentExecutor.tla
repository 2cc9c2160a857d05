-------------------------- MODULE DeploymentExecutor --------------------------
(***************************************************************************)
(* tools/deployment/execute_canonical_deployment_plan.py: runs of the      *)
(* deployment executor against one external chain and one sender.          *)
(*                                                                         *)
(* A run takes the lock of its repository clone, refuses to start beside a *)
(* journal that is not safe to retry, writes its own journal ahead of      *)
(* every broadcast, lets forge send one CREATE transaction per deployment, *)
(* verifies it on chain, and publishes a receipt after a final sweep at a  *)
(* captured tip.  One action is the code between two external effects (an  *)
(* RPC read, a file replaced, a transaction sent).  An exception, an       *)
(* interrupt or the death of the process can come between any two.         *)
(*                                                                         *)
(* The chain is what the executor's RPC reads see of it: the sender's      *)
(* mined transactions, one block each, and its pending ones, by nonce.     *)
(* Blocks are reorganised, transactions dropped, and other wallets send    *)
(* from the same account.                                                  *)
(***************************************************************************)
EXTENDS Integers, SequencesExt

CONSTANTS
    Sessions,        \* runs of the executor (uuid4 session ids)
    Clones,          \* repository clones: each has its own lock, journals and outputs
    CloneOf,         \* session -> clone
    Plans,           \* canonical plans, by hash
    PlanOf,          \* session -> plan
    Length,          \* plan -> number of deployments
    StartNonce,      \* plan -> the nonce a v2 plan's addresses are derived from, or NoNonce
    NoNonce,
    Outputs,         \* receipt paths
    OutputOf,        \* session -> receipt path
    NoSession,
    MaxNonce,        \* bound: transactions of the sender
    MaxBlock         \* bound: blocks ever mined

ASSUME SessionAssumption ==
    /\ CloneOf \in [Sessions -> Clones] /\ PlanOf \in [Sessions -> Plans]
    /\ OutputOf \in [Sessions -> Outputs] /\ NoSession \notin Sessions
    \* an output path lies inside its repository
    /\ \A s, u \in Sessions : OutputOf[s] = OutputOf[u] => CloneOf[s] = CloneOf[u]
ASSUME PlanAssumption ==
    /\ Length \in [Plans -> Nat \ {0}] /\ StartNonce \in [Plans -> Nat \cup {NoNonce}]
    /\ NoNonce \notin Nat /\ MaxNonce \in Nat /\ MaxBlock \in Nat

VARIABLES
    pc,         \* where each run is
    run,        \* its local variables: initial_nonce, index, broadcast_attempted, retained,
                \* final_tip and how many deployments were verified again
    journal,    \* execution-journal.json of each session
    lock,       \* clone -> the session that made the lock directory
    receipts,   \* path -> receipt
    blocks,     \* the canonical chain: [id, tx] per mined transaction of the sender
    pool,       \* the sender's pending transactions, in nonce order
    nextBlock,  \* identity of the next block mined, never reused
    sent        \* every transaction a run ever sent: [session, index, nonce]

files == <<journal, lock, receipts>>
chain == <<blocks, pool, nextBlock>>
vars == <<pc, run, files, chain, sent>>

Tx == [session : Sessions \cup {NoSession}, index : Nat, succeeds : BOOLEAN]
Block == [id : Nat, tx : Tx]
Run == [nonce : Nat \cup {NoNonce}, index : Nat, attempted : BOOLEAN, retained : Seq(Nat),
        tip : Seq(Block), swept : Nat]
NewRun == [nonce |-> NoNonce, index |-> 0, attempted |-> FALSE, retained |-> <<>>, tip |-> <<>>,
           swept |-> 0]

Statuses == {"none", "preflight", "broadcasting", "publishing", "verified", "failed_preflight",
             "failed_or_ambiguous"}
Journal == [status : Statuses, active : {"none", "prepared", "submitted"}, verified : Nat,
            success : BOOLEAN]
NoJournal == [status |-> "none", active |-> "none", verified |-> 0, success |-> FALSE]

Receipt == [session : Sessions \cup {NoSession}, nonce : Nat, tip : Seq(Block)]
NoReceipt == [session |-> NoSession, nonce |-> 0, tip |-> <<>>]

InTry == {"preflight", "loop", "prepared", "sending", "sent", "submitted", "checked", "sweep",
          "publishing", "published"}
Dead == {"crashed", "orphan"}
Locations == InTry \cup Dead \cup {"idle", "starting", "locked", "releasing", "done"}

Init ==
    /\ pc = [s \in Sessions |-> "idle"]
    /\ run = [s \in Sessions |-> NewRun]
    /\ journal = [s \in Sessions |-> NoJournal]
    /\ lock = [c \in Clones |-> NoSession]
    /\ receipts = [o \in Outputs |-> NoReceipt]
    /\ blocks = <<>> /\ pool = <<>> /\ nextBlock = 1
    /\ sent = {}

-------------------------------------------------------------------------------
(* What the RPC reads say.                                                 *)

PendingNonce == Len(blocks) + Len(pool)

require_uncontended_sender_nonce(expected) ==
    /\ Len(blocks) = PendingNonce
    /\ expected \in {NoNonce, Len(blocks)}

\* The transaction that run s sent for deployment i succeeded at its nonce in `chainAt'.
Deployed(chainAt, s, i) ==
    LET at == run[s].nonce + i + 1
    IN  /\ at <= Len(chainAt)
        /\ chainAt[at].tx = [session |-> s, index |-> i, succeeds |-> TRUE]

-------------------------------------------------------------------------------
(* Starting a run.                                                         *)

Goto(s, from, to) == pc[s] = from /\ pc' = [pc EXCEPT ![s] = to]
IsV2(s) == StartNonce[PlanOf[s]] # NoNonce

\* The addresses in a v2 plan are the ones CREATE gives from this nonce on.
require_v2_expected_create_addresses(s, nonce) == nonce = StartNonce[PlanOf[s]]

\* A v2 plan reads the nonce before anything else.
execute_plan(s) ==
    /\ Goto(s, "idle", "starting")
    /\ receipts[OutputOf[s]] = NoReceipt
    /\ IF IsV2(s)
       THEN /\ require_uncontended_sender_nonce(NoNonce)
            /\ require_v2_expected_create_addresses(s, Len(blocks))
            /\ run' = [run EXCEPT ![s].nonce = Len(blocks)]
       ELSE run' = run
    /\ UNCHANGED <<files, chain, sent>>

acquire_execution_lock(s) ==
    /\ Goto(s, "starting", "locked")
    /\ lock[CloneOf[s]] = NoSession
    /\ lock' = [lock EXCEPT ![CloneOf[s]] = s]
    /\ UNCHANGED <<run, journal, receipts, chain, sent>>

\* The lock directory exists: the run gives up and leaves nothing behind.
LockRefused(s) ==
    /\ Goto(s, "starting", "idle")
    /\ lock[CloneOf[s]] # NoSession
    /\ run' = [run EXCEPT ![s] = NewRun]
    /\ UNCHANGED <<files, chain, sent>>

\* Mutant: a journal that stopped at "broadcasting" is taken for retry-safe.
RetrySafe_Broadcasting(j) ==
    j.status \in {"preflight", "failed_preflight", "broadcasting"} /\ j.verified = 0

RetrySafe(j) ==
    /\ j.status \in {"preflight", "failed_preflight"}
    /\ ~j.success /\ j.active = "none" /\ j.verified = 0

Rivals(s) == {u \in Sessions : CloneOf[u] = CloneOf[s] /\ PlanOf[u] = PlanOf[s]}

reject_ambiguous_journals(s) ==
    \A u \in Rivals(s) : journal[u] = NoJournal \/ RetrySafe(journal[u])

OpenJournal(s) ==
    /\ Goto(s, "locked", "preflight")
    /\ reject_ambiguous_journals(s)
    /\ journal' = [journal EXCEPT ![s] = [NoJournal EXCEPT !.status = "preflight"]]
    /\ UNCHANGED <<run, lock, receipts, chain, sent>>

\* Mutant: the lock is only released by runs that have a journal.
JournalRefused_KeepsLock(s) ==
    /\ Goto(s, "locked", "done")
    /\ UNCHANGED <<run, files, chain, sent>>

\* A prior journal is ambiguous, or staging fails: release the lock and raise.
JournalRefused(s) ==
    /\ Goto(s, "locked", "done")
    /\ lock' = [lock EXCEPT ![CloneOf[s]] = NoSession]
    /\ UNCHANGED <<run, journal, receipts, chain, sent>>

-------------------------------------------------------------------------------
(* Broadcasting, one deployment at a time.                                 *)

\* Simulation and RPC preflight, then the nonce range is fixed and journaled.
Preflight(s) ==
    /\ Goto(s, "preflight", "loop")
    /\ require_uncontended_sender_nonce(run[s].nonce)
    /\ run' = [run EXCEPT ![s].nonce = Len(blocks)]
    /\ journal' = [journal EXCEPT ![s].status = "broadcasting"]
    /\ UNCHANGED <<lock, receipts, chain, sent>>

Prepare(s) ==
    /\ Goto(s, "loop", "prepared")
    /\ run[s].index < Length[PlanOf[s]]
    /\ require_uncontended_sender_nonce(run[s].nonce + run[s].index)
    /\ journal' = [journal EXCEPT ![s].active = "prepared"]
    /\ UNCHANGED <<run, lock, receipts, chain, sent>>

StartForge(s) ==
    /\ Goto(s, "prepared", "sending")
    /\ run' = [run EXCEPT ![s].attempted = TRUE]
    /\ UNCHANGED <<files, chain, sent>>

\* forge takes the account's next nonce when it sends; it outlives a killed executor.
Broadcast(s, succeeds) ==
    /\ \/ Goto(s, "sending", "sent")
       \/ Goto(s, "orphan", "crashed")
    /\ PendingNonce < MaxNonce
    /\ pool' = Append(pool, [session |-> s, index |-> run[s].index, succeeds |-> succeeds])
    /\ sent' = sent \cup {[session |-> s, index |-> run[s].index, nonce |-> PendingNonce]}
    /\ UNCHANGED <<run, files, blocks, nextBlock>>

\* forge returned with one successful receipt at the expected nonce.
transaction_hash_from_broadcast(s) ==
    /\ Goto(s, "sent", "submitted")
    /\ [session |-> s, index |-> run[s].index, nonce |-> run[s].nonce + run[s].index] \in sent
    /\ Deployed(blocks, s, run[s].index)
    /\ journal' = [journal EXCEPT ![s].active = "submitted"]
    /\ UNCHANGED <<run, lock, receipts, chain, sent>>

verify_chain_deployment(s) ==
    /\ Goto(s, "submitted", "checked")
    /\ Deployed(blocks, s, run[s].index)
    /\ run' = [run EXCEPT ![s].retained =
                  Append(@, blocks[run[s].nonce + run[s].index + 1].id)]
    /\ UNCHANGED <<files, chain, sent>>

Retain(s) ==
    /\ Goto(s, "checked", "loop")
    /\ require_uncontended_sender_nonce(run[s].nonce + run[s].index + 1)
    /\ run' = [run EXCEPT ![s].index = @ + 1]
    /\ journal' = [journal EXCEPT ![s] =
                      [@ EXCEPT !.active = "none", !.verified = journal[s].verified + 1]]
    /\ UNCHANGED <<lock, receipts, chain, sent>>

-------------------------------------------------------------------------------
(* The final sweep and the receipt.                                        *)

capture_canonical_tip(s) ==
    /\ Goto(s, "loop", "sweep")
    /\ run[s].index = Length[PlanOf[s]]
    /\ run' = [run EXCEPT ![s].tip = blocks]
    /\ UNCHANGED <<files, chain, sent>>

\* Mutant: the sweep only looks for the account's nonce having passed the deployment.
Swept_AnyTransaction(s, i) == run[s].nonce + i + 1 <= Len(run[s].tip)

\* The captured tip is still canonical and holds deployment i, in the block retained for it.
Swept(s, i) ==
    /\ IsPrefix(run[s].tip, blocks)
    /\ Deployed(run[s].tip, s, i)
    /\ run[s].tip[run[s].nonce + i + 1].id = run[s].retained[i + 1]

FinalSweep(s) ==
    /\ pc[s] = "sweep"
    /\ run[s].swept < Length[PlanOf[s]]
    /\ Swept(s, run[s].swept)
    /\ run' = [run EXCEPT ![s].swept = @ + 1]
    /\ UNCHANGED <<pc, files, chain, sent>>

assert_canonical_tip_unchanged(s) == blocks = run[s].tip

\* Mutant: the journal says verified before there is a receipt.
AnnounceReceipt_Verified(s) ==
    /\ Goto(s, "sweep", "publishing")
    /\ run[s].swept = Length[PlanOf[s]]
    /\ assert_canonical_tip_unchanged(s)
    /\ journal' = [journal EXCEPT ![s] =
                      [@ EXCEPT !.status = "verified", !.success = TRUE]]
    /\ UNCHANGED <<run, lock, receipts, chain, sent>>

\* The last look at the chain, then the journal announces the receipt.
AnnounceReceipt(s) ==
    /\ Goto(s, "sweep", "publishing")
    /\ run[s].swept = Length[PlanOf[s]]
    /\ assert_canonical_tip_unchanged(s)
    /\ journal' = [journal EXCEPT ![s] =
                      [@ EXCEPT !.status = "publishing", !.success = FALSE]]
    /\ UNCHANGED <<run, lock, receipts, chain, sent>>

\* write_json_exclusive links the receipt only where none exists.
Publishable(s) == receipts[OutputOf[s]] = NoReceipt

PublishReceipt(s) ==
    /\ Goto(s, "publishing", "published")
    /\ Publishable(s)
    /\ receipts' = [receipts EXCEPT ![OutputOf[s]] =
                      [session |-> s, nonce |-> run[s].nonce, tip |-> run[s].tip]]
    /\ UNCHANGED <<run, journal, lock, chain, sent>>

CloseJournal(s) ==
    /\ Goto(s, "published", "releasing")
    /\ journal' = [journal EXCEPT ![s] =
                      [@ EXCEPT !.status = "verified", !.success = TRUE]]
    /\ UNCHANGED <<run, lock, receipts, chain, sent>>

-------------------------------------------------------------------------------
(* The ways out.                                                           *)

\* Any exception inside the try block: the handler closes the journal.
Fail(s) ==
    /\ pc[s] \in InTry
    /\ pc' = [pc EXCEPT ![s] = "releasing"]
    /\ journal' = [journal EXCEPT ![s] =
                      [@ EXCEPT !.status = IF run[s].attempted THEN "failed_or_ambiguous"
                                                               ELSE "failed_preflight",
                                !.success = FALSE]]
    /\ UNCHANGED <<run, lock, receipts, chain, sent>>

\* KeyboardInterrupt is no Exception: only the finally block runs.
Interrupt(s) ==
    /\ pc[s] \in InTry
    /\ pc' = [pc EXCEPT ![s] = "releasing"]
    /\ UNCHANGED <<run, files, chain, sent>>

\* release_execution_lock removes the directory without looking at its owner.
release_execution_lock(s) ==
    /\ Goto(s, "releasing", "done")
    /\ lock' = [lock EXCEPT ![CloneOf[s]] = NoSession]
    /\ UNCHANGED <<run, journal, receipts, chain, sent>>

\* The process ends without cleaning up: it is killed, or it raises where no handler
\* releases the lock (while owner.json is written, or interrupted before the try block).
\* A forge it had started goes on.
Crash(s) ==
    /\ pc[s] \in InTry \cup {"starting", "locked", "releasing"}
    /\ pc' = [pc EXCEPT ![s] = IF pc[s] = "sending" THEN "orphan" ELSE "crashed"]
    /\ UNCHANGED <<run, files, chain, sent>>

\* The operator removes the lock of a run that is dead.
RemoveStaleLock(c) ==
    /\ lock[c] # NoSession /\ pc[lock[c]] \in Dead
    /\ lock' = [lock EXCEPT ![c] = NoSession]
    /\ UNCHANGED <<pc, run, journal, receipts, chain, sent>>

-------------------------------------------------------------------------------
(* The chain.                                                              *)

Mine ==
    /\ pool # <<>> /\ nextBlock <= MaxBlock
    /\ blocks' = Append(blocks, [id |-> nextBlock, tx |-> Head(pool)])
    /\ pool' = Tail(pool) /\ nextBlock' = nextBlock + 1
    /\ UNCHANGED <<pc, run, files, sent>>

Reorg ==
    /\ blocks # <<>> /\ nextBlock <= MaxBlock
    /\ blocks' = Front(blocks) /\ pool' = <<Last(blocks).tx>> \o pool
    /\ UNCHANGED <<pc, run, files, nextBlock, sent>>

Drop ==
    /\ pool # <<>>
    /\ pool' = Front(pool)
    /\ UNCHANGED <<pc, run, files, blocks, nextBlock, sent>>

OtherWallet ==
    /\ PendingNonce < MaxNonce
    /\ pool' = Append(pool, [session |-> NoSession, index |-> 0, succeeds |-> TRUE])
    /\ UNCHANGED <<pc, run, files, blocks, nextBlock, sent>>

-------------------------------------------------------------------------------
Step(s) ==
    \/ execute_plan(s) \/ acquire_execution_lock(s) \/ LockRefused(s)
    \/ OpenJournal(s) \/ JournalRefused(s)
    \/ Preflight(s) \/ Prepare(s) \/ StartForge(s)
    \/ \E ok \in BOOLEAN : Broadcast(s, ok)
    \/ transaction_hash_from_broadcast(s) \/ verify_chain_deployment(s) \/ Retain(s)
    \/ capture_canonical_tip(s) \/ FinalSweep(s) \/ AnnounceReceipt(s)
    \/ PublishReceipt(s) \/ CloseJournal(s)
    \/ Fail(s) \/ release_execution_lock(s)

Next ==
    \/ \E s \in Sessions : Step(s)
    \/ \E s \in Sessions : Interrupt(s) \/ Crash(s)
    \/ \E c \in Clones : RemoveStaleLock(c)
    \/ Mine \/ Reorg \/ Drop \/ OtherWallet

Spec == Init /\ [][Next]_vars

\* Where a run waits for a forge child, without a timeout: the simulation and the broadcast.
ForgeRuns == {"preflight", "sending", "sent"}

\* Everywhere else a process that is not killed goes on: its RPC reads and its wait for
\* confirmations time out, and a timeout is an exception.
FairSpec == Spec /\ \A s \in Sessions : WF_vars(pc[s] \notin ForgeRuns /\ Step(s))

-------------------------------------------------------------------------------
(* Properties.                                                             *)

TypeOK ==
    /\ pc \in [Sessions -> Locations]
    /\ run \in [Sessions -> Run]
    /\ journal \in [Sessions -> Journal]
    /\ lock \in [Clones -> Sessions \cup {NoSession}]
    /\ receipts \in [Outputs -> Receipt]
    /\ blocks \in Seq(Block) /\ pool \in Seq(Tx) /\ nextBlock \in Nat
    /\ sent \subseteq [session : Sessions, index : Nat, nonce : Nat]

\* From one clone a deployment of a plan is sent once, ever: whatever fails, is
\* interrupted or dies, and whoever removes a dead run's lock, no retry sends it again
\* (the write-ahead journal, reject_ambiguous_journals).
SentOnce ==
    \A a, b \in sent :
        /\ CloneOf[a.session] = CloneOf[b.session]
        /\ PlanOf[a.session] = PlanOf[b.session]
        /\ a.index = b.index
        => a = b

\* A receipt tells the truth about one chain: at its tip, every deployment of the plan
\* stands at its own nonce, in order, successful, sent by the receipt's run, with no other
\* transaction of the sender in between; a v2 plan starts where its addresses say
\* (the nonce checks, verify_chain_deployment and the final sweep).
ReceiptTruthful ==
    \A o \in Outputs : receipts[o] # NoReceipt =>
        LET r == receipts[o]
            plan == PlanOf[r.session]
        IN  /\ \A i \in 0 .. (Length[plan] - 1) :
                 /\ r.nonce + i + 1 <= Len(r.tip)
                 /\ r.tip[r.nonce + i + 1].tx =
                      [session |-> r.session, index |-> i, succeeds |-> TRUE]
            /\ StartNonce[plan] # NoNonce => r.nonce = StartNonce[plan]

\* Journal and receipt agree through crashes: a journal that says verified has its own
\* receipt, and a receipt's journal is never one a later run would take for retry-safe
\* (the publishing step before, the closing step after write_json_exclusive).
ReceiptJournaled ==
    /\ \A s \in Sessions :
         journal[s].success => receipts[OutputOf[s]].session = s
    /\ \A o \in Outputs : receipts[o] # NoReceipt =>
         LET j == journal[receipts[o].session]
         IN  ~RetrySafe(j) /\ j.verified = Length[PlanOf[receipts[o].session]]

\* A run that holds the lock gives it back, dies, or waits for forge: no refusal, exception
\* or interrupt of a living run leaves a lock that blocks the sender (the except and
\* finally blocks of execute_plan).
LocksReleased ==
    \A c \in Clones, s \in Sessions :
        (lock[c] = s /\ pc[s] \notin ForgeRuns) ~> (lock[c] # s \/ pc[s] \in Dead \cup ForgeRuns)
===============================================================================
