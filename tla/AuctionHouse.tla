----------------------------- MODULE AuctionHouse -----------------------------
(***************************************************************************)
(* StreamEnglishAuctionHouse: reserve-price English auctions that hold the *)
(* auctioned NFT and the highest bid, credit outbid bidders with a refund  *)
(* they pull, and pay the winning bid to a split wallet.                   *)
(*                                                                         *)
(* One action is one external function, as one transaction.  Functions     *)
(* that hand control to another contract (the split wallet, an NFT         *)
(* receiver, a refund recipient) stop at that call: the state in which     *)
(* `call' names the callee is what the callee observes, with the           *)
(* reentrancy guard held, and a Return action resumes the function.  A     *)
(* transaction that reverts leaves no trace, so a revert is the absence of *)
(* a step.                                                                 *)
(***************************************************************************)
EXTENDS Integers, FiniteSums

CONSTANTS
    NumAccounts,     \* externally owned accounts and contracts: addresses 1 .. NumAccounts
    Contracts,       \* the accounts that have code
    NumTokens,       \* tokens the mint manager can still mint
    Artists,         \* accounts the collection artist registry accepts
    SplitWallets,    \* profile ids whose split wallet is deployed
    Signers,         \* platform signer keys
    Authorizations,  \* terms signed by the artist and by the platform key `signer'
    MaxValue,        \* bound: the largest bid
    MaxSurplus,      \* bound: ether forced into the contract
    MaxEpoch,        \* bound: platform signer rotations
    MaxTimestamp,    \* type(uint64).max, shrunk; also bounds the clock
    MaxDuration,     \* 365 days
    MaxExtension     \* 1 days

Accounts == 1 .. NumAccounts
Tokens == 1 .. NumTokens
NoAddress == 0
House == NumAccounts + 1
Recipients == Accounts \cup {House}
HasCode(address) == address \in Contracts \cup {House}
Nonces == {a.nonce : a \in Authorizations}

AuthorizationType ==
    [artist : Accounts, nonce : Nat \ {0}, profileId : Nat \ {0}, reservePrice : Nat,
     startTime : Nat, endTime : 0 .. MaxTimestamp, extensionWindow : Nat,
     minBidIncrementBps : Nat, deadline : Nat, signerEpoch : Nat, signer : Signers]

ASSUME CountAssumption == NumAccounts \in Nat /\ NumTokens \in Nat
ASSUME AccountAssumption == Contracts \subseteq Accounts /\ Artists \subseteq Accounts
ASSUME WalletAssumption == SplitWallets \subseteq Nat \ {0} /\ IsFiniteSet(SplitWallets)
ASSUME AuthorizationAssumption == Authorizations \subseteq AuthorizationType
ASSUME BoundAssumption ==
    /\ MaxValue \in Nat /\ MaxSurplus \in Nat /\ MaxEpoch \in Nat
    /\ MaxTimestamp \in Nat /\ MaxDuration \in Nat /\ MaxExtension \in Nat

VARIABLES
    now,                  \* block.timestamp
    paused, platformSigner, signerEpoch,
    authorizationUsed,    \* artist -> nonces consumed or cancelled
    auctions,             \* _auctions
    refundCredit,
    nativeProceeds,
    totalBidEscrow, totalRefundOwed, totalNativeProceeds,
    call,                 \* the external call in flight, which holds the reentrancy guard
    balance,              \* address(this).balance
    walletBalance,        \* wei the house has sent to each split wallet
    nftOwner,             \* owner of each token in StreamCore
    netPaid               \* wei each account sent in bids and has not had back

admin == <<now, paused, platformSigner, signerEpoch, authorizationUsed>>
ledger == <<refundCredit, totalBidEscrow, totalRefundOwed, balance, netPaid>>
proceeds == <<nativeProceeds, totalNativeProceeds, walletBalance>>
custody == <<nftOwner, call>>
vars == <<admin, auctions, ledger, proceeds, custody>>

-------------------------------------------------------------------------------
NoAuction ==
    [artist |-> NoAddress, nonce |-> 0, profileId |-> 0, reservePrice |-> 0,
     startTime |-> 0, endTime |-> 0, extensionWindow |-> 0, minBidIncrementBps |-> 0,
     highestBid |-> 0, highestBidder |-> NoAddress, deliveryRecipient |-> NoAddress,
     settled |-> FALSE, cancelled |-> FALSE, pendingNoBidNftClaimant |-> NoAddress]

AuctionType ==
    [artist : Accounts \cup {NoAddress}, nonce : Nat, profileId : Nat, reservePrice : Nat,
     startTime : Nat, endTime : 0 .. MaxTimestamp, extensionWindow : Nat,
     minBidIncrementBps : Nat,
     highestBid : Nat, highestBidder : Accounts \cup {NoAddress},
     deliveryRecipient : Recipients \cup {NoAddress},
     settled : BOOLEAN, cancelled : BOOLEAN,
     pendingNoBidNftClaimant : Accounts \cup {NoAddress}]

\* The record _storeAuction writes for authorization a.
NewAuction(a) ==
    [artist |-> a.artist, nonce |-> a.nonce, profileId |-> a.profileId,
     reservePrice |-> a.reservePrice, startTime |-> a.startTime, endTime |-> a.endTime,
     extensionWindow |-> a.extensionWindow, minBidIncrementBps |-> a.minBidIncrementBps,
     highestBid |-> 0, highestBidder |-> NoAddress, deliveryRecipient |-> a.artist,
     settled |-> FALSE, cancelled |-> FALSE, pendingNoBidNftClaimant |-> NoAddress]

Exists(t) == auctions[t].artist # NoAddress

Open(t) == Exists(t) /\ ~auctions[t].settled

NoCall == [callee |-> "none", token |-> 0]
CallType == [callee : {"none", "wallet", "receiver"}, token : Tokens \cup {0}]
Unlocked == call = NoCall

Init ==
    /\ now = 0 /\ paused = FALSE /\ platformSigner \in Signers /\ signerEpoch = 1
    /\ authorizationUsed = [a \in Artists |-> {}]
    /\ auctions = [t \in Tokens |-> NoAuction]
    /\ refundCredit = [a \in Accounts |-> 0]
    /\ nativeProceeds = [p \in SplitWallets |-> 0]
    /\ totalBidEscrow = 0 /\ totalRefundOwed = 0 /\ totalNativeProceeds = 0
    /\ call = NoCall /\ balance = 0
    /\ walletBalance = [p \in SplitWallets |-> 0]
    /\ nftOwner = [t \in Tokens |-> NoAddress]
    /\ netPaid = [a \in Accounts |-> 0]

-------------------------------------------------------------------------------
(* Owner and artist administration.                                        *)

setPlatformSigner(signer) ==
    /\ Unlocked /\ signerEpoch < MaxEpoch
    /\ platformSigner' = signer /\ signerEpoch' = signerEpoch + 1
    /\ UNCHANGED <<now, paused, authorizationUsed, auctions, ledger, proceeds, custody>>

setPaused(p) ==
    /\ Unlocked
    /\ paused' = p
    /\ UNCHANGED <<now, platformSigner, signerEpoch, authorizationUsed, auctions, ledger,
                   proceeds, custody>>

cancelAuthorization(artist, nonce) ==
    /\ Unlocked
    /\ nonce \notin authorizationUsed[artist]
    /\ authorizationUsed' = [authorizationUsed EXCEPT ![artist] = @ \cup {nonce}]
    /\ UNCHANGED <<now, paused, platformSigner, signerEpoch, auctions, ledger, proceeds,
                   custody>>

-------------------------------------------------------------------------------
(* Creating an auction mints its token to the house.                       *)

\* Mutant: the nonce is not looked up.
ValidAuthorization_Replay(a) ==
    /\ a.signerEpoch = signerEpoch /\ now <= a.deadline
    /\ a.endTime > a.startTime /\ a.endTime > now /\ a.endTime <= now + MaxDuration

ValidAuthorization(a) ==
    /\ a.signerEpoch = signerEpoch
    /\ now <= a.deadline
    /\ a.endTime > a.startTime /\ a.endTime > now /\ a.endTime <= now + MaxDuration
    /\ a.extensionWindow <= MaxExtension
    /\ a.minBidIncrementBps \in 1 .. 10000
    /\ a.nonce \notin authorizationUsed[a.artist]

\* executeSingleStepMint returns the next token id of StreamCore, owned by the house.
FreshToken(t) == nftOwner[t] = NoAddress /\ \A u \in 1 .. (t - 1) : nftOwner[u] # NoAddress

createAuction(a, t) ==
    /\ Unlocked /\ ~paused
    /\ a.artist \in Artists
    /\ ValidAuthorization(a)
    /\ a.signer = platformSigner
    /\ a.profileId \in SplitWallets
    /\ FreshToken(t) /\ ~Exists(t)
    /\ authorizationUsed' = [authorizationUsed EXCEPT ![a.artist] = @ \cup {a.nonce}]
    /\ nftOwner' = [nftOwner EXCEPT ![t] = House]
    /\ auctions' = [auctions EXCEPT ![t] = NewAuction(a)]
    /\ UNCHANGED <<now, paused, platformSigner, signerEpoch, ledger, proceeds, call>>

-------------------------------------------------------------------------------
(* Bidding.                                                                *)

CeilDiv(x, d) == (x + d - 1) \div d

minimumBid(item) ==
    IF item.highestBid = 0
    THEN IF item.reservePrice = 0 THEN 1 ELSE item.reservePrice
    ELSE item.highestBid + CeilDiv(item.highestBid * item.minBidIncrementBps, 10000)

\* The end of the auction after a bid at this moment: a late bid reopens the window.
ExtendedEnd(item) ==
    IF item.endTime - now < item.extensionWindow THEN now + item.extensionWindow
                                                 ELSE item.endTime

AcceptsBids(t) ==
    ~paused /\ Open(t) /\ auctions[t].startTime <= now /\ now < auctions[t].endTime

\* Mutant: an earlier credit of the same bidder is overwritten.
CreditPrevious_Overwrite(item) ==
    IF item.highestBid = 0 THEN refundCredit
    ELSE [refundCredit EXCEPT ![item.highestBidder] = item.highestBid]

\* The bidder who is outbid is credited, never paid in the same transaction.
CreditPrevious(item) ==
    IF item.highestBid = 0 THEN refundCredit
    ELSE [refundCredit EXCEPT ![item.highestBidder] = @ + item.highestBid]

\* Mutant: the bid that was beaten stays in escrow.
EscrowAfterBid_KeepsOld(item, value) == totalBidEscrow + value

EscrowAfterBid(item, value) == totalBidEscrow - item.highestBid + value

BidPlaced(item, bidder, recipient, value) ==
    [item EXCEPT !.highestBid = value, !.highestBidder = bidder,
                 !.deliveryRecipient = recipient, !.endTime = ExtendedEnd(item)]

bid(t, bidder, recipient, value) ==
    LET item == auctions[t] IN
    /\ Unlocked /\ AcceptsBids(t)
    /\ value >= minimumBid(item)
    /\ ExtendedEnd(item) <= MaxTimestamp
    /\ item.highestBid <= totalBidEscrow
    /\ refundCredit' = CreditPrevious(item)
    /\ totalRefundOwed' = totalRefundOwed + item.highestBid
    /\ totalBidEscrow' = EscrowAfterBid(item, value)
    /\ auctions' = [auctions EXCEPT ![t] = BidPlaced(item, bidder, recipient, value)]
    /\ balance' = balance + value
    /\ netPaid' = [netPaid EXCEPT ![bidder] = @ + value]
    /\ UNCHANGED <<admin, proceeds, custody>>

\* Who decides where the token goes: the highest bidder, or the artist while unsold.
Claimant(item) ==
    IF item.highestBidder = NoAddress THEN item.artist ELSE item.highestBidder

Redirected(item, recipient) == [item EXCEPT !.deliveryRecipient = recipient]

setDeliveryRecipient(t, sender, recipient) ==
    /\ Unlocked /\ Open(t)
    /\ sender = Claimant(auctions[t])
    /\ auctions' = [auctions EXCEPT ![t] = Redirected(auctions[t], recipient)]
    /\ UNCHANGED <<admin, ledger, proceeds, custody>>

-------------------------------------------------------------------------------
(* Leaving the auction.  safeTransferFrom moves the token, then calls a    *)
(* receiver that has code.  The house's own receiver hook refuses tokens   *)
(* that are not being minted, and the house has no receive function, so    *)
(* nothing is ever delivered or paid to the house itself.                  *)

SafeTransfer(t, to) ==
    /\ nftOwner[t] = House /\ to # House
    /\ nftOwner' = [nftOwner EXCEPT ![t] = to]
    /\ call' = IF HasCode(to) THEN [callee |-> "receiver", token |-> t] ELSE NoCall

Ended(t) == now >= auctions[t].endTime

ClaimPending(item) == [item EXCEPT !.pendingNoBidNftClaimant = item.artist]

\* settle, for an unsold token whose recipient has code: the artist must claim it.
settlePending(t) ==
    /\ Unlocked /\ Open(t) /\ Ended(t)
    /\ auctions[t].highestBid = 0 /\ HasCode(auctions[t].deliveryRecipient)
    /\ auctions[t].pendingNoBidNftClaimant = NoAddress
    /\ auctions' = [auctions EXCEPT ![t] = ClaimPending(auctions[t])]
    /\ UNCHANGED <<admin, ledger, proceeds, custody>>

\* Mutant: the claim is cleared but the auction stays open.
Closed_StillOpen(item) == [item EXCEPT !.pendingNoBidNftClaimant = NoAddress]

Closed(item) == [item EXCEPT !.settled = TRUE, !.pendingNoBidNftClaimant = NoAddress]

\* settle, for an unsold token whose recipient has no code.
settleNoBid(t) ==
    /\ Unlocked /\ Open(t) /\ Ended(t)
    /\ auctions[t].highestBid = 0 /\ ~HasCode(auctions[t].deliveryRecipient)
    /\ auctions' = [auctions EXCEPT ![t] = Closed(auctions[t])]
    /\ SafeTransfer(t, auctions[t].deliveryRecipient)
    /\ UNCHANGED <<admin, ledger, proceeds>>

\* settle, for a sold token, up to the payment of the split wallet.
settleWithBid(t) ==
    LET item == auctions[t]
        amount == item.highestBid
    IN /\ Unlocked /\ Open(t) /\ Ended(t)
       /\ amount # 0 /\ amount <= totalBidEscrow /\ amount <= balance
       /\ item.deliveryRecipient # House
       /\ auctions' = [auctions EXCEPT ![t] = Closed(auctions[t])]
       /\ totalBidEscrow' = totalBidEscrow - amount
       /\ totalNativeProceeds' = totalNativeProceeds + amount
       /\ nativeProceeds' = [nativeProceeds EXCEPT ![item.profileId] = @ + amount]
       /\ balance' = balance - amount
       /\ walletBalance' = [walletBalance EXCEPT ![item.profileId] = @ + amount]
       /\ call' = [callee |-> "wallet", token |-> t]
       /\ UNCHANGED <<admin, refundCredit, totalRefundOwed, netPaid, nftOwner>>

\* The wallet has returned: settle goes on to deliver the token.
ReturnFromWallet ==
    /\ call.callee = "wallet"
    /\ SafeTransfer(call.token, auctions[call.token].deliveryRecipient)
    /\ UNCHANGED <<admin, auctions, ledger, proceeds>>

\* Mutant: the reentrancy guard is not released.
ReturnFromReceiver_StillLocked ==
    /\ call.callee = "receiver"
    /\ UNCHANGED vars

\* A token receiver or a refund recipient has returned: the transaction ends.
ReturnFromReceiver ==
    /\ call.callee = "receiver"
    /\ call' = NoCall
    /\ UNCHANGED <<admin, auctions, ledger, proceeds, nftOwner>>

claimNoBidNFT(t, sender, recipient) ==
    /\ Unlocked /\ Open(t)
    /\ auctions[t].pendingNoBidNftClaimant # NoAddress
    /\ sender = auctions[t].pendingNoBidNftClaimant
    /\ auctions' = [auctions EXCEPT ![t] = Redirected(Closed(auctions[t]), recipient)]
    /\ SafeTransfer(t, recipient)
    /\ UNCHANGED <<admin, ledger, proceeds>>

Cancellable(t) == Open(t) /\ auctions[t].highestBid = 0 /\ ~Ended(t)

Cancelled(item) == [item EXCEPT !.settled = TRUE, !.cancelled = TRUE]

cancel(t, sender) ==
    /\ Unlocked /\ Cancellable(t)
    /\ sender = auctions[t].artist
    /\ auctions' = [auctions EXCEPT ![t] = Cancelled(auctions[t])]
    /\ SafeTransfer(t, auctions[t].deliveryRecipient)
    /\ UNCHANGED <<admin, ledger, proceeds>>

CreditAfterWithdrawal(sender) == [refundCredit EXCEPT ![sender] = 0]

withdrawRefund(sender, recipient) ==
    LET amount == refundCredit[sender] IN
    /\ Unlocked
    /\ amount # 0 /\ amount <= totalRefundOwed /\ amount <= balance
    /\ recipient # House
    /\ refundCredit' = CreditAfterWithdrawal(sender)
    /\ totalRefundOwed' = totalRefundOwed - amount
    /\ balance' = balance - amount
    /\ netPaid' = [netPaid EXCEPT ![sender] = @ - amount]
    /\ call' = IF HasCode(recipient) THEN [callee |-> "receiver", token |-> 0] ELSE NoCall
    /\ UNCHANGED <<admin, auctions, totalBidEscrow, proceeds, nftOwner>>

totalOwed == totalBidEscrow + totalRefundOwed

-------------------------------------------------------------------------------
(* The environment: blocks, ether forced in by a self-destructing          *)
(* contract, and owners who push a delivered token back with transferFrom, *)
(* which calls no receiver hook.  The last two may happen inside a call.   *)

Tick ==
    /\ Unlocked /\ now < MaxTimestamp
    /\ now' = now + 1
    /\ UNCHANGED <<paused, platformSigner, signerEpoch, authorizationUsed, auctions, ledger,
                   proceeds, custody>>

ForceEther ==
    /\ balance - totalOwed < MaxSurplus
    /\ balance' = balance + 1
    /\ UNCHANGED <<admin, auctions, refundCredit, totalBidEscrow, totalRefundOwed, netPaid,
                   proceeds, custody>>

PushToken(t) ==
    /\ nftOwner[t] \in Accounts
    /\ nftOwner' = [nftOwner EXCEPT ![t] = House]
    /\ UNCHANGED <<admin, auctions, ledger, proceeds, call>>

Next ==
    \/ \E s \in Signers : setPlatformSigner(s)
    \/ \E p \in BOOLEAN : setPaused(p)
    \/ \E a \in Artists, n \in Nonces : cancelAuthorization(a, n)
    \/ \E a \in Authorizations, t \in Tokens : createAuction(a, t)
    \/ \E t \in Tokens, a \in Accounts, r \in Recipients, v \in 0 .. MaxValue : bid(t, a, r, v)
    \/ \E t \in Tokens, a \in Accounts, r \in Recipients : setDeliveryRecipient(t, a, r)
    \/ \E t \in Tokens : settlePending(t)
    \/ \E t \in Tokens : settleNoBid(t)
    \/ \E t \in Tokens : settleWithBid(t)
    \/ ReturnFromWallet
    \/ ReturnFromReceiver
    \/ \E t \in Tokens, a \in Accounts, r \in Recipients : claimNoBidNFT(t, a, r)
    \/ \E t \in Tokens, a \in Accounts : cancel(t, a)
    \/ \E a \in Accounts, r \in Recipients : withdrawRefund(a, r)
    \/ Tick
    \/ ForceEther
    \/ \E t \in Tokens : PushToken(t)

Spec == Init /\ [][Next]_vars

(* Fairness: blocks are produced, a transaction that has started ends, and *)
(* whoever is owed something keeps submitting the permissionless or        *)
(* self-service exit, towards an account without code (a receiver with     *)
(* code may always refuse, so nothing obliges a delivery to it).           *)
Plain == {r \in Accounts : ~HasCode(r)}

Fairness ==
    /\ WF_vars(Tick) /\ WF_vars(ReturnFromWallet) /\ WF_vars(ReturnFromReceiver)
    /\ \A t \in Tokens :
         /\ WF_vars(settlePending(t) \/ settleNoBid(t))
         /\ WF_vars(settleWithBid(t) /\ auctions[t].deliveryRecipient \in Plain)
         /\ WF_vars(\E a \in Accounts, r \in Plain : claimNoBidNFT(t, a, r))
    /\ \A a \in Accounts : WF_vars(\E r \in Plain : withdrawRefund(a, r))

FairSpec == Spec /\ Fairness

-------------------------------------------------------------------------------
(* Invariants.                                                             *)

TypeOK ==
    /\ now \in 0 .. MaxTimestamp /\ paused \in BOOLEAN
    /\ platformSigner \in Signers /\ signerEpoch \in Nat
    /\ authorizationUsed \in [Artists -> SUBSET Nonces]
    /\ auctions \in [Tokens -> AuctionType]
    /\ refundCredit \in [Accounts -> Nat] /\ netPaid \in [Accounts -> Int]
    /\ nativeProceeds \in [SplitWallets -> Nat] /\ walletBalance \in [SplitWallets -> Nat]
    /\ totalBidEscrow \in Nat /\ totalRefundOwed \in Nat /\ totalNativeProceeds \in Nat
    /\ balance \in Nat
    /\ call \in CallType
    /\ nftOwner \in [Tokens -> Recipients \cup {NoAddress}]

\* surplus() never underflows, not even when a callee reads it in the middle of a
\* settlement or a withdrawal: the ether held always covers what totalOwed reports.
Solvent == balance >= totalOwed

\* The checked subtractions of settle, bid and withdrawRefund never revert: each open bid is
\* within totalBidEscrow and each credit within totalRefundOwed.
ClaimsCovered ==
    /\ \A t \in Tokens : Open(t) => auctions[t].highestBid <= totalBidEscrow
    /\ \A a \in Accounts : refundCredit[a] <= totalRefundOwed

HighBids(S) == SumOver([t \in Tokens |-> auctions[t].highestBid], S)

\* The running totals are exactly the open high bids and the outstanding credits.
OwedMatchesClaims ==
    /\ totalBidEscrow = HighBids({t \in Tokens : Open(t)})
    /\ totalRefundOwed = SumOver(refundCredit, Accounts)

\* No bidder loses or gains a wei: what an account paid in and has not had back is its
\* refund credit plus the auctions in which it is (or won as) the highest bidder.
BidderConservation ==
    \A a \in Accounts :
        netPaid[a] = refundCredit[a] + HighBids({t \in Tokens : auctions[t].highestBidder = a})

\* Each sale is paid to its split wallet once and in full, and the books say so.
ProceedsPaidOnce ==
    /\ \A p \in SplitWallets :
         /\ walletBalance[p] = nativeProceeds[p]
         /\ nativeProceeds[p] =
              HighBids({t \in Tokens : auctions[t].settled /\ auctions[t].profileId = p})
    /\ totalNativeProceeds = SumOver(nativeProceeds, SplitWallets)

(* The house's books on one page: the running totals are the sum of what   *)
(* single bids and credits say, a bidder's money is in the house, with him *)
(* or in a sale, and a sale's proceeds leave once (bid, settle,            *)
(* withdrawRefund).                                                        *)
MoneyConserved == OwedMatchesClaims /\ BidderConservation /\ ProceedsPaidOnce

\* The house holds the token of every open auction, and still holds it while the split
\* wallet is being paid, so that the sale can complete.
Custody ==
    /\ \A t \in Tokens : Open(t) => nftOwner[t] = House
    /\ call.callee = "wallet" => nftOwner[call.token] = House

\* How an auction without a sale ends: a cancelled auction never took a bid, and a pending
\* claim is the artist's, on an auction that ended without a bid and is still open.
UnsoldOutcome ==
    \A t \in Tokens :
        LET item == auctions[t] IN
        /\ item.cancelled => item.settled /\ item.highestBid = 0
        /\ item.pendingNoBidNftClaimant # NoAddress =>
              /\ Open(t) /\ Ended(t) /\ item.highestBid = 0
              /\ item.pendingNoBidNftClaimant = item.artist

\* One signed authorization opens one auction: two auctions of an artist never share a
\* nonce, and the nonce of an auction stays used.
AuthorizationSingleUse ==
    \A t \in Tokens : Exists(t) =>
        /\ auctions[t].nonce \in authorizationUsed[auctions[t].artist]
        /\ \A u \in Tokens \ {t} :
             Exists(u) => <<auctions[u].artist, auctions[u].nonce>>
                            # <<auctions[t].artist, auctions[t].nonce>>

(* Action properties.                                                      *)

(* Liveness.                                                               *)

\* An outbid bidder gets the credit out, whether or not auctions are paused.
RefundsArePaid == \A a \in Accounts : refundCredit[a] > 0 ~> refundCredit[a] = 0

\* An auction that has ended settles unless its recipient is a contract: then the highest
\* bidder decides when the artist is paid.
SettlementCompletes ==
    \A t \in Tokens :
        Open(t) /\ Ended(t) ~> ~Open(t) \/ auctions[t].deliveryRecipient \notin Plain

=============================================================================
