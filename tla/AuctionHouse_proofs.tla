-------------------------- MODULE AuctionHouse_proofs --------------------------
(***************************************************************************)
(* Proofs about AuctionHouse for every number of accounts and tokens,      *)
(* every set of authorizations and every bound.                            *)
(***************************************************************************)
EXTENDS AuctionHouse, FiniteSums_proofs, TLAPS

USE DEF admin, ledger, proceeds, custody

\* Storing an auction for signed terms, and closing one, keep the record well typed.
LEMMA NewAuctionType ==
    ASSUME NEW a \in Authorizations
    PROVE  NewAuction(a) \in AuctionType
BY AuthorizationAssumption, BoundAssumption
   DEF NewAuction, AuctionType, AuthorizationType, Recipients, NoAddress

\* The fields of a stored auction that the house computes with are numbers of the right width.
LEMMA AuctionsTyped ==
    ASSUME TypeOK, NEW t \in Tokens
    PROVE  /\ auctions[t] \in AuctionType
           /\ auctions[t].highestBid \in Nat
           /\ auctions[t].endTime \in 0 .. MaxTimestamp
           /\ auctions[t].extensionWindow \in Nat
BY DEF TypeOK, AuctionType

\* What settle, cancel, setDeliveryRecipient, claimNoBidNFT and bid store is an auction.
LEMMA ClosingType ==
    ASSUME NEW item \in AuctionType
    PROVE  /\ ClaimPending(item) \in AuctionType
           /\ Closed(item) \in AuctionType
           /\ Cancelled(item) \in AuctionType
<1>1. ClaimPending(item) \in AuctionType
  BY DEF AuctionType, ClaimPending
<1>2. Closed(item) \in AuctionType
  BY DEF AuctionType, Closed, NoAddress
<1>3. Cancelled(item) \in AuctionType
  BY DEF AuctionType, Cancelled
<1>4. QED
  BY <1>1, <1>2, <1>3

\* setDeliveryRecipient writes only the recipient of a sold auction.
LEMMA RedirectedType ==
    ASSUME NEW item \in AuctionType, NEW r \in Recipients
    PROVE  Redirected(item, r) \in AuctionType
BY DEF AuctionType, Redirected

\* bid stores an auction as long as the extended end time still fits uint64.
LEMMA BidPlacedType ==
    ASSUME NEW item \in AuctionType, NEW w \in Accounts, NEW r \in Recipients, NEW v \in Nat,
           ExtendedEnd(item) \in 0 .. MaxTimestamp
    PROVE  BidPlaced(item, w, r, v) \in AuctionType
BY DEF AuctionType, BidPlaced

\* Adding to one entry of a table of amounts keeps it a table of amounts.
LEMMA AddedType ==
    ASSUME NEW S, NEW f \in [S -> Nat], NEW x, NEW n \in Nat
    PROVE  [f EXCEPT ![x] = @ + n] \in [S -> Nat]
<1>1. CASE x \in S
  BY <1>1
<1>2. CASE x \notin S
  BY <1>2
<1>3. QED
  BY <1>1, <1>2

\* The types of the state variables: no total, credit or balance goes below zero and no end
\* time leaves uint64, along every execution of the house.
THEOREM TypeCorrect == Spec => []TypeOK
<1>1. Init => TypeOK
  <2>1. NoAuction \in AuctionType
    BY BoundAssumption DEF NoAuction, AuctionType, NoAddress
  <2>2. QED
    <3>1. Init => auctions \in [Tokens -> AuctionType]
      BY <2>1 DEF Init
    <3>2. Init => call \in CallType
      BY DEF Init, CallType, NoCall
    <3>3. QED
      <4>1. Init => /\ refundCredit \in [Accounts -> Nat] /\ netPaid \in [Accounts -> Int]
                    /\ nativeProceeds \in [SplitWallets -> Nat]
                    /\ walletBalance \in [SplitWallets -> Nat]
                    /\ nftOwner \in [Tokens -> Recipients \cup {NoAddress}]
                    /\ authorizationUsed \in [Artists -> SUBSET Nonces]
        BY DEF Init
      <4>2. Init => /\ now \in 0 .. MaxTimestamp /\ signerEpoch \in Nat
                    /\ totalBidEscrow \in Nat /\ totalRefundOwed \in Nat
                    /\ totalNativeProceeds \in Nat /\ balance \in Nat
        BY BoundAssumption DEF Init
      <4>3. Init => paused \in BOOLEAN /\ platformSigner \in Signers
        BY DEF Init
      <4>4. QED
        BY <3>1, <3>2, <4>1, <4>2, <4>3 DEF TypeOK
<1>2. TypeOK /\ [Next]_vars => TypeOK'
  <2> SUFFICES ASSUME TypeOK, [Next]_vars PROVE TypeOK'
    OBVIOUS
  <2> USE BoundAssumption
  <2>1. CASE \E s \in Signers : setPlatformSigner(s)
    BY <2>1 DEF setPlatformSigner, TypeOK
  <2>2. CASE \E p \in BOOLEAN : setPaused(p)
    BY <2>2 DEF setPaused, TypeOK
  <2>3. CASE \E a \in Artists, n \in Nonces : cancelAuthorization(a, n)
    BY <2>3 DEF cancelAuthorization, TypeOK
  <2>4. CASE \E a \in Authorizations, t \in Tokens : createAuction(a, t)
    <3> PICK a \in Authorizations, t \in Tokens : createAuction(a, t)
      BY <2>4
    <3>1. auctions' \in [Tokens -> AuctionType]
      BY NewAuctionType DEF createAuction, TypeOK
    <3>2. authorizationUsed' \in [Artists -> SUBSET Nonces]
      BY DEF createAuction, TypeOK, Nonces
    <3>3. nftOwner' \in [Tokens -> Recipients \cup {NoAddress}]
      BY DEF createAuction, TypeOK, Recipients
    <3>4. QED
      BY <3>1, <3>2, <3>3 DEF createAuction, TypeOK
  <2>5. CASE \E t \in Tokens, a \in Accounts, r \in Recipients, v \in 0 .. MaxValue :
               bid(t, a, r, v)
    <3> PICK t \in Tokens, a \in Accounts, r \in Recipients, v \in 0 .. MaxValue :
               bid(t, a, r, v)
      BY <2>5
    <3>1. ExtendedEnd(auctions[t]) \in 0 .. MaxTimestamp
      BY AuctionsTyped DEF bid, ExtendedEnd, TypeOK
    <3>2. auctions' \in [Tokens -> AuctionType]
      <4>1. BidPlaced(auctions[t], a, r, v) \in AuctionType
        BY <3>1, BidPlacedType, AuctionsTyped
      <4>2. QED
        BY <4>1 DEF bid, TypeOK
    <3>3. refundCredit' \in [Accounts -> Nat] /\ netPaid' \in [Accounts -> Int]
      <4>1. refundCredit' \in [Accounts -> Nat]
        <5>1. \A x : [refundCredit EXCEPT ![x] = @ + auctions[t].highestBid] \in [Accounts -> Nat]
          BY AuctionsTyped, AddedType DEF TypeOK
        <5>2. QED
          BY <5>1 DEF bid, TypeOK, CreditPrevious
      <4>2. netPaid' \in [Accounts -> Int]
        BY DEF bid, TypeOK
      <4>3. QED
        BY <4>1, <4>2
    <3>4. /\ totalBidEscrow' \in Nat /\ totalRefundOwed' \in Nat /\ balance' \in Nat
      BY AuctionsTyped DEF bid, TypeOK, EscrowAfterBid
    <3>5. QED
      BY <3>2, <3>3, <3>4 DEF bid, TypeOK
  <2>6. CASE \E t \in Tokens, a \in Accounts, r \in Recipients : setDeliveryRecipient(t, a, r)
    <3> PICK t \in Tokens, a \in Accounts, r \in Recipients : setDeliveryRecipient(t, a, r)
      BY <2>6
    <3>1. Redirected(auctions[t], r) \in AuctionType
      BY RedirectedType, AuctionsTyped
    <3>2. auctions' \in [Tokens -> AuctionType]
      BY <3>1 DEF setDeliveryRecipient, TypeOK
    <3>3. QED
      BY <3>2 DEF setDeliveryRecipient, TypeOK
  <2>7. CASE \E t \in Tokens : settlePending(t)
    <3> PICK t \in Tokens : settlePending(t)
      BY <2>7
    <3>1. ClaimPending(auctions[t]) \in AuctionType
      BY ClosingType, AuctionsTyped
    <3>2. auctions' \in [Tokens -> AuctionType]
      BY <3>1 DEF settlePending, TypeOK
    <3>3. QED
      BY <3>2 DEF settlePending, TypeOK
  <2>8. CASE \E t \in Tokens : settleNoBid(t)
    <3> PICK t \in Tokens : settleNoBid(t)
      BY <2>8
    <3>0. Closed(auctions[t]) \in AuctionType
      BY ClosingType, AuctionsTyped
    <3>1. auctions' \in [Tokens -> AuctionType]
      BY <3>0 DEF settleNoBid, TypeOK
    <3>2. QED
      BY <3>1, AuctionsTyped DEF settleNoBid, TypeOK, SafeTransfer, CallType, NoCall, AuctionType
  <2>9. CASE \E t \in Tokens : settleWithBid(t)
    <3> PICK t \in Tokens : settleWithBid(t)
      BY <2>9
    <3>0. Closed(auctions[t]) \in AuctionType
      BY ClosingType, AuctionsTyped
    <3>1. auctions' \in [Tokens -> AuctionType]
      BY <3>0 DEF settleWithBid, TypeOK
    <3>2. /\ nativeProceeds' \in [SplitWallets -> Nat] /\ walletBalance' \in [SplitWallets -> Nat]
          /\ totalNativeProceeds' \in Nat /\ totalBidEscrow' \in Nat /\ balance' \in Nat
      <4>1. \A x : /\ [nativeProceeds EXCEPT ![x] = @ + auctions[t].highestBid]
                         \in [SplitWallets -> Nat]
                    /\ [walletBalance EXCEPT ![x] = @ + auctions[t].highestBid]
                         \in [SplitWallets -> Nat]
        BY AuctionsTyped, AddedType DEF TypeOK
      <4>2. QED
        BY <4>1, AuctionsTyped DEF settleWithBid, TypeOK
    <3>3. QED
      BY <3>1, <3>2 DEF settleWithBid, TypeOK, CallType
  <2>10. CASE ReturnFromWallet
    <3>1. nftOwner' \in [Tokens -> Recipients \cup {NoAddress}] /\ call' \in CallType
      <4>1. call.token \in Tokens \/ call.token = 0
        BY DEF TypeOK, CallType
      <4>2. CASE call.token \in Tokens
        <5>1. auctions[call.token].deliveryRecipient \in Recipients \cup {NoAddress}
          BY <4>2, AuctionsTyped DEF AuctionType
        <5>2. nftOwner' = [nftOwner EXCEPT
                             ![call.token] = auctions[call.token].deliveryRecipient]
          BY <2>10 DEF ReturnFromWallet, SafeTransfer
        <5>3. nftOwner' \in [Tokens -> Recipients \cup {NoAddress}]
          BY <5>1, <5>2, <4>2 DEF TypeOK
        <5>4. call' \in CallType
          BY <2>10, <4>2 DEF ReturnFromWallet, SafeTransfer, CallType, NoCall
        <5>5. QED
          BY <5>3, <5>4
      <4>3. CASE call.token = 0
        <5>1. 0 \notin Tokens
          BY DEF Tokens
        <5>2. nftOwner' = [nftOwner EXCEPT
                             ![call.token] = auctions[call.token].deliveryRecipient]
          BY <2>10 DEF ReturnFromWallet, SafeTransfer
        <5>3. nftOwner' \in [Tokens -> Recipients \cup {NoAddress}]
          BY <5>1, <5>2, <4>3 DEF TypeOK
        <5>4. call' \in CallType
          BY <2>10, <4>3 DEF ReturnFromWallet, SafeTransfer, CallType, NoCall
        <5>5. QED
          BY <5>3, <5>4
      <4>4. QED
        BY <4>1, <4>2, <4>3
    <3>2. QED
      BY <2>10, <3>1 DEF ReturnFromWallet, TypeOK
  <2>11. CASE ReturnFromReceiver
    BY <2>11 DEF ReturnFromReceiver, TypeOK, CallType, NoCall
  <2>12. CASE \E t \in Tokens, a \in Accounts, r \in Recipients : claimNoBidNFT(t, a, r)
    <3> PICK t \in Tokens, a \in Accounts, r \in Recipients : claimNoBidNFT(t, a, r)
      BY <2>12
    <3>1. auctions' \in [Tokens -> AuctionType]
      <4>1. Closed(auctions[t]) \in AuctionType
        BY ClosingType, AuctionsTyped
      <4>2. Redirected(Closed(auctions[t]), r) \in AuctionType
        BY <4>1, RedirectedType
      <4>3. QED
        BY <4>2 DEF claimNoBidNFT, TypeOK
    <3>2. QED
      BY <3>1 DEF claimNoBidNFT, TypeOK, SafeTransfer, CallType, NoCall
  <2>13. CASE \E t \in Tokens, a \in Accounts : cancel(t, a)
    <3> PICK t \in Tokens, a \in Accounts : cancel(t, a)
      BY <2>13
    <3>0. Cancelled(auctions[t]) \in AuctionType
      BY ClosingType, AuctionsTyped
    <3>1. auctions' \in [Tokens -> AuctionType]
      BY <3>0 DEF cancel, TypeOK
    <3>2. QED
      BY <3>1, AuctionsTyped DEF cancel, TypeOK, SafeTransfer, CallType, NoCall, AuctionType
  <2>14. CASE \E a \in Accounts, r \in Recipients : withdrawRefund(a, r)
    BY <2>14 DEF withdrawRefund, CreditAfterWithdrawal, TypeOK, CallType, NoCall
  <2>15. CASE Tick
    BY <2>15 DEF Tick, TypeOK
  <2>16. CASE ForceEther
    BY <2>16 DEF ForceEther, TypeOK
  <2>17. CASE \E t \in Tokens : PushToken(t)
    BY <2>17 DEF PushToken, TypeOK, Recipients
  <2>18. CASE UNCHANGED vars
    BY <2>18 DEF vars, TypeOK
  <2>19. QED
    BY <2>1, <2>2, <2>3, <2>4, <2>5, <2>6, <2>7, <2>8, <2>9, <2>10, <2>11, <2>12, <2>13,
       <2>14, <2>15, <2>16, <2>17, <2>18 DEF Next
<1>3. QED
  BY <1>1, <1>2, PTL DEF Spec


-------------------------------------------------------------------------------
\* The ether held covers escrow and refunds in every state, the ones a callee sees in the
\* middle of settle or withdrawRefund included: surplus() never reverts.
THEOREM AlwaysSolvent == Spec => []Solvent
<1>1. Init => Solvent
  BY DEF Init, Solvent, totalOwed
<1>2. TypeOK /\ Solvent /\ [Next]_vars => Solvent'
  <2> SUFFICES ASSUME TypeOK, Solvent, [Next]_vars PROVE Solvent'
    OBVIOUS
  <2> USE DEF Solvent, totalOwed
  <2>1. CASE \E s \in Signers : setPlatformSigner(s)
    BY <2>1 DEF setPlatformSigner
  <2>2. CASE \E p \in BOOLEAN : setPaused(p)
    BY <2>2 DEF setPaused
  <2>3. CASE \E a \in Artists, n \in Nonces : cancelAuthorization(a, n)
    BY <2>3 DEF cancelAuthorization
  <2>4. CASE \E a \in Authorizations, t \in Tokens : createAuction(a, t)
    BY <2>4 DEF createAuction
  <2>5. CASE \E t \in Tokens, a \in Accounts, r \in Recipients, v \in 0 .. MaxValue :
               bid(t, a, r, v)
    BY <2>5, AuctionsTyped, BoundAssumption DEF bid, EscrowAfterBid, TypeOK
  <2>6. CASE \E t \in Tokens, a \in Accounts, r \in Recipients : setDeliveryRecipient(t, a, r)
    BY <2>6 DEF setDeliveryRecipient
  <2>7. CASE \E t \in Tokens : settlePending(t)
    BY <2>7 DEF settlePending
  <2>8. CASE \E t \in Tokens : settleNoBid(t)
    BY <2>8 DEF settleNoBid
  <2>9. CASE \E t \in Tokens : settleWithBid(t)
    BY <2>9, AuctionsTyped DEF settleWithBid, TypeOK
  <2>10. CASE ReturnFromWallet
    BY <2>10 DEF ReturnFromWallet
  <2>11. CASE ReturnFromReceiver
    BY <2>11 DEF ReturnFromReceiver
  <2>12. CASE \E t \in Tokens, a \in Accounts, r \in Recipients : claimNoBidNFT(t, a, r)
    BY <2>12 DEF claimNoBidNFT
  <2>13. CASE \E t \in Tokens, a \in Accounts : cancel(t, a)
    BY <2>13 DEF cancel
  <2>14. CASE \E a \in Accounts, r \in Recipients : withdrawRefund(a, r)
    BY <2>14 DEF withdrawRefund, TypeOK
  <2>15. CASE Tick
    BY <2>15 DEF Tick
  <2>16. CASE ForceEther
    BY <2>16 DEF ForceEther, TypeOK
  <2>17. CASE \E t \in Tokens : PushToken(t)
    BY <2>17 DEF PushToken
  <2>18. CASE UNCHANGED vars
    BY <2>18 DEF vars
  <2>19. QED
    BY <2>1, <2>2, <2>3, <2>4, <2>5, <2>6, <2>7, <2>8, <2>9, <2>10, <2>11, <2>12, <2>13,
       <2>14, <2>15, <2>16, <2>17, <2>18 DEF Next
<1>3. QED
  BY <1>1, <1>2, TypeCorrect, PTL DEF Spec

-------------------------------------------------------------------------------
\* Custody is not inductive by itself: while the split wallet is being paid, the auction of
\* the token about to be delivered must already be closed.
CustodyInv ==
    /\ Custody
    /\ call.callee = "wallet" => call.token \in Tokens /\ auctions[call.token].settled

\* How the stored records differ from the ones they replace, field by field.
LEMMA StoredFields ==
    ASSUME NEW item \in AuctionType
    PROVE  /\ ClaimPending(item).artist = item.artist
           /\ ClaimPending(item).settled = item.settled
           /\ Closed(item).artist = item.artist
           /\ Closed(item).settled
           /\ Cancelled(item).artist = item.artist
           /\ Cancelled(item).settled
           /\ \A r : /\ Redirected(item, r).artist = item.artist
                     /\ Redirected(item, r).settled = item.settled
           /\ \A w, r, v : /\ BidPlaced(item, w, r, v).artist = item.artist
                           /\ BidPlaced(item, w, r, v).settled = item.settled
BY DEF AuctionType, ClaimPending, Closed, Cancelled, Redirected, BidPlaced

\* The house holds the token of every open auction until it is delivered, whoever transfers
\* tokens or settles, cancels and claims other auctions meanwhile.
THEOREM TokensInCustody == Spec => []Custody
<1>1. Init => CustodyInv
  BY DEF Init, CustodyInv, Custody, Open, Exists, NoAuction, NoCall
<1>2. TypeOK /\ CustodyInv /\ [Next]_vars => CustodyInv'
  <2> SUFFICES ASSUME TypeOK, CustodyInv, [Next]_vars PROVE CustodyInv'
    OBVIOUS
  <2> USE DEF CustodyInv, Custody, Open, Exists
  <2>1. CASE \E s \in Signers : setPlatformSigner(s)
    BY <2>1 DEF setPlatformSigner
  <2>2. CASE \E p \in BOOLEAN : setPaused(p)
    BY <2>2 DEF setPaused
  <2>3. CASE \E a \in Artists, n \in Nonces : cancelAuthorization(a, n)
    BY <2>3 DEF cancelAuthorization
  <2>4. CASE \E a \in Authorizations, t \in Tokens : createAuction(a, t)
    BY <2>4 DEF createAuction, Unlocked, NoCall, TypeOK
  <2>5. CASE \E t \in Tokens, a \in Accounts, r \in Recipients, v \in 0 .. MaxValue :
               bid(t, a, r, v)
    BY <2>5, StoredFields, AuctionsTyped DEF bid, Unlocked, NoCall, TypeOK, AcceptsBids
  <2>6. CASE \E t \in Tokens, a \in Accounts, r \in Recipients : setDeliveryRecipient(t, a, r)
    BY <2>6, StoredFields, AuctionsTyped DEF setDeliveryRecipient, Unlocked, NoCall, TypeOK
  <2>7. CASE \E t \in Tokens : settlePending(t)
    BY <2>7, StoredFields, AuctionsTyped DEF settlePending, Unlocked, NoCall, TypeOK
  <2>8. CASE \E t \in Tokens : settleNoBid(t)
    BY <2>8, StoredFields, AuctionsTyped
       DEF settleNoBid, SafeTransfer, HasCode, Unlocked, NoCall, TypeOK
  <2>9. CASE \E t \in Tokens : settleWithBid(t)
    BY <2>9, StoredFields, AuctionsTyped DEF settleWithBid, Unlocked, NoCall, TypeOK
  <2>10. CASE ReturnFromWallet
    BY <2>10 DEF ReturnFromWallet, SafeTransfer, NoCall, TypeOK
  <2>11. CASE ReturnFromReceiver
    BY <2>11 DEF ReturnFromReceiver, NoCall
  <2>12. CASE \E t \in Tokens, a \in Accounts, r \in Recipients : claimNoBidNFT(t, a, r)
    <3> PICK t \in Tokens, a \in Accounts, r \in Recipients : claimNoBidNFT(t, a, r)
      BY <2>12
    <3>1. Closed(auctions[t]) \in AuctionType
      BY ClosingType, AuctionsTyped
    <3>2. Redirected(Closed(auctions[t]), r).settled
      BY <3>1, StoredFields, AuctionsTyped
    <3>3. QED
      BY <3>2 DEF claimNoBidNFT, SafeTransfer, Unlocked, NoCall, TypeOK
  <2>13. CASE \E t \in Tokens, a \in Accounts : cancel(t, a)
    BY <2>13, StoredFields, AuctionsTyped
       DEF cancel, SafeTransfer, Unlocked, NoCall, TypeOK
  <2>14. CASE \E a \in Accounts, r \in Recipients : withdrawRefund(a, r)
    BY <2>14 DEF withdrawRefund, NoCall
  <2>15. CASE Tick
    BY <2>15 DEF Tick
  <2>16. CASE ForceEther
    BY <2>16 DEF ForceEther
  <2>17. CASE \E t \in Tokens : PushToken(t)
    BY <2>17 DEF PushToken, TypeOK
  <2>18. CASE UNCHANGED vars
    BY <2>18 DEF vars
  <2>19. QED
    BY <2>1, <2>2, <2>3, <2>4, <2>5, <2>6, <2>7, <2>8, <2>9, <2>10, <2>11, <2>12, <2>13,
       <2>14, <2>15, <2>16, <2>17, <2>18 DEF Next
<1>3. CustodyInv => Custody
  BY DEF CustodyInv
<1>4. QED
  BY <1>1, <1>2, <1>3, TypeCorrect, PTL DEF Spec

-------------------------------------------------------------------------------
\* The fields that the outcome of an auction and the totals depend on.
LEMMA OutcomeFields ==
    ASSUME NEW item \in AuctionType
    PROVE  /\ ClaimPending(item).highestBid = item.highestBid
           /\ ClaimPending(item).highestBidder = item.highestBidder
           /\ ClaimPending(item).cancelled = item.cancelled
           /\ ClaimPending(item).endTime = item.endTime
           /\ ClaimPending(item).pendingNoBidNftClaimant = item.artist
           /\ Closed(item).highestBid = item.highestBid
           /\ Closed(item).highestBidder = item.highestBidder
           /\ Closed(item).cancelled = item.cancelled
           /\ Closed(item).pendingNoBidNftClaimant = NoAddress
           /\ Cancelled(item).highestBid = item.highestBid
           /\ Cancelled(item).highestBidder = item.highestBidder
           /\ Cancelled(item).pendingNoBidNftClaimant = item.pendingNoBidNftClaimant
           /\ \A r : /\ Redirected(item, r).highestBid = item.highestBid
                     /\ Redirected(item, r).highestBidder = item.highestBidder
                     /\ Redirected(item, r).cancelled = item.cancelled
                     /\ Redirected(item, r).endTime = item.endTime
                     /\ Redirected(item, r).pendingNoBidNftClaimant
                          = item.pendingNoBidNftClaimant
           /\ \A w, r, v : /\ BidPlaced(item, w, r, v).highestBid = v
                           /\ BidPlaced(item, w, r, v).highestBidder = w
                           /\ BidPlaced(item, w, r, v).cancelled = item.cancelled
                           /\ BidPlaced(item, w, r, v).pendingNoBidNftClaimant
                                = item.pendingNoBidNftClaimant
BY DEF AuctionType, ClaimPending, Closed, Cancelled, Redirected, BidPlaced

\* No step changes the wallet an auction pays, and only createAuction names it.
LEMMA WalletKept ==
    ASSUME NEW item \in AuctionType
    PROVE  /\ ClaimPending(item).profileId = item.profileId
           /\ Closed(item).profileId = item.profileId
           /\ Cancelled(item).profileId = item.profileId
           /\ \A r : Redirected(item, r).profileId = item.profileId
           /\ \A w, r, v : BidPlaced(item, w, r, v).profileId = item.profileId
BY DEF AuctionType, ClaimPending, Closed, Cancelled, Redirected, BidPlaced

\* A bid is never lost to a cancellation and an unsold token is only ever claimed by its
\* artist: bid and cancel exclude each other, and a claim opens only once no bid can come.
THEOREM UnsoldOutcomes == Spec => []UnsoldOutcome
<1>1. Init => UnsoldOutcome
  BY DEF Init, UnsoldOutcome, NoAuction
<1>2. TypeOK /\ UnsoldOutcome /\ [Next]_vars => UnsoldOutcome'
  <2> SUFFICES ASSUME TypeOK, UnsoldOutcome, [Next]_vars PROVE UnsoldOutcome'
    OBVIOUS
  <2> USE DEF UnsoldOutcome, Open, Exists, Ended
  <2>1. CASE \E s \in Signers : setPlatformSigner(s)
    BY <2>1 DEF setPlatformSigner
  <2>2. CASE \E p \in BOOLEAN : setPaused(p)
    BY <2>2 DEF setPaused
  <2>3. CASE \E a \in Artists, n \in Nonces : cancelAuthorization(a, n)
    BY <2>3 DEF cancelAuthorization
  <2>4. CASE \E a \in Authorizations, t \in Tokens : createAuction(a, t)
    BY <2>4 DEF createAuction, TypeOK, NewAuction
  <2>5. CASE \E t \in Tokens, a \in Accounts, r \in Recipients, v \in 0 .. MaxValue :
               bid(t, a, r, v)
    <3> PICK t \in Tokens, a \in Accounts, r \in Recipients, v \in 0 .. MaxValue :
               bid(t, a, r, v)
      BY <2>5
    <3>1. ~auctions[t].cancelled /\ auctions[t].pendingNoBidNftClaimant = NoAddress
      BY AuctionsTyped DEF bid, AcceptsBids, TypeOK
    <3>2. auctions' = [auctions EXCEPT ![t] = BidPlaced(auctions[t], a, r, v)] /\ now' = now
      BY DEF bid
    <3>3. QED
      BY <3>1, <3>2, OutcomeFields, AuctionsTyped DEF TypeOK
  <2>6. CASE \E t \in Tokens, a \in Accounts, r \in Recipients : setDeliveryRecipient(t, a, r)
    BY <2>6, StoredFields, OutcomeFields, AuctionsTyped DEF setDeliveryRecipient, TypeOK
  <2>7. CASE \E t \in Tokens : settlePending(t)
    BY <2>7, StoredFields, OutcomeFields, AuctionsTyped DEF settlePending, TypeOK
  <2>8. CASE \E t \in Tokens : settleNoBid(t)
    BY <2>8, StoredFields, OutcomeFields, AuctionsTyped DEF settleNoBid, TypeOK
  <2>9. CASE \E t \in Tokens : settleWithBid(t)
    BY <2>9, StoredFields, OutcomeFields, AuctionsTyped DEF settleWithBid, TypeOK
  <2>10. CASE ReturnFromWallet
    BY <2>10 DEF ReturnFromWallet
  <2>11. CASE ReturnFromReceiver
    BY <2>11 DEF ReturnFromReceiver
  <2>12. CASE \E t \in Tokens, a \in Accounts, r \in Recipients : claimNoBidNFT(t, a, r)
    <3> PICK t \in Tokens, a \in Accounts, r \in Recipients : claimNoBidNFT(t, a, r)
      BY <2>12
    <3> DEFINE closed == Closed(auctions[t])
    <3>1. closed \in AuctionType
      BY ClosingType, AuctionsTyped
    <3>2. /\ Redirected(closed, r).settled
          /\ Redirected(closed, r).highestBid = auctions[t].highestBid
          /\ Redirected(closed, r).cancelled = auctions[t].cancelled
          /\ Redirected(closed, r).pendingNoBidNftClaimant = NoAddress
      BY <3>1, StoredFields, OutcomeFields, AuctionsTyped
    <3>3. auctions' = [auctions EXCEPT ![t] = Redirected(closed, r)] /\ now' = now
      BY DEF claimNoBidNFT
    <3> HIDE DEF closed
    <3>4. QED
      BY <3>2, <3>3 DEF TypeOK
  <2>13. CASE \E t \in Tokens, a \in Accounts : cancel(t, a)
    <3> PICK t \in Tokens, a \in Accounts : cancel(t, a)
      BY <2>13
    <3>1. auctions[t].pendingNoBidNftClaimant = NoAddress /\ auctions[t].highestBid = 0
      BY DEF cancel, Cancellable
    <3>2. auctions' = [auctions EXCEPT ![t] = Cancelled(auctions[t])] /\ now' = now
      BY DEF cancel
    <3>3. QED
      BY <3>1, <3>2, StoredFields, OutcomeFields, AuctionsTyped DEF TypeOK
  <2>14. CASE \E a \in Accounts, r \in Recipients : withdrawRefund(a, r)
    BY <2>14 DEF withdrawRefund
  <2>15. CASE Tick
    BY <2>15, AuctionsTyped DEF Tick, TypeOK
  <2>16. CASE ForceEther
    BY <2>16 DEF ForceEther
  <2>17. CASE \E t \in Tokens : PushToken(t)
    BY <2>17 DEF PushToken
  <2>18. CASE UNCHANGED vars
    BY <2>18 DEF vars
  <2>19. QED
    BY <2>1, <2>2, <2>3, <2>4, <2>5, <2>6, <2>7, <2>8, <2>9, <2>10, <2>11, <2>12, <2>13,
       <2>14, <2>15, <2>16, <2>17, <2>18 DEF Next
<1>3. QED
  BY <1>1, <1>2, TypeCorrect, PTL DEF Spec

-------------------------------------------------------------------------------
(* The books.  Every sum in MoneyConserved ranges over a set of auctions   *)
(* that changes from step to step; here the same sums range over all       *)
(* tokens, with a zero where an auction does not count, so that a step     *)
(* changes one entry.                                                      *)

OpenBids == [t \in Tokens |-> IF Open(t) THEN auctions[t].highestBid ELSE 0]

BidsOf(a) ==
    [t \in Tokens |-> IF auctions[t].highestBidder = a THEN auctions[t].highestBid ELSE 0]

SalesTo(p) ==
    [t \in Tokens |-> IF auctions[t].settled /\ auctions[t].profileId = p
                      THEN auctions[t].highestBid ELSE 0]

\* A recorded bid names its bidder, so that the refund of a beaten bid is credited to
\* somebody; a listed auction names a deployed wallet; an unlisted token has no record.
RecordsInv ==
    \A t \in Tokens :
        /\ auctions[t].highestBid # 0 => auctions[t].highestBidder \in Accounts
        /\ Exists(t) => auctions[t].profileId \in SplitWallets
        /\ ~Exists(t) => auctions[t] = NoAuction

MoneyInv ==
    /\ RecordsInv
    /\ totalBidEscrow = SumOver(OpenBids, Tokens)
    /\ totalRefundOwed = SumOver(refundCredit, Accounts)
    /\ \A a \in Accounts : netPaid[a] = refundCredit[a] + SumOver(BidsOf(a), Tokens)
    /\ \A p \in SplitWallets : /\ walletBalance[p] = nativeProceeds[p]
                               /\ nativeProceeds[p] = SumOver(SalesTo(p), Tokens)
    /\ totalNativeProceeds = SumOver(nativeProceeds, SplitWallets)

\* Accounts, tokens and wallets can be counted, so their amounts can be summed.
LEMMA FiniteKeys == IsFiniteSet(Tokens) /\ IsFiniteSet(Accounts) /\ IsFiniteSet(SplitWallets)
BY FS_Interval, CountAssumption, WalletAssumption DEF Tokens, Accounts

\* Each of the three tables holds an amount per token.
LEMMA TablesTyped ==
    ASSUME TypeOK
    PROVE  /\ \A t \in Tokens : OpenBids[t] \in Nat
           /\ \A a : \A t \in Tokens : BidsOf(a)[t] \in Nat
           /\ \A p : \A t \in Tokens : SalesTo(p)[t] \in Nat
BY AuctionsTyped DEF OpenBids, BidsOf, SalesTo

\* Summing over the tables is summing over the auctions that count.
LEMMA MoneyInvImplies ==
    ASSUME TypeOK, MoneyInv
    PROVE  MoneyConserved
<1> DEFINE bids == [t \in Tokens |-> auctions[t].highestBid]
<1>0. \A t \in Tokens : bids[t] \in Int
  BY AuctionsTyped
<1>1. HighBids({t \in Tokens : Open(t)}) = SumOver(OpenBids, Tokens)
  <2> DEFINE R == {t \in Tokens : Open(t)}
  <2>1. /\ R \subseteq Tokens
        /\ \A t \in R : bids[t] = OpenBids[t] /\ OpenBids[t] \in Int
        /\ \A t \in Tokens \ R : OpenBids[t] = 0
    BY <1>0 DEF OpenBids
  <2> HIDE DEF R, bids
  <2>2. SumOver(bids, R) = SumOver(OpenBids, Tokens)
    BY <2>1, FiniteKeys, SumMask
  <2>3. QED
    BY <2>2 DEF HighBids, R, bids
<1>2. ASSUME NEW a \in Accounts
      PROVE  HighBids({t \in Tokens : auctions[t].highestBidder = a})
               = SumOver(BidsOf(a), Tokens)
  <2> DEFINE R == {t \in Tokens : auctions[t].highestBidder = a}
             table == BidsOf(a)
  <2>1. /\ R \subseteq Tokens
        /\ \A t \in R : bids[t] = table[t] /\ table[t] \in Int
        /\ \A t \in Tokens \ R : table[t] = 0
    BY <1>0 DEF BidsOf
  <2> HIDE DEF R, bids, table
  <2>2. SumOver(bids, R) = SumOver(table, Tokens)
    BY <2>1, FiniteKeys, SumMask
  <2>3. QED
    BY <2>2 DEF HighBids, R, bids, table
<1>3. ASSUME NEW p \in SplitWallets
      PROVE  HighBids({t \in Tokens : auctions[t].settled /\ auctions[t].profileId = p})
               = SumOver(SalesTo(p), Tokens)
  <2> DEFINE R == {t \in Tokens : auctions[t].settled /\ auctions[t].profileId = p}
             table == SalesTo(p)
  <2>1. /\ R \subseteq Tokens
        /\ \A t \in R : bids[t] = table[t] /\ table[t] \in Int
        /\ \A t \in Tokens \ R : table[t] = 0
    BY <1>0 DEF SalesTo
  <2> HIDE DEF R, bids, table
  <2>2. SumOver(bids, R) = SumOver(table, Tokens)
    BY <2>1, FiniteKeys, SumMask
  <2>3. QED
    BY <2>2 DEF HighBids, R, bids, table
<1>4. QED
  BY <1>1, <1>2, <1>3
     DEF MoneyInv, MoneyConserved, OwedMatchesClaims, BidderConservation, ProceedsPaidOnce

\* A step that leaves the auctions and the money alone leaves the books exact.
LEMMA MoneyStutter ==
    ASSUME MoneyInv, UNCHANGED <<auctions, refundCredit, totalBidEscrow, totalRefundOwed,
                                 netPaid, proceeds>>
    PROVE  MoneyInv'
BY DEF MoneyInv, RecordsInv, OpenBids, BidsOf, SalesTo, Open, Exists

\* A step that stores an auction without moving its bid leaves the three tables alone: the
\* record keeps what the tables read, or neither version of it has a bid.
LEMMA TablesStutter ==
    ASSUME TypeOK, NEW t \in Tokens, NEW item, auctions' = [auctions EXCEPT ![t] = item],
           \/ auctions[t].highestBid = 0 /\ item.highestBid = 0
           \/ /\ item.highestBid = auctions[t].highestBid
              /\ item.highestBidder = auctions[t].highestBidder
              /\ item.profileId = auctions[t].profileId
              /\ item.settled = auctions[t].settled
              /\ item.artist = auctions[t].artist
    PROVE  /\ OpenBids' = OpenBids
           /\ \A a : BidsOf(a)' = BidsOf(a)
           /\ \A p : SalesTo(p)' = SalesTo(p)
<1>0. /\ auctions'[t] = item
      /\ \A u \in Tokens : u # t => auctions'[u] = auctions[u]
  BY DEF TypeOK
<1>1. OpenBids' = OpenBids
  <2>1. \A u \in Tokens : (IF Open(u)' THEN auctions'[u].highestBid ELSE 0) =
                           (IF Open(u) THEN auctions[u].highestBid ELSE 0)
    BY <1>0 DEF Open, Exists
  <2>2. QED
    BY <2>1 DEF OpenBids
<1>2. ASSUME NEW a PROVE BidsOf(a)' = BidsOf(a)
  <2>1. \A u \in Tokens :
          (IF auctions'[u].highestBidder = a THEN auctions'[u].highestBid ELSE 0) =
          (IF auctions[u].highestBidder = a THEN auctions[u].highestBid ELSE 0)
    BY <1>0
  <2>2. QED
    BY <2>1 DEF BidsOf
<1>3. ASSUME NEW p PROVE SalesTo(p)' = SalesTo(p)
  <2>1. \A u \in Tokens :
          (IF auctions'[u].settled /\ auctions'[u].profileId = p
           THEN auctions'[u].highestBid ELSE 0) =
          (IF auctions[u].settled /\ auctions[u].profileId = p
           THEN auctions[u].highestBid ELSE 0)
    BY <1>0
  <2>2. QED
    BY <2>1 DEF SalesTo
<1>4. QED
  BY <1>1, <1>2, <1>3

\* A step that stores an auction and moves no money leaves the books exact.
LEMMA RecordStep ==
    ASSUME TypeOK, MoneyInv, NEW t \in Tokens, NEW item,
           auctions' = [auctions EXCEPT ![t] = item],
           UNCHANGED <<refundCredit, totalBidEscrow, totalRefundOwed, netPaid, proceeds>>,
           \/ auctions[t].highestBid = 0 /\ item.highestBid = 0
           \/ /\ item.highestBid = auctions[t].highestBid
              /\ item.settled = auctions[t].settled
              /\ item.artist = auctions[t].artist
              /\ item.highestBidder = auctions[t].highestBidder
              /\ item.profileId = auctions[t].profileId,
           item.artist # NoAddress, item.profileId \in SplitWallets
    PROVE  MoneyInv'
<1>1. /\ OpenBids' = OpenBids
      /\ \A a : BidsOf(a)' = BidsOf(a)
      /\ \A p : SalesTo(p)' = SalesTo(p)
  BY TablesStutter
<1>2. RecordsInv'
  BY DEF TypeOK, MoneyInv, RecordsInv, Exists
<1>3. QED
  BY <1>1, <1>2 DEF MoneyInv

\* bid moves the beaten bid from escrow to the beaten bidder's credit and takes in the new one.
LEMMA BidStep ==
    ASSUME TypeOK, MoneyInv, NEW t \in Tokens, NEW a \in Accounts, NEW r \in Recipients,
           NEW v \in 0 .. MaxValue, bid(t, a, r, v)
    PROVE  MoneyInv'
<1> DEFINE item == auctions[t]
           new == BidPlaced(item, a, r, v)
           h == item.highestBid
           b == item.highestBidder
<1>1. /\ auctions' = [auctions EXCEPT ![t] = new]
      /\ totalBidEscrow' = totalBidEscrow - h + v
      /\ totalRefundOwed' = totalRefundOwed + h
      /\ refundCredit' = CreditPrevious(item)
      /\ netPaid' = [netPaid EXCEPT ![a] = @ + v]
      /\ UNCHANGED proceeds
      /\ item \in AuctionType /\ h \in Nat /\ v \in Nat
      /\ Exists(t) /\ ~item.settled
  BY AuctionsTyped, BoundAssumption DEF bid, EscrowAfterBid, AcceptsBids, Open
<1>2. /\ new.highestBid = v
      /\ new.highestBidder = a
      /\ new.artist = item.artist
      /\ new.settled = item.settled
      /\ new.profileId = item.profileId
  BY <1>1, StoredFields, OutcomeFields, WalletKept
<1>3. /\ auctions'[t] = new
      /\ \A u \in Tokens : u # t => auctions'[u] = auctions[u]
  BY <1>1 DEF TypeOK
<1>4. RecordsInv'
  BY <1>1, <1>2, <1>3 DEF MoneyInv, RecordsInv, Exists
<1>5. h # 0 => b \in Accounts
  BY DEF MoneyInv, RecordsInv
<1>6. /\ \A u \in Tokens : OpenBids[u] \in Nat /\ OpenBids'[u] \in Nat
      /\ \A c \in Accounts, u \in Tokens : BidsOf(c)[u] \in Nat /\ BidsOf(c)'[u] \in Nat
  BY <1>1, <1>2, <1>3, TablesTyped DEF OpenBids, BidsOf, Open, Exists, TypeOK, AuctionType
<1>7. totalBidEscrow' = SumOver(OpenBids', Tokens)
  <2>1. OpenBids[t] = h /\ OpenBids'[t] = v
    BY <1>1, <1>2, <1>3 DEF OpenBids, Open, Exists
  <2>2. \A u \in Tokens \ {t} : OpenBids'[u] = OpenBids[u]
    BY <1>3 DEF OpenBids, Open, Exists
  <2>3. SumOver(OpenBids', Tokens) = SumOver(OpenBids, Tokens) - h + v
    BY <1>6, <2>1, <2>2, FiniteKeys, SumUpdate
  <2>4. QED
    BY <1>1, <2>3 DEF MoneyInv
<1>8. /\ \A c \in Accounts : refundCredit'[c]
                               = refundCredit[c] + (IF h # 0 /\ c = b THEN h ELSE 0)
      /\ \A c \in Accounts : netPaid'[c] = netPaid[c] + (IF c = a THEN v ELSE 0)
      /\ \A c \in Accounts : refundCredit[c] \in Nat /\ netPaid[c] \in Int
  BY <1>1, <1>5 DEF CreditPrevious, TypeOK
<1>9. totalRefundOwed' = SumOver(refundCredit', Accounts)
  <2>1. CASE h = 0
    <3>1. totalRefundOwed' = totalRefundOwed /\ refundCredit' = refundCredit
      BY <1>1, <2>1 DEF CreditPrevious, TypeOK
    <3>2. QED
      BY <3>1 DEF MoneyInv
  <2>2. CASE h # 0
    <3>1. \A c \in Accounts : refundCredit[c] \in Int /\ refundCredit'[c] \in Int
      BY <1>1, <1>8
    <3>2. \A c \in Accounts \ {b} : refundCredit'[c] = refundCredit[c]
      BY <1>8
    <3>3. /\ b \in Accounts /\ refundCredit'[b] = refundCredit[b] + h
          /\ refundCredit[b] \in Int
      BY <1>5, <1>8, <2>2
    <3> HIDE DEF b, h
    <3>4. SumOver(refundCredit', Accounts)
            = SumOver(refundCredit, Accounts) - refundCredit[b] + refundCredit'[b]
      BY <3>1, <3>2, <3>3, FiniteKeys, SumUpdate
    <3>5. totalRefundOwed = SumOver(refundCredit, Accounts) /\ totalRefundOwed \in Int
      BY DEF MoneyInv, TypeOK
    <3>6. QED
      BY <1>1, <3>3, <3>4, <3>5
  <2>3. QED
    BY <2>1, <2>2
<1>10. ASSUME NEW c \in Accounts
       PROVE  netPaid'[c] = refundCredit'[c] + SumOver(BidsOf(c)', Tokens)
  <2> DEFINE old == BidsOf(c)
             upd == BidsOf(c)'
  <2>1. /\ old[t] = IF h # 0 /\ c = b THEN h ELSE 0
        /\ upd[t] = IF c = a THEN v ELSE 0
    BY <1>1, <1>2, <1>3 DEF BidsOf
  <2>2. \A u \in Tokens \ {t} : upd[u] = old[u]
    BY <1>3 DEF BidsOf
  <2>3. \A u \in Tokens : old[u] \in Int /\ upd[u] \in Int
    BY <1>6
  <2>4. netPaid[c] = refundCredit[c] + SumOver(old, Tokens)
    BY DEF MoneyInv
  <2> HIDE DEF old, upd, h, b
  <2>5. SumOver(upd, Tokens) = SumOver(old, Tokens) - old[t] + upd[t]
    BY <2>2, <2>3, FiniteKeys, SumUpdate
  <2>6. SumOver(old, Tokens) \in Int /\ old[t] \in Int /\ upd[t] \in Int
    BY <2>3, FiniteKeys, SumType
  <2>7. netPaid'[c] = netPaid[c] + upd[t] /\ refundCredit'[c] = refundCredit[c] + old[t]
    BY <1>8, <2>1
  <2>8. netPaid'[c] = refundCredit'[c] + SumOver(upd, Tokens)
    <3>1. refundCredit[c] \in Int /\ netPaid[c] \in Int
      BY <1>8
    <3>2. \A m, k, x, y, z, w \in Int :
            m = k + x /\ w = x - y + z => m + z = (k + y) + w
      OBVIOUS
    <3>3. SumOver(upd, Tokens) \in Int
      BY <2>5, <2>6
    <3>4. QED
      BY <2>4, <2>5, <2>6, <2>7, <3>1, <3>2, <3>3
  <2>9. QED
    BY <2>8 DEF upd
<1>11. \A p : SalesTo(p)' = SalesTo(p)
  <2> TAKE p
  <2>1. \A u \in Tokens :
          (IF auctions'[u].settled /\ auctions'[u].profileId = p
           THEN auctions'[u].highestBid ELSE 0) =
          (IF auctions[u].settled /\ auctions[u].profileId = p
           THEN auctions[u].highestBid ELSE 0)
    BY <1>1, <1>2, <1>3
  <2>2. QED
    BY <2>1 DEF SalesTo
<1>12. QED
  BY <1>1, <1>4, <1>7, <1>9, <1>10, <1>11 DEF MoneyInv

\* settle moves the winning bid from escrow to the proceeds of the auction's split wallet.
LEMMA SaleStep ==
    ASSUME TypeOK, MoneyInv, NEW t \in Tokens, settleWithBid(t)
    PROVE  MoneyInv'
<1> DEFINE item == auctions[t]
           new == Closed(item)
           h == item.highestBid
           q == item.profileId
<1>1. /\ auctions' = [auctions EXCEPT ![t] = new]
      /\ totalBidEscrow' = totalBidEscrow - h
      /\ totalNativeProceeds' = totalNativeProceeds + h
      /\ nativeProceeds' = [nativeProceeds EXCEPT ![q] = @ + h]
      /\ walletBalance' = [walletBalance EXCEPT ![q] = @ + h]
      /\ UNCHANGED <<refundCredit, totalRefundOwed, netPaid>>
      /\ item \in AuctionType /\ h \in Nat
      /\ Exists(t) /\ ~item.settled
  BY AuctionsTyped DEF settleWithBid, Open
<1>2. /\ new.highestBid = h
      /\ new.highestBidder = item.highestBidder
      /\ new.artist = item.artist
      /\ new.settled
      /\ new.profileId = q
  BY <1>1, StoredFields, OutcomeFields, WalletKept
<1>3. /\ auctions'[t] = new
      /\ \A u \in Tokens : u # t => auctions'[u] = auctions[u]
  BY <1>1 DEF TypeOK
<1>4. RecordsInv' /\ q \in SplitWallets
  BY <1>1, <1>2, <1>3 DEF MoneyInv, RecordsInv, Exists
<1>5. /\ \A u \in Tokens : OpenBids[u] \in Nat /\ OpenBids'[u] \in Nat
      /\ \A p \in SplitWallets, u \in Tokens : SalesTo(p)[u] \in Nat /\ SalesTo(p)'[u] \in Nat
  BY <1>1, <1>2, <1>3, TablesTyped DEF OpenBids, SalesTo, Open, Exists, TypeOK, AuctionType
<1>6. totalBidEscrow' = SumOver(OpenBids', Tokens)
  <2>1. OpenBids[t] = h /\ OpenBids'[t] = 0
    BY <1>1, <1>2, <1>3 DEF OpenBids, Open, Exists
  <2>2. \A u \in Tokens \ {t} : OpenBids'[u] = OpenBids[u]
    BY <1>3 DEF OpenBids, Open, Exists
  <2>3. SumOver(OpenBids', Tokens) = SumOver(OpenBids, Tokens) - h + 0
    BY <1>5, <2>1, <2>2, FiniteKeys, SumUpdate
  <2>4. totalBidEscrow = SumOver(OpenBids, Tokens) /\ totalBidEscrow \in Int
    BY DEF MoneyInv, TypeOK
  <2> HIDE DEF h
  <2>5. QED
    BY <1>1, <2>3, <2>4
<1>7. \A a : BidsOf(a)' = BidsOf(a)
  <2> TAKE a
  <2>1. \A u \in Tokens :
          (IF auctions'[u].highestBidder = a THEN auctions'[u].highestBid ELSE 0) =
          (IF auctions[u].highestBidder = a THEN auctions[u].highestBid ELSE 0)
    BY <1>2, <1>3
  <2>2. QED
    BY <2>1 DEF BidsOf
<1>8. \A p \in SplitWallets : /\ nativeProceeds'[p]
                                   = nativeProceeds[p] + (IF p = q THEN h ELSE 0)
                              /\ walletBalance'[p]
                                   = walletBalance[p] + (IF p = q THEN h ELSE 0)
                              /\ nativeProceeds[p] \in Nat /\ walletBalance[p] \in Nat
  BY <1>1 DEF TypeOK
<1>9. ASSUME NEW p \in SplitWallets
      PROVE  /\ walletBalance'[p] = nativeProceeds'[p]
             /\ nativeProceeds'[p] = SumOver(SalesTo(p)', Tokens)
  <2> DEFINE old == SalesTo(p)
             upd == SalesTo(p)'
  <2>1. old[t] = 0 /\ upd[t] = IF p = q THEN h ELSE 0
    BY <1>1, <1>2, <1>3 DEF SalesTo
  <2>2. \A u \in Tokens \ {t} : upd[u] = old[u]
    BY <1>3 DEF SalesTo
  <2>3. \A u \in Tokens : old[u] \in Int /\ upd[u] \in Int
    BY <1>5
  <2>4. nativeProceeds[p] = SumOver(old, Tokens) /\ walletBalance[p] = nativeProceeds[p]
    BY DEF MoneyInv
  <2> HIDE DEF old, upd, h, q
  <2>5. SumOver(upd, Tokens) = SumOver(old, Tokens) - old[t] + upd[t]
    BY <2>2, <2>3, FiniteKeys, SumUpdate
  <2>6. SumOver(upd, Tokens) = nativeProceeds[p] + upd[t]
    BY <1>8, <2>1, <2>3, <2>4, <2>5
  <2>7. QED
    BY <1>8, <2>1, <2>4, <2>6 DEF upd
<1>10. totalNativeProceeds' = SumOver(nativeProceeds', SplitWallets)
  <2>1. \A p \in SplitWallets : nativeProceeds[p] \in Int /\ nativeProceeds'[p] \in Int
    BY <1>1, <1>8
  <2>2. \A p \in SplitWallets \ {q} : nativeProceeds'[p] = nativeProceeds[p]
    BY <1>8
  <2>3. /\ nativeProceeds'[q] = nativeProceeds[q] + h /\ nativeProceeds[q] \in Int
        /\ q \in SplitWallets /\ h \in Int
    BY <1>1, <1>4, <1>8
  <2> HIDE DEF q, h
  <2>4. SumOver(nativeProceeds', SplitWallets)
          = SumOver(nativeProceeds, SplitWallets) - nativeProceeds[q] + nativeProceeds'[q]
    BY <2>1, <2>2, <2>3, FiniteKeys, SumUpdate
  <2>5. /\ totalNativeProceeds = SumOver(nativeProceeds, SplitWallets)
        /\ totalNativeProceeds \in Int
    BY DEF MoneyInv, TypeOK
  <2>6. QED
    BY <1>1, <2>3, <2>4, <2>5
<1>11. QED
  BY <1>1, <1>4, <1>6, <1>7, <1>9, <1>10 DEF MoneyInv

\* withdrawRefund pays the whole credit of one account.
LEMMA WithdrawalStep ==
    ASSUME TypeOK, MoneyInv, NEW a \in Accounts, NEW r \in Recipients, withdrawRefund(a, r)
    PROVE  MoneyInv'
<1>1. /\ refundCredit' = [refundCredit EXCEPT ![a] = 0]
      /\ totalRefundOwed' = totalRefundOwed - refundCredit[a]
      /\ netPaid' = [netPaid EXCEPT ![a] = @ - refundCredit[a]]
      /\ UNCHANGED <<auctions, totalBidEscrow, proceeds>>
  BY DEF withdrawRefund, CreditAfterWithdrawal
<1>2. /\ OpenBids' = OpenBids
      /\ \A c : BidsOf(c)' = BidsOf(c)
      /\ \A p : SalesTo(p)' = SalesTo(p)
  BY <1>1 DEF OpenBids, BidsOf, SalesTo, Open, Exists
<1>3. \A c \in Accounts : /\ refundCredit[c] \in Nat /\ refundCredit'[c] \in Nat
                          /\ netPaid[c] \in Int
                          /\ refundCredit'[c] = IF c = a THEN 0 ELSE refundCredit[c]
                          /\ netPaid'[c] = netPaid[c] - (refundCredit[c] - refundCredit'[c])
  BY <1>1 DEF TypeOK
<1>4. totalRefundOwed' = SumOver(refundCredit', Accounts)
  <2>1. SumOver(refundCredit', Accounts)
          = SumOver(refundCredit, Accounts) - refundCredit[a] + refundCredit'[a]
    BY <1>3, FiniteKeys, SumUpdate
  <2>2. totalRefundOwed = SumOver(refundCredit, Accounts) /\ totalRefundOwed \in Int
    BY DEF MoneyInv, TypeOK
  <2>3. QED
    BY <1>1, <1>3, <2>1, <2>2
<1>5. ASSUME NEW c \in Accounts
      PROVE  netPaid'[c] = refundCredit'[c] + SumOver(BidsOf(c), Tokens)
  <2>1. SumOver(BidsOf(c), Tokens) \in Int
    <3> DEFINE table == BidsOf(c)
    <3>1. \A t \in Tokens : table[t] \in Int
      BY TablesTyped
    <3> HIDE DEF table
    <3>2. SumOver(table, Tokens) \in Int
      BY <3>1, FiniteKeys, SumType
    <3>3. QED
      BY <3>2 DEF table
  <2>2. netPaid[c] = refundCredit[c] + SumOver(BidsOf(c), Tokens)
    BY DEF MoneyInv
  <2>3. QED
    BY <1>3, <2>1, <2>2
<1>6. RecordsInv'
  BY <1>1 DEF MoneyInv, RecordsInv, Exists
<1>7. QED
  BY <1>1, <1>2, <1>4, <1>5, <1>6 DEF MoneyInv

\* The house's books are exact in every state, the ones a callee sees in the middle of settle
\* or withdrawRefund included: the totals are the sums of the open bids, the credits and the
\* sales, no bidder loses or gains a wei, and each sale is paid out once and in full.
THEOREM MoneyIsConserved == Spec => []MoneyConserved
<1>1. TypeOK /\ Init => MoneyInv
  <2> SUFFICES ASSUME TypeOK, Init PROVE MoneyInv
    OBVIOUS
  <2>1. \A t \in Tokens : auctions[t] = NoAuction /\ ~Exists(t)
    BY DEF Init, Exists, NoAuction
  <2>2. RecordsInv
    <3>1. NoAuction.highestBid = 0
      BY DEF NoAuction
    <3>2. QED
      BY <2>1, <3>1 DEF RecordsInv
  <2>3. SumOver(OpenBids, Tokens) = 0
    <3>1. \A t \in Tokens : OpenBids[t] = 0
      BY <2>1 DEF OpenBids, NoAuction
    <3>2. QED
      BY <3>1, FiniteKeys, SumZero
  <2>4. SumOver(refundCredit, Accounts) = 0 /\ SumOver(nativeProceeds, SplitWallets) = 0
    <3>1. /\ \A a \in Accounts : refundCredit[a] = 0
          /\ \A p \in SplitWallets : nativeProceeds[p] = 0
      BY DEF Init
    <3>2. QED
      BY <3>1, FiniteKeys, SumZero
  <2>5. ASSUME NEW a \in Accounts PROVE SumOver(BidsOf(a), Tokens) = 0
    <3> DEFINE table == BidsOf(a)
    <3>1. \A t \in Tokens : table[t] = 0
      BY <2>1 DEF BidsOf, NoAuction
    <3> HIDE DEF table
    <3>2. SumOver(table, Tokens) = 0
      BY <3>1, FiniteKeys, SumZero
    <3>3. QED
      BY <3>2 DEF table
  <2>6. ASSUME NEW p \in SplitWallets PROVE SumOver(SalesTo(p), Tokens) = 0
    <3> DEFINE table == SalesTo(p)
    <3>1. \A t \in Tokens : table[t] = 0
      BY <2>1 DEF SalesTo, NoAuction
    <3> HIDE DEF table
    <3>2. SumOver(table, Tokens) = 0
      BY <3>1, FiniteKeys, SumZero
    <3>3. QED
      BY <3>2 DEF table
  <2>7. QED
    BY <2>2, <2>3, <2>4, <2>5, <2>6 DEF MoneyInv, Init
<1>2. TypeOK /\ UnsoldOutcome /\ MoneyInv /\ [Next]_vars => MoneyInv'
  <2> SUFFICES ASSUME TypeOK, UnsoldOutcome, MoneyInv, [Next]_vars PROVE MoneyInv'
    OBVIOUS
  <2>0. \A t \in Tokens : /\ auctions[t] \in AuctionType
                          /\ Exists(t) => /\ auctions[t].artist # NoAddress
                                          /\ auctions[t].profileId \in SplitWallets
    BY AuctionsTyped DEF MoneyInv, RecordsInv, Exists
  <2>1. CASE \E s \in Signers : setPlatformSigner(s)
    BY <2>1, MoneyStutter DEF setPlatformSigner
  <2>2. CASE \E p \in BOOLEAN : setPaused(p)
    BY <2>2, MoneyStutter DEF setPaused
  <2>3. CASE \E a \in Artists, n \in Nonces : cancelAuthorization(a, n)
    BY <2>3, MoneyStutter DEF cancelAuthorization
  <2>4. CASE \E a \in Authorizations, t \in Tokens : createAuction(a, t)
    <3> PICK a \in Authorizations, t \in Tokens : createAuction(a, t)
      BY <2>4
    <3>1. /\ auctions' = [auctions EXCEPT ![t] = NewAuction(a)]
          /\ UNCHANGED <<refundCredit, totalBidEscrow, totalRefundOwed, netPaid, proceeds>>
          /\ ~Exists(t) /\ a.profileId \in SplitWallets /\ a.artist \in Accounts
      BY AccountAssumption DEF createAuction
    <3>2. /\ NewAuction(a).highestBid = 0
          /\ NewAuction(a).artist = a.artist
          /\ NewAuction(a).profileId = a.profileId
      BY DEF NewAuction
    <3>3. a.artist # NoAddress
      BY <3>1, CountAssumption DEF Accounts, NoAddress
    <3>4. auctions[t].highestBid = 0
      BY <3>1 DEF MoneyInv, RecordsInv, NoAuction
    <3>5. QED
      BY <3>1, <3>2, <3>3, <3>4, RecordStep
  <2>5. CASE \E t \in Tokens, a \in Accounts, r \in Recipients, v \in 0 .. MaxValue :
               bid(t, a, r, v)
    BY <2>5, BidStep
  <2>6. CASE \E t \in Tokens, a \in Accounts, r \in Recipients : setDeliveryRecipient(t, a, r)
    <3> PICK t \in Tokens, a \in Accounts, r \in Recipients : setDeliveryRecipient(t, a, r)
      BY <2>6
    <3>1. /\ auctions' = [auctions EXCEPT ![t] = Redirected(auctions[t], r)]
          /\ UNCHANGED <<refundCredit, totalBidEscrow, totalRefundOwed, netPaid, proceeds>>
          /\ Exists(t)
      BY DEF setDeliveryRecipient, Open
    <3> DEFINE item == Redirected(auctions[t], r)
    <3>2. /\ auctions' = [auctions EXCEPT ![t] = item]
          /\ item.highestBid = auctions[t].highestBid
          /\ item.highestBidder = auctions[t].highestBidder
          /\ item.settled = auctions[t].settled
          /\ item.artist = auctions[t].artist
          /\ item.profileId = auctions[t].profileId
      BY <2>0, <3>1, StoredFields, OutcomeFields, WalletKept
    <3> HIDE DEF item
    <3>3. QED
      BY <2>0, <3>1, <3>2, RecordStep
  <2>7. CASE \E t \in Tokens : settlePending(t)
    <3> PICK t \in Tokens : settlePending(t)
      BY <2>7
    <3>1. /\ auctions' = [auctions EXCEPT ![t] = ClaimPending(auctions[t])]
          /\ auctions[t].highestBid = 0 /\ Exists(t)
          /\ UNCHANGED <<refundCredit, totalBidEscrow, totalRefundOwed, netPaid, proceeds>>
      BY DEF settlePending, Open
    <3> DEFINE item == ClaimPending(auctions[t])
    <3>2. /\ auctions' = [auctions EXCEPT ![t] = item]
          /\ item.highestBid = 0
          /\ item.artist = auctions[t].artist
          /\ item.profileId = auctions[t].profileId
      BY <2>0, <3>1, StoredFields, OutcomeFields, WalletKept
    <3> HIDE DEF item
    <3>3. QED
      BY <2>0, <3>1, <3>2, RecordStep
  <2>8. CASE \E t \in Tokens : settleNoBid(t)
    <3> PICK t \in Tokens : settleNoBid(t)
      BY <2>8
    <3>1. /\ auctions' = [auctions EXCEPT ![t] = Closed(auctions[t])]
          /\ auctions[t].highestBid = 0 /\ Exists(t)
          /\ UNCHANGED <<refundCredit, totalBidEscrow, totalRefundOwed, netPaid, proceeds>>
      BY DEF settleNoBid, Open
    <3> DEFINE item == Closed(auctions[t])
    <3>2. /\ auctions' = [auctions EXCEPT ![t] = item]
          /\ item.highestBid = 0
          /\ item.artist = auctions[t].artist
          /\ item.profileId = auctions[t].profileId
      BY <2>0, <3>1, StoredFields, OutcomeFields, WalletKept
    <3> HIDE DEF item
    <3>3. QED
      BY <2>0, <3>1, <3>2, RecordStep
  <2>9. CASE \E t \in Tokens : settleWithBid(t)
    BY <2>9, SaleStep
  <2>10. CASE ReturnFromWallet
    BY <2>10, MoneyStutter DEF ReturnFromWallet
  <2>11. CASE ReturnFromReceiver
    BY <2>11, MoneyStutter DEF ReturnFromReceiver
  <2>12. CASE \E t \in Tokens, a \in Accounts, r \in Recipients : claimNoBidNFT(t, a, r)
    <3> PICK t \in Tokens, a \in Accounts, r \in Recipients : claimNoBidNFT(t, a, r)
      BY <2>12
    <3> DEFINE closed == Closed(auctions[t])
    <3>1. /\ auctions' = [auctions EXCEPT ![t] = Redirected(closed, r)]
          /\ Exists(t)
          /\ UNCHANGED <<refundCredit, totalBidEscrow, totalRefundOwed, netPaid, proceeds>>
      BY DEF claimNoBidNFT, Open
    <3>2. auctions[t].highestBid = 0
      BY DEF claimNoBidNFT, UnsoldOutcome
    <3>3. closed \in AuctionType
      BY <2>0, ClosingType
    <3>4. /\ Redirected(closed, r).highestBid = 0
          /\ Redirected(closed, r).artist = auctions[t].artist
          /\ Redirected(closed, r).profileId = auctions[t].profileId
      BY <2>0, <3>2, <3>3, StoredFields, OutcomeFields, WalletKept
    <3> HIDE DEF closed
    <3>5. QED
      BY <2>0, <3>1, <3>2, <3>4, RecordStep
  <2>13. CASE \E t \in Tokens, a \in Accounts : cancel(t, a)
    <3> PICK t \in Tokens, a \in Accounts : cancel(t, a)
      BY <2>13
    <3>1. /\ auctions' = [auctions EXCEPT ![t] = Cancelled(auctions[t])]
          /\ auctions[t].highestBid = 0 /\ Exists(t)
          /\ UNCHANGED <<refundCredit, totalBidEscrow, totalRefundOwed, netPaid, proceeds>>
      BY DEF cancel, Cancellable, Open
    <3> DEFINE item == Cancelled(auctions[t])
    <3>2. /\ auctions' = [auctions EXCEPT ![t] = item]
          /\ item.highestBid = 0
          /\ item.artist = auctions[t].artist
          /\ item.profileId = auctions[t].profileId
      BY <2>0, <3>1, StoredFields, OutcomeFields, WalletKept
    <3> HIDE DEF item
    <3>3. QED
      BY <2>0, <3>1, <3>2, RecordStep
  <2>14. CASE \E a \in Accounts, r \in Recipients : withdrawRefund(a, r)
    BY <2>14, WithdrawalStep
  <2>15. CASE Tick
    BY <2>15, MoneyStutter DEF Tick
  <2>16. CASE ForceEther
    BY <2>16, MoneyStutter DEF ForceEther
  <2>17. CASE \E t \in Tokens : PushToken(t)
    BY <2>17, MoneyStutter DEF PushToken
  <2>18. CASE UNCHANGED vars
    BY <2>18, MoneyStutter DEF vars
  <2>19. QED
    BY <2>1, <2>2, <2>3, <2>4, <2>5, <2>6, <2>7, <2>8, <2>9, <2>10, <2>11, <2>12, <2>13,
       <2>14, <2>15, <2>16, <2>17, <2>18 DEF Next
<1>3. TypeOK /\ MoneyInv => MoneyConserved
  BY MoneyInvImplies
<1>4. QED
  BY <1>1, <1>2, <1>3, TypeCorrect, UnsoldOutcomes, PTL DEF Spec

\* The exact totals cover every single claim: the checked subtractions in bid, settle and
\* withdrawRefund cannot revert and strand a bidder.
THEOREM ClaimsAlwaysCovered == Spec => []ClaimsCovered
<1>1. TypeOK /\ MoneyConserved => ClaimsCovered
  <2> SUFFICES ASSUME TypeOK, MoneyConserved PROVE ClaimsCovered
    OBVIOUS
  <2>1. \A a \in Accounts : refundCredit[a] <= totalRefundOwed
    <3>1. \A a \in Accounts : refundCredit[a] \in Nat
      BY DEF TypeOK
    <3>2. QED
      BY <3>1, FiniteKeys, SumNat DEF MoneyConserved, OwedMatchesClaims
  <2>2. ASSUME NEW t \in Tokens, Open(t)
        PROVE  auctions[t].highestBid <= totalBidEscrow
    <3> DEFINE R == {u \in Tokens : Open(u)}
               bids == [u \in Tokens |-> auctions[u].highestBid]
    <3>1. \A u \in R : bids[u] \in Nat
      BY AuctionsTyped
    <3>2. IsFiniteSet(R)
      BY FiniteKeys, FS_Subset
    <3>3. totalBidEscrow = SumOver(bids, R)
      BY DEF MoneyConserved, OwedMatchesClaims, HighBids
    <3>4. t \in R /\ bids[t] = auctions[t].highestBid
      BY <2>2
    <3> HIDE DEF R, bids
    <3>5. bids[t] <= SumOver(bids, R)
      BY <3>1, <3>2, <3>4, SumNat
    <3>6. QED
      BY <3>3, <3>4, <3>5
  <2>3. QED
    BY <2>1, <2>2 DEF ClaimsCovered
<1>2. QED
  BY <1>1, TypeCorrect, MoneyIsConserved, PTL

-------------------------------------------------------------------------------
\* A listed auction is an accepted artist's, so its nonce is looked up and marked in the
\* same table, whatever else that artist or another one cancels or lists.
SingleUseInv ==
    /\ AuthorizationSingleUse
    /\ \A t \in Tokens : Exists(t) => auctions[t].artist \in Artists

\* A step that keeps every auction's artist and nonce, and takes no nonce back.
LEMMA SingleUseStutter ==
    ASSUME SingleUseInv,
           \A t \in Tokens : /\ auctions'[t].artist = auctions[t].artist
                             /\ auctions'[t].nonce = auctions[t].nonce,
           \A a \in Artists : authorizationUsed[a] \subseteq authorizationUsed'[a]
    PROVE  SingleUseInv'
BY DEF SingleUseInv, AuthorizationSingleUse, Exists

\* No two auctions ever stand on one signed authorization, or on two with one nonce: listing
\* consumes the nonce, and no bid, settlement, claim or cancellation gives it back.
THEOREM AuthorizationsSingleUse == Spec => []AuthorizationSingleUse
<1>1. Init => SingleUseInv
  BY DEF Init, SingleUseInv, AuthorizationSingleUse, Exists, NoAuction
<1>2. TypeOK /\ SingleUseInv /\ [Next]_vars => SingleUseInv'
  <2> SUFFICES ASSUME TypeOK, SingleUseInv, [Next]_vars PROVE SingleUseInv'
    OBVIOUS
  <2>a. ASSUME NEW t \in Tokens, NEW item, auctions' = [auctions EXCEPT ![t] = item],
               item.artist = auctions[t].artist, item.nonce = auctions[t].nonce,
               UNCHANGED authorizationUsed
        PROVE  SingleUseInv'
    BY <2>a, SingleUseStutter DEF TypeOK
  <2>b. ASSUME UNCHANGED <<auctions, authorizationUsed>>
        PROVE  SingleUseInv'
    BY <2>b, SingleUseStutter
  <2>c. ASSUME NEW item \in AuctionType
        PROVE  /\ ClaimPending(item).nonce = item.nonce
               /\ Closed(item).nonce = item.nonce
               /\ Cancelled(item).nonce = item.nonce
               /\ \A r : Redirected(item, r).nonce = item.nonce
               /\ \A w, r, v : BidPlaced(item, w, r, v).nonce = item.nonce
    BY <2>c DEF AuctionType, ClaimPending, Closed, Cancelled, Redirected, BidPlaced
  <2>d. \A t \in Tokens : auctions[t] \in AuctionType /\ Closed(auctions[t]) \in AuctionType
    BY AuctionsTyped, ClosingType
  <2>1. CASE \E s \in Signers : setPlatformSigner(s)
    BY <2>1, <2>b DEF setPlatformSigner
  <2>2. CASE \E p \in BOOLEAN : setPaused(p)
    BY <2>2, <2>b DEF setPaused
  <2>3. CASE \E a \in Artists, n \in Nonces : cancelAuthorization(a, n)
    BY <2>3, SingleUseStutter DEF cancelAuthorization, TypeOK
  <2>4. CASE \E a \in Authorizations, t \in Tokens : createAuction(a, t)
    <3> PICK a \in Authorizations, t \in Tokens : createAuction(a, t)
      BY <2>4
    <3>1. /\ auctions' = [auctions EXCEPT ![t] = NewAuction(a)]
          /\ authorizationUsed'
               = [authorizationUsed EXCEPT ![a.artist] = @ \cup {a.nonce}]
          /\ a.artist \in Artists /\ a.nonce \notin authorizationUsed[a.artist]
          /\ ~Exists(t)
      BY DEF createAuction, ValidAuthorization
    <3>2. NewAuction(a).artist = a.artist /\ NewAuction(a).nonce = a.nonce
      BY DEF NewAuction
    <3>3. /\ auctions'[t].artist = a.artist /\ auctions'[t].nonce = a.nonce
          /\ \A u \in Tokens \ {t} : auctions'[u] = auctions[u]
      BY <3>1, <3>2 DEF TypeOK
    <3>4. /\ a.nonce \in authorizationUsed'[a.artist]
          /\ \A b \in Artists : authorizationUsed[b] \subseteq authorizationUsed'[b]
      BY <3>1 DEF TypeOK
    <3>5. \A u \in Tokens : Exists(u)' => auctions'[u].artist \in Artists
      BY <3>1, <3>3 DEF SingleUseInv, Exists
    <3>6. \A u \in Tokens \ {t} : Exists(u) =>
             <<auctions[u].artist, auctions[u].nonce>> # <<a.artist, a.nonce>>
      BY <3>1 DEF SingleUseInv, AuthorizationSingleUse
    <3>7. AuthorizationSingleUse'
      BY <3>3, <3>4, <3>6 DEF SingleUseInv, AuthorizationSingleUse, Exists
    <3>8. QED
      BY <3>5, <3>7 DEF SingleUseInv
  <2>5. CASE \E t \in Tokens, a \in Accounts, r \in Recipients, v \in 0 .. MaxValue :
               bid(t, a, r, v)
    <3> PICK t \in Tokens, a \in Accounts, r \in Recipients, v \in 0 .. MaxValue : bid(t, a, r, v)
      BY <2>5
    <3> DEFINE item == BidPlaced(auctions[t], a, r, v)
    <3>1. /\ auctions' = [auctions EXCEPT ![t] = item]
          /\ UNCHANGED authorizationUsed
      BY DEF bid
    <3>2. item.artist = auctions[t].artist /\ item.nonce = auctions[t].nonce
      BY <2>c, <2>d, StoredFields
    <3> HIDE DEF item
    <3>3. QED
      BY <2>a, <3>1, <3>2
  <2>6. CASE \E t \in Tokens, a \in Accounts, r \in Recipients : setDeliveryRecipient(t, a, r)
    <3> PICK t \in Tokens, a \in Accounts, r \in Recipients : setDeliveryRecipient(t, a, r)
      BY <2>6
    <3> DEFINE item == Redirected(auctions[t], r)
    <3>1. /\ auctions' = [auctions EXCEPT ![t] = item]
          /\ UNCHANGED authorizationUsed
      BY DEF setDeliveryRecipient
    <3>2. item.artist = auctions[t].artist /\ item.nonce = auctions[t].nonce
      BY <2>c, <2>d, StoredFields
    <3> HIDE DEF item
    <3>3. QED
      BY <2>a, <3>1, <3>2
  <2>7. CASE \E t \in Tokens : settlePending(t)
    BY <2>7, <2>a, <2>c, <2>d, StoredFields DEF settlePending
  <2>8. CASE \E t \in Tokens : settleNoBid(t)
    BY <2>8, <2>a, <2>c, <2>d, StoredFields DEF settleNoBid
  <2>9. CASE \E t \in Tokens : settleWithBid(t)
    BY <2>9, <2>a, <2>c, <2>d, StoredFields DEF settleWithBid
  <2>10. CASE ReturnFromWallet
    BY <2>10, <2>b DEF ReturnFromWallet
  <2>11. CASE ReturnFromReceiver
    BY <2>11, <2>b DEF ReturnFromReceiver
  <2>12. CASE \E t \in Tokens, a \in Accounts, r \in Recipients : claimNoBidNFT(t, a, r)
    <3> PICK t \in Tokens, a \in Accounts, r \in Recipients : claimNoBidNFT(t, a, r)
      BY <2>12
    <3> DEFINE item == Redirected(Closed(auctions[t]), r)
    <3>1. /\ auctions' = [auctions EXCEPT ![t] = item]
          /\ UNCHANGED authorizationUsed
      BY DEF claimNoBidNFT
    <3>2. item.artist = auctions[t].artist /\ item.nonce = auctions[t].nonce
      BY <2>c, <2>d, StoredFields
    <3> HIDE DEF item
    <3>3. QED
      BY <2>a, <3>1, <3>2
  <2>13. CASE \E t \in Tokens, a \in Accounts : cancel(t, a)
    BY <2>13, <2>a, <2>c, <2>d, StoredFields DEF cancel
  <2>14. CASE \E a \in Accounts, r \in Recipients : withdrawRefund(a, r)
    BY <2>14, <2>b DEF withdrawRefund
  <2>15. CASE Tick
    BY <2>15, <2>b DEF Tick
  <2>16. CASE ForceEther
    BY <2>16, <2>b DEF ForceEther
  <2>17. CASE \E t \in Tokens : PushToken(t)
    BY <2>17, <2>b DEF PushToken
  <2>18. CASE UNCHANGED vars
    BY <2>18, <2>b DEF vars
  <2>19. QED
    BY <2>1, <2>2, <2>3, <2>4, <2>5, <2>6, <2>7, <2>8, <2>9, <2>10, <2>11, <2>12, <2>13,
       <2>14, <2>15, <2>16, <2>17, <2>18 DEF Next
<1>3. SingleUseInv => AuthorizationSingleUse
  BY DEF SingleUseInv
<1>4. QED
  BY <1>1, <1>2, <1>3, TypeCorrect, PTL DEF Spec

=============================================================================
