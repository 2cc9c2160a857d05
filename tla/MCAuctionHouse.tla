---------------------------- MODULE MCAuctionHouse ----------------------------
(* Instances of AuctionHouse for TLC. *)
EXTENDS AuctionHouse

Terms(artist, nonce, reserve, start, end, window, bps, epoch, signer) ==
    [artist |-> artist, nonce |-> nonce, profileId |-> 1, reservePrice |-> reserve,
     startTime |-> start, endTime |-> end, extensionWindow |-> window,
     minBidIncrementBps |-> bps, deadline |-> 1, signerEpoch |-> epoch, signer |-> signer]

\* Two auctions of one artist: the second reuses the nonce of the first under other terms,
\* the third needs the rotated signer.
TwoAuctions == {Terms(1, 1, 0, 0, 1, 1, 5000, 1, "k1"),
                Terms(1, 1, 2, 0, 2, 0, 1, 1, "k1"),
                Terms(1, 2, 2, 0, 2, 2, 10000, 2, "k2")}

=============================================================================
