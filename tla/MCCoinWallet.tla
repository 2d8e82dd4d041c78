---------------------------- MODULE MCCoinWallet ----------------------------
(* Two bookings, two cancelling handlers, batches of two coins that last   *)
(* a day, tiers that cost less than one batch or more than one.            *)
EXTENDS CoinWallet, TLC
=============================================================================
