---------------------------- MODULE MCPayLedger ----------------------------
(* Small instances of PayLedger.                                           *)
EXTENDS PayLedger

Pay(coins, goods) == [coins |-> coins, goods |-> goods]

CoinPayments == {Pay(1, FALSE), Pay(2, FALSE)}
CoinsOrGoods == {Pay(1, FALSE), Pay(0, TRUE)}
=============================================================================
