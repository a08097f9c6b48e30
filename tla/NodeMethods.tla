---------------------------- MODULE NodeMethods ----------------------------
(***************************************************************************)
(* The methods of the clients that ask a node, each by how it retries, how *)
(* it ends and what it makes of an answer (see NodeClient).  Every client  *)
(* has MAX_ATTEMPT = 20 and sleeps 10 s between two attempts.  Left out:   *)
(* what never asks the node (isAddress, decodeRawTransaction of eth and    *)
(* bnb, the encodings), and getUnconfirmedTransactionReceipt, which is     *)
(* called by a name that does not exist.                                   *)
(***************************************************************************)
EXTENDS Naturals

Kind(client, names, retry, end, answer) ==
    {[client |-> client, name |-> n, retry |-> retry, end |-> end, answer |-> answer] : n \in names}
Counted(client, names) == Kind(client, names, "counted", "throw", "any")
Restarted(client, names) == Kind(client, names, "restarted", "throw", "any")
ToFallback(client, names) == Kind(client, names, "counted", "fallback", "any")
Once(client, names) == Kind(client, names, "never", "fallback", "any")
OnceThrowing(client, names) == Kind(client, names, "never", "throw", "any")
Height(client) == Kind(client, {"getLatestBlockHeight"}, "counted", "throw", "height")
\* checkConnection does not exist: the request is never sent.
Unconnected(client) == Kind(client, {"getTokenBalance"}, "counted", "throw", "none")

----------------------------------------------------------------------------
EthContracts == Counted("eth", {"ethCall", "getLogsERC20Address"})
EthBlocks == Restarted("eth", {"getBlock", "getBlockHashByHeight"})
EthTransactions == Counted("eth", {"getRawTx", "getTransactionReceipt"})
EthFromBlock == Counted("eth", {"getTransactionFromBlock"})
EthHeight == Height("eth")
EthBroadcast == Once("eth", {"broadcast"})
EthBalanceETH == Counted("eth", {"getBalanceETH"})
EthBalance == ToFallback("eth", {"getBalance"})
EthTokenBalance == Unconnected("eth")
EthNonce == Counted("eth", {"getNonce"})
EthEstimateGas == ToFallback("eth", {"getEstimateGas"})
EthMethods ==
    EthContracts \cup EthBlocks \cup EthTransactions \cup EthFromBlock \cup EthHeight
    \cup EthBroadcast \cup EthBalanceETH \cup EthBalance \cup EthTokenBalance \cup EthNonce \cup EthEstimateGas

----------------------------------------------------------------------------
BnbContracts == Counted("bnb", {"bnbCall", "getLogsBEP20Address"})
BnbBlocks == Restarted("bnb", {"getBlock", "getBlockHashByHeight"})
BnbTransactions == Counted("bnb", {"getRawTx", "getTransactionReceipt"})
BnbFromBlock == Counted("bnb", {"getTransactionFromBlock"})
BnbHeight == Height("bnb")
BnbBroadcast == Once("bnb", {"broadcast"})
BnbBalanceBnb == Counted("bnb", {"getBalanceBnb"})
BnbBalance == ToFallback("bnb", {"getBalance"})
BnbTokenBalance == Unconnected("bnb")
BnbNonce == Counted("bnb", {"getNonce"})
BnbEstimateGas == ToFallback("bnb", {"getEstimateGas"})
BnbMethods ==
    BnbContracts \cup BnbBlocks \cup BnbTransactions \cup BnbFromBlock \cup BnbHeight
    \cup BnbBroadcast \cup BnbBalanceBnb \cup BnbBalance \cup BnbTokenBalance \cup BnbNonce \cup BnbEstimateGas

----------------------------------------------------------------------------
BtcReads ==
    Counted("btc", {"getBlock", "getBlockHashByHeight", "getRawTx", "decodeRawTransaction",
                    "getLatestBlockHeight"})
BtcBroadcast == Once("btc", {"broadcast"})
BtcSmartFee == OnceThrowing("btc", {"getSmartFee"})
BtcMethods == BtcReads \cup BtcBroadcast \cup BtcSmartFee

----------------------------------------------------------------------------
TrxReads == Counted("trx", {"getBlock", "getLatestBlockHeight"})
TrxAsset == Kind("trx", {"getAssetInfoById"}, "counted", "throw", "found")
TrxReceipt == Kind("trx", {"getTransactionReceipt"}, "counted", "throw", "receipt")
TrxAccount == Once("trx", {"getAccount"})
TrxTokenBalance == Once("trx", {"getTokenBalance"})
TrxContract == Once("trx", {"getInfoSmartContract"})
TrxSend == Once("trx", {"sendToken", "sendTrx"})
TrxBalance == Once("trx", {"getBalanceTrx"})
TrxMethods ==
    TrxReads \cup TrxAsset \cup TrxReceipt \cup TrxAccount \cup TrxTokenBalance \cup TrxContract
    \cup TrxSend \cup TrxBalance

----------------------------------------------------------------------------
ApiGet == Counted("api", {"get"})
ApiPost == OnceThrowing("api", {"post"})
ApiPlainPosts == OnceThrowing("api", {"postWithSignature", "sendRequest"})
ApiMethods == ApiGet \cup ApiPost \cup ApiPlainPosts

AllMethods == EthMethods \cup BnbMethods \cup BtcMethods \cup TrxMethods \cup ApiMethods
=============================================================================
