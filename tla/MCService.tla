----------------------------- MODULE MCService -----------------------------
(***************************************************************************)
(* Requests for TLC: what each asks, and which of them may come together.  *)
(***************************************************************************)
EXTENDS Service

CONSTANTS eth, bnb, trx, btc, token

Call(op, currency) == [op |-> op, authentic |-> TRUE, currency |-> currency]
AddWallet(s, name) == [op |-> "addWallet", authentic |-> TRUE, currency |-> s, name |-> name]
Configure(s, ws) == [op |-> "configWallet", authentic |-> TRUE, currency |-> s, wallets |-> ws]
Address(s, path) == [op |-> "getAddress", authentic |-> TRUE, currency |-> s, path |-> path]
Contract(s, written, decimals) ==
    [op |-> "addSmartContract", authentic |-> TRUE, currency |-> s, contract |-> token,
     written |-> written, decimals |-> decimals]
Withdraw(op, s, batch) == [op |-> op, authentic |-> TRUE, currency |-> s, batch |-> batch]
One(id, asset, valid) == [id |-> id, asset |-> asset, valid |-> valid]
Total(s, count) == [op |-> "getTotalWallet", authentic |-> TRUE, currency |-> s, count |-> count]

Single == "withdrawalRequest"
Batch == "multilpleWithdrawalRequest"

MCOf == [
    wallet |-> AddWallet(eth, "a"), again |-> AddWallet(eth, "a"), other |-> AddWallet(bnb, "a"),
    config |-> Configure(eth, <<"wallet", "wallet", "wallet">>),
    reconfig |-> Configure(eth, <<"again", "wallet", "again">>),
    foreign |-> Configure(eth, <<"wallet", "other", "wallet">>),
    address |-> Address(eth, 1), same |-> Address(eth, 1),
    pay |-> Withdraw(Single, eth, <<One(1, eth, TRUE)>>),
    payToken |-> Withdraw(Single, eth, <<One(1, token, TRUE)>>),
    payBatch |-> Withdraw(Batch, eth, <<One(1, bnb, TRUE), One(2, token, TRUE)>>),
    payBad |-> Withdraw(Batch, eth, <<One(1, eth, FALSE), One(1, eth, TRUE)>>),
    contract |-> Contract(eth, "lower", TRUE), mixed |-> Contract(eth, "mixed", TRUE),
    noToken |-> Contract(eth, "lower", FALSE),
    trxToken |-> Contract(trx, "mixed", TRUE), trxAgain |-> Contract(trx, "mixed", TRUE),
    btcToken |-> Contract(btc, "lower", TRUE),
    threshold |-> Call("setWalletThreshold", eth),
    confirmed |-> Call("setRequireConfirmed", eth), info |-> Call("getWalletInfo", eth),
    valid |-> Call("validateAddress", eth), lists |-> Call("getWallets", None),
    one |-> Total(eth, 1), two |-> Total(eth, 2),
    nowhere |-> Call("setWalletThreshold", "doge"), missing |-> Call("setWalletThreshold", None),
    forgedBatch |->
        [op |-> Batch, authentic |-> FALSE, currency |-> eth,
         batch |-> <<One(1, eth, TRUE), One(2, eth, TRUE)>>],
    forged |-> [op |-> "getTotalWallet", authentic |-> FALSE, currency |-> eth, count |-> 1]]
MCRequests == DOMAIN MCOf

Scenario(requests, failures) == [requests |-> requests, troubles |-> failures]
MCScenarios == {
    Scenario({"wallet", "other", "foreign"}, 1),
    Scenario({"wallet", "again", "reconfig"}, 2),
    Scenario({"wallet", "config", "address", "same"}, 1),
    Scenario({"pay", "payBatch", "contract"}, 1),
    Scenario({"payToken", "payBad", "contract"}, 1),
    Scenario({"contract", "mixed", "noToken"}, 1),
    Scenario({"trxToken", "trxAgain", "btcToken"}, 1),
    Scenario({"threshold", "lists", "one", "two"}, 1),
    Scenario({"confirmed", "info", "valid"}, 1),
    Scenario({"nowhere", "missing", "forged", "forgedBatch"}, 1)}
MCServices == {eth, bnb, trx, btc}
MCChainOf == [s \in MCServices |-> CASE s = eth -> "eth" [] s = bnb -> "bnb" [] s = trx -> "trx"
                                     [] OTHER -> "btc"]
=============================================================================
