---------------------------- MODULE DeployScripts ----------------------------
(***************************************************************************)
(* The deployment scripts, as data: one definition per file, named after   *)
(* it.  A script looks up the records of the contracts it needs, then      *)
(* deploys its own one after the other.  A contract deployed behind a      *)
(* proxy gets its arguments from `execute.init`, any other from `args`;    *)
(* `params` says that the arguments hold parameters of the environment or  *)
(* addresses written into the file.                                        *)
(***************************************************************************)
EXTENDS Sequences

Contract(name, uses, params) ==
    [name |-> name, uses |-> uses, params |-> params, proxied |-> FALSE]

Proxy(name, uses) == [Contract(name, uses, TRUE) EXCEPT !.proxied = TRUE]

Script(tags, needs, deploys) ==
    [tags |-> tags, needs |-> needs, deploys |-> deploys, skip |-> FALSE]

\* module.exports.skip: not run on Rollux (57000) and BSC (56)
Skipped(script) == [script EXCEPT !.skip = TRUE]

-----------------------------------------------------------------------------
(* deploy/, the directory hardhat.config.js names *)

MultiSigWallet00 == Script({"MultiSigWallet", "UnoRe"}, {}, <<>>)
MockToken01 == Script({"MockUSDT", "MockUSDC", "MockUNO"}, {}, <<>>)
OraclePriceFeed02 ==
    Script({"PriceOracle"}, {}, <<Contract("PriceOracle", {}, TRUE)>>)
ExchangeAgent03 ==
    Script({"ExchangeAgent", "MockUSDT", "PriceOracle"}, {"PriceOracle"},
           <<Contract("ExchangeAgent", {"PriceOracle"}, TRUE)>>)
CapitalAgent04 ==
    Script({"CapitalAgent"}, {"ExchangeAgent"},
           <<Proxy("CapitalAgent", {"ExchangeAgent"})>>)
PremiumPool04 ==
    Script({"PremiumPool", "MockUNO"}, {"ExchangeAgent"},
           <<Contract("PremiumPool", {"ExchangeAgent"}, TRUE)>>)
RiskPoolFactory05 ==
    Script({"RiskPoolFactory"}, {}, <<Contract("RiskPoolFactory", {}, FALSE)>>)
RewarderFactory06 ==
    Script({"RewarderFactory", "UnoRe"}, {}, <<Contract("RewarderFactory", {}, FALSE)>>)
SalesPolicyFactory07 ==
    LET agents == {"ExchangeAgent", "PremiumPool", "CapitalAgent"}
    IN  Script({"SalesPolicyFactory"}, agents,
               <<Contract("SalesPolicyFactory", agents, TRUE)>>)
ClaimProcessor08 == Script({"ClaimProcessor"}, {}, <<>>)
EscalationManager09 ==
    Script({"EscalationManager"}, {}, <<Contract("EscalationManager", {}, TRUE)>>)
SingleSidedInsurancePoolUSDT10 ==
    Script({"SingleSidedInsurancePoolUSDT", "UnoRe"}, {"CapitalAgent"},
           <<Proxy("SingleSidedInsurancePoolUSDT", {"CapitalAgent"})>>)
SingleSidedReinsurancePool11 ==
    Script({"SingleSidedReinsurancePool"}, {},
           <<Proxy("SingleSidedReinsurancePool", {})>>)
SyntheticSSIPFactory12 == Script({"SyntheticSSIPFactory"}, {}, <<>>)
SyntheticSSRPFactory13 == Script({"SyntheticSSRPFactory"}, {}, <<>>)
PayoutRequest14 ==
    LET parts == {"SingleSidedInsurancePoolUSDT", "EscalationManager"}
    IN  Script({"PayoutRequestUSDT", "UnoRe"}, parts,
               <<Proxy("PayoutRequestUSDT", parts)>>)

\* a pool and, with the address `deploy` returned for it, its PayoutRequest
PoolWithClaims(ssip, payout) ==
    Script({ssip, payout, "UnoRe"}, {"CapitalAgent", "EscalationManager"},
           <<Proxy(ssip, {"CapitalAgent"}), Proxy(payout, {ssip, "EscalationManager"})>>)

SingleSidedInsurancePoolETH15 ==
    PoolWithClaims("SingleSidedInsurancePoolETH", "PayoutRequestETH")
SingleSidedInsurancePoolUSDC16 ==
    PoolWithClaims("SingleSidedInsurancePoolUSDC", "PayoutRequestUSDC")
SingleSidedInsurancePoolUNO17 ==
    PoolWithClaims("SingleSidedInsurancePoolUNO", "PayoutRequestUNO")

\* hardhat-deploy runs the files of the directory in the order of their names
deploy ==
    <<MultiSigWallet00, MockToken01, OraclePriceFeed02, ExchangeAgent03,
      CapitalAgent04, PremiumPool04, RiskPoolFactory05, RewarderFactory06,
      SalesPolicyFactory07, ClaimProcessor08, EscalationManager09,
      SingleSidedInsurancePoolUSDT10, SingleSidedReinsurancePool11,
      SyntheticSSIPFactory12, SyntheticSSRPFactory13, PayoutRequest14,
      SingleSidedInsurancePoolETH15, SingleSidedInsurancePoolUSDC16,
      SingleSidedInsurancePoolUNO17>>

-----------------------------------------------------------------------------
(* scripts/deploy/, the first version: nothing behind a proxy *)

ExchangeAgent0 ==
    Script({"ExchangeAgent", "UnoRe"}, {}, <<Contract("ExchangeAgent", {}, TRUE)>>)
PremiumPool1 ==
    Script({"PremiumPool"}, {"ExchangeAgent"},
           <<Contract("PremiumPool", {"ExchangeAgent"}, TRUE)>>)
CapitalAgent2 ==
    Script({"CapitalAgent"}, {"ExchangeAgent"},
           <<Contract("CapitalAgent", {"ExchangeAgent"}, TRUE)>>)
RewarderFactory3 ==
    Script({"RewarderFactory", "UnoRe"}, {}, <<Contract("RewarderFactory", {}, FALSE)>>)
RiskPoolFactory4 ==
    Script({"RiskPoolFactory"}, {}, <<Contract("RiskPoolFactory", {}, FALSE)>>)
SalesPolicyFactory5 ==
    LET agents == {"ExchangeAgent", "PremiumPool", "CapitalAgent"}
    IN  Script({"SalesPolicyFactory"}, agents,
               <<Contract("SalesPolicyFactory", agents, TRUE)>>)
SyntheticSSIPFactory6 ==
    Script({"SyntheticSSIPFactory", "UnoRe"}, {},
           <<Contract("SyntheticSSIPFactory", {}, FALSE)>>)
SingleSidedInsurancePool7 ==
    LET agents == {"ExchangeAgent", "CapitalAgent"}
    IN  Script({"SingleSidedInsurancePool", "UnoRe"}, agents,
               <<Contract("SingleSidedInsurancePool", agents, TRUE)>>)
SyntheticSSRPFactory8 ==
    Script({"SyntheticSSRPFactory", "UnoRe"}, {},
           <<Contract("SyntheticSSRPFactory", {}, FALSE)>>)
SingleSidedReinsurancePool9 ==
    Script({"SingleSidedReinsurancePool", "UnoRe"}, {},
           <<Contract("SingleSidedReinsurancePool", {}, FALSE)>>)

scripts_deploy ==
    <<ExchangeAgent0, PremiumPool1, CapitalAgent2, RewarderFactory3,
      RiskPoolFactory4, SalesPolicyFactory5, SyntheticSSIPFactory6,
      SingleSidedInsurancePool7, SyntheticSSRPFactory8, SingleSidedReinsurancePool9>>

-----------------------------------------------------------------------------
(* scripts/deploy_old/: no numbers, hence in alphabetical order *)

AirdropMockUNOOld ==
    Script({"AirdropMockUNO", "UnoRe"}, {}, <<Contract("AirdropMockUNO", {}, FALSE)>>)
CapitalAgentOld ==
    Script({"CapitalAgent"}, {"ExchangeAgent"},
           <<Contract("CapitalAgent", {"ExchangeAgent"}, FALSE)>>)
ExchangeAgentOld ==
    Script({"ExchangeAgent", "UnoRe"}, {}, <<Contract("ExchangeAgent", {}, TRUE)>>)
MigrationOld == Script({"Migration"}, {}, <<Contract("MigrationMock", {}, FALSE)>>)
MockUNOOld ==
    Skipped(Script({"MockUNO", "UnoRe"}, {}, <<Contract("MockUNO", {}, FALSE)>>))
MockUSDTOld ==
    Skipped(Script({"MockUSDT", "UnoRe"}, {}, <<Contract("MockUSDT", {}, FALSE)>>))
PremiumPoolOld ==
    Script({"PremiumPool"}, {"ExchangeAgent"},
           <<Contract("PremiumPool", {"ExchangeAgent"}, TRUE)>>)
RewarderFactoryOld ==
    Script({"RewarderFactory", "UnoRe"}, {}, <<Contract("RewarderFactory", {}, FALSE)>>)
RiskPoolFactoryOld ==
    Script({"RiskPoolFactory"}, {}, <<Contract("RiskPoolFactory", {}, FALSE)>>)
SalesPolicyFactoryOld ==
    LET agents == {"ExchangeAgent", "PremiumPool", "CapitalAgent"}
    IN  Script({"SalesPolicyFactory"}, agents,
               <<Contract("SalesPolicyFactory", agents, TRUE)>>)
SingleSidedInsurancePoolOld ==
    LET agents == {"ExchangeAgent", "CapitalAgent"}
    IN  Script({"SingleSidedInsurancePool", "UnoRe"}, agents,
               <<Contract("SingleSidedInsurancePool", agents, TRUE)>>)

\* a contract of the deployer's that only knows the exchange agent
WithExchangeAgent(name, params) ==
    Script({name, "UnoRe"}, {"ExchangeAgent"},
           <<Contract(name, {"ExchangeAgent"}, params)>>)

SingleSidedReinsurancePoolOld == WithExchangeAgent("SingleSidedReinsurancePool", FALSE)
SyntheticSSIPFactoryOld == WithExchangeAgent("SyntheticSSIPFactory", FALSE)
SyntheticSSRPOld == WithExchangeAgent("SyntheticSSRP", TRUE)

scripts_deploy_old ==
    <<AirdropMockUNOOld, CapitalAgentOld, ExchangeAgentOld, MigrationOld,
      MockUNOOld, MockUSDTOld, PremiumPoolOld, RewarderFactoryOld,
      RiskPoolFactoryOld, SalesPolicyFactoryOld, SingleSidedInsurancePoolOld,
      SingleSidedReinsurancePoolOld, SyntheticSSIPFactoryOld, SyntheticSSRPOld>>
=============================================================================
