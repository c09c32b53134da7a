SPECIFICATION Spec
CONSTANTS
  Sigs = {stake, delegate}
  ProtocolContracts = {staking, tool}
  NoTarget = none
  ManagerNames <- AllManagerNames
  Owners = {deployer, safe}
  Deployer = deployer
  Amounts = {1, 2}
  Purse = 3
  FundAmount = 2
  MaxCommands = 4
  MaxContracts = 5
INVARIANTS OneTarget DepositsAllowed OneMasterCopyOnL2
PROPERTIES SetupCompletes
CHECK_DEADLOCK FALSE
