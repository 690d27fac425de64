SPECIFICATION MCSpec
CONSTANTS
  AccountOrder <- AllAccounts
  DeviceOrder <- AllDevices
  NeverManaged = {"root"}
  NoPassword = "none"
  Disabled = "disabled"
  Configs <- NetConfigs
  Accounts <- Admin
  Faults = {"command", "disk"}
  MaxCalls = 3
CHECK_DEADLOCK FALSE
INVARIANTS
  BoxAsConfigured
  DevicesSound
  InterfaceCallsSucceed
PROPERTIES
  NothingTakenAway
