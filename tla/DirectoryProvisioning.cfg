SPECIFICATION FairSpec
CONSTANTS
  Operators = {r1, r2}
  Logins = {ann, ANN, bob}
  Accounts = {annAccount, bobAccount}
  AccountOf <- MCAccountOf
  NoLogin = NoLogin
  Groups = {g1, g2}
  CsvFiles <- MCCsvFiles
  MaxFaults = 1
  ann = ann
  ANN = ANN
  bob = bob
  annAccount = annAccount
  bobAccount = bobAccount
  g1 = g1
  g2 = g2
INVARIANTS
  TypeOK
  DoneMeansProvisioned
PROPERTIES
  OnlyWhatTheRowsReadSay
  RerunsConverge
