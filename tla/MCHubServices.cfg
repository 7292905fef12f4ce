SPECIFICATION ServicesSpec
CONSTANTS
  People = {"ann", "cid", "dan"}
  Orgs = {"org1", "org2"}
  Invites = {"i1", "i2", "i3"}
  Resets = {"x1", "x2"}
  Plans = {"free", "team"}
  Free = "free"
  Seats <- SeatsOf
  Requests = {1, 2}
  MaxCalls = 2
  None = None
  Gone = Gone
  AccessAccounts <- Holders
  AccessOperator = "cid"
  AccessLegacy = "legacy"
  AccessOrgs <- Companies
  AccessProjects = {"p1", "p2", "p3"}
  AccessConnectors = {"c1", "c2"}
  AccessSessions = {"s1", "s2"}
  AccessTokens = {"t1"}
  AccessRequests = {1}
  AccessScopeSets <- TokenScopes
  AccessAsks <- WhatIsAsked
  AccessHosted = TRUE
  MaxAccessCalls = 2
  MaxAccessMoves = 1
  Mails = {"m1", "m2"}
  MailWorkers = {"w1", "w2"}
  MaxAttempts = 2
  Backoff <- OneTry
  StaleAfter = 3
  SendWithin = 2
  RetainFor = 12
  EnqueueBy = 2
  MaxMailTime = 14
  MaxMailFaults = 1
  BillingOrgs = {"org1"}
  Checkouts = {}
  Invoices = {"trial", "payment"}
  Charged = {"payment"}
  BuyerOf <- Buyer
  BoughtPlan <- Bought
  BillingFree = "free"
  Deliveries = {"d1", "d2"}
  MaxBillingFaults = 2
  MaxBillingMoves = 1
  HubProjectIds = {"p1", "p2", "p3"}
  ProjectMachines = {"c1"}
  ProjectRequests = {1, 2}
  ProjectLimit = 1
  MachineLimit = 1
  IdleAfter = 2
  WarnAfter = 1
  MaxProjectTime = 2
  MaxProjectCalls = 2
  UpdateMachines = {"m1", "m2"}
  MaxVersion = 2
  MaxExecs = 1
  MaxUpdateFaults = 1
  MaxUpdateMoves = 1
  EnrolProjects = {"p1", "p2"}
  EnrolOrgs = {"org1", "org2"}
  EnrolRequests = {"r1", "r2"}
  EnrolTokens = {"t1"}
  EnrolConnectors = {"c1", "c2"}
  EnrolMachines = {"m1", "m2"}
  MaxEnrolFaults = 1
INVARIANTS
  PartsTyped
  AtMostOneAdmin
  ClaimTokenFollowsClaim
  SecretsWorkOnce
  ActsAreCovered
  TokensWithinMinter
  ListedIsRoutable
  MailHasOneHolder
  EveryMailSettles
  NoInvoiceWithoutDoubt
  WallsHold
  ExecutableIsWhole
  EnrolledOnce
PROPERTIES
  SeatsHold
  SettledIsFinal
  EveryPaymentIsInvoiced
  ConnectorFollowsHub
  OnlyIdleAreDeleted
CHECK_DEADLOCK FALSE
