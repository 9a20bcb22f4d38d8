SPECIFICATION Spec
CONSTANTS
  ann = ann
  bob = bob
  Users <- MCUsers
  MfaUsers = {bob}
  NewUsers = {bob}
  Orgs = {1, 2}
  MemberOf <- MCMemberOf
  Invitee = ann
  InvitedTo = 2
  Remembered = {2}
  Entries = {"app", "invite", "verify", "mfaSetup", "link"}
  MaxJobs = 4
  MaxParallel = 2
  MaxIssued = 2
  MaxActs = 1
  MaxFaults = 1
  Nothing = Nothing
INVARIANTS TypeOK SelectionIsMembership QuietRefresh LogoutEndsSession OneSubmission OnlyValidForms LoadingHasEnd
CHECK_DEADLOCK FALSE
