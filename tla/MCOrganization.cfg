\* Two concurrent calls of every pair of operations.
CONSTANTS
  ann = ann
  ben = ben
  cat = cat
  dan = dan
  eli = eli
  fay = fay
  c1 = c1
  c2 = c2
  c3 = c3
  given = given
  mail = mail
  post = post
  spare = spare
  Users = {ann, ben, cat, dan, eli, fay}
  Disabled = {fay}
  Emails = {mail, post, spare}
  Profiles <- MCProfiles
  InitialRole <- MCInitialRole
  NoRole = NoRole
  Calls = {c1, c2}
  Inputs <- MCInputs
  Given = {given}
  GivenInvitation <- MCGivenInvitation
  NoInput = NoInput
  MaxPending = 1
SPECIFICATION FairSpec
INVARIANTS AnOwnerRemains AuditExplainsState InvitationsAreBounded
PROPERTIES JoinsAreInvited AuthorityHolds ChangesAreExpected EveryCallEnds
CHECK_DEADLOCK FALSE
