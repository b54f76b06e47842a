SPECIFICATION FairSpec
CONSTANTS
  Usernames = {n1, n2}
  Emails = {e1, e2}
  Passwords = {w1, w2}
  MaxUsers = 3
  Requests = {p1, p2}
  NoUser = NoUser
  NoPassword = NoPassword
  NoProvider = NoProvider
  NoTx = NoTx
INVARIANTS
  UsersAreUnique
  AcceptedCanLogIn
  TakenIsToldByLookups
PROPERTIES
  ImplementsDirectory
  RegistrationsReturn
