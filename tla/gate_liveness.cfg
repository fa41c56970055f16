SPECIFICATION FairSpec
CONSTANTS
  t1 = t1  t2 = t2  a1 = a1  s1 = s1  s2 = s2
  alice = alice  bob = bob  mail = mail  halt = halt  form = form
  Thread = {t1, t2}
  Action = {a1}
  Session = {s1}
  Identity = {alice}
  Content = {halt}
  IdentityOf <- OneUser
  Members = {alice}
  Acting <- ActingIn
  KindOf <- Kinds
  NeedsConsent <- Consents
  Required <- Levels
  MaxClaims = 1
  MaxCrashes = 1
  MaxErrors = 0
  MaxPolicy = 0


PROPERTY Settles CallsReturn
