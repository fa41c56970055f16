SPECIFICATION Spec
CONSTANTS
  t1 = t1  t2 = t2  a1 = a1  s1 = s1  s2 = s2
  alice = alice  bob = bob  mail = mail  halt = halt  form = form
  Thread = {t1}
  Action = {a1}
  Session = {s1, s2}
  Identity = {alice, bob}
  Content = {mail, halt, form}
  IdentityOf <- TwoUsers
  Members = {alice, bob}
  Acting <- ActingIn
  KindOf <- Kinds
  NeedsConsent <- Consents
  Required <- Levels
  MaxClaims = 1
  MaxCrashes = 1
  MaxErrors = 1
  MaxPolicy = 1
PROPERTY AuthorisedEffect
