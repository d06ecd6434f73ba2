SPECIFICATION Spec
CONSTANTS
  Sam = Sam
  Kim = Kim
  sam = sam
  kim = kim
  Fact = {f1}
  Person = {Sam, Kim}
  Name = {sam, kim}
  Turn <- Three
  Chat = {home}
  Home = home
  Nobody = Nobody
  NoName = NoName
  NoChat = NoChat
  NoTurn = NoTurn
  NoFact = NoFact
  Handler = {h1}
  MaxWords = 1
  MaxTurns = 2
INVARIANTS UntrustedIsHeld GuestFactStaysHome ForgottenIsReviewed
CHECK_DEADLOCK FALSE
