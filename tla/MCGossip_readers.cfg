\* Requests, crashes and rounds of a reader, interleaved.
CONSTANTS
  p1 = p1
  p2 = p2
  p3 = p3
  p4 = p4
  p5 = p5
  r1 = r1
  r2 = r2
  liar = liar
  like = like
  again = again
  stranger = stranger
  sub = sub
  pub = pub
  alike = alike
  forged = forged
  bare = bare
  dan = dan
  eve = eve
  me = me
  a = a
  b = b
  None = None
  Relays = {r1, liar, r2}
  Lying = {liar}
  Lies <- MCLies
  Events = {like, again, stranger, sub, pub, alike, forged, bare}
  Genuine = {like, again, stranger, sub, pub, alike, bare}
  Posts = {p1, p2, p3, p4, p5}
  EventOf <- MCEventOf
  RelayOf <- MCRelayOf
  Payload <- MCPayload
  Me = me
  Begins <- MCBegins
  Order <- MCOrder
  MaxCrashes = 1
SPECIFICATION Spec
INVARIANTS
  AcceptedIsKept
  OwedIsSeen
  ViewIsBounded
