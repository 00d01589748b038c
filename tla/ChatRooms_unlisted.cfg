\* b heads the project: the role alone, no grant, lets b moderate its chats.
SPECIFICATION RoomsSpec
CONSTANTS
  People = {a, b}
  Founder = a
  Viewers = {b}
  Moderators = {b}
  Grantees = {}
  Desks = {d1, d2}
INVARIANT ManagersSee
CHECK_DEADLOCK FALSE
