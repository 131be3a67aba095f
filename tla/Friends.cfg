CONSTANTS
  Users = {u1, u2, u3}
  NoUser = NoUser
  MaxAsked = 3
  MaxStrays = 1
SPECIFICATION Spec
SYMMETRY Symmetry
INVARIANTS TypeOK ShownIsCurrent FriendshipIsConsented
PROPERTIES RequestAwaitsReceiver FriendsAreNotAsked FriendshipLasts
