CONSTANTS
  capacity = 3
  Package = {p1, p2}
  Clean = Clean
SPECIFICATION Spec
INVARIANTS CursorsAgree OccupiedExactlyLive
PROPERTIES ImplementsDeque PointersStayValid
