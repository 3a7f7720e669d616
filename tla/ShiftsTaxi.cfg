SPECIFICATION ShiftSpec
CONSTANTS
  Owners = {o1}
  Hired = {h1}
  Vehicles = {v1}
  OwnerOf <- MCOwnerOf
  Posts = {p1}
  ShiftReqs = {r1}
  NoOne = NoOne
  SelfService = {"offline", "online", "looking_for_work"}
INVARIANTS OneDriverPerTaxi
