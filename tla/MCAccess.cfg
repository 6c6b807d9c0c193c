CONSTANTS
  Users = {owner, guest}
  Owner = owner
  Verified = {owner, guest}
  Editors = {guest}
  Given = {"owner", "viewer"}
  Admins = {a1, a2}
  Tickets = {t1, t2}
  Tabs = {c1, c2}
  MaxChanges = 3
  Nobody = Nobody
SPECIFICATION Spec
INVARIANTS TypeOK TicketOpensOnce
PROPERTIES RevocationHonoured RemovalSparesNewRow EntryComesBack GhostsAreSwept
CHECK_DEADLOCK FALSE
