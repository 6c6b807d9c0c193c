------------------------------- MODULE Access -------------------------------
(***************************************************************************)
(* Who may open a document's socket, and who is shown in it: workspaces and *)
(* members (services/workspace_service.py, dependencies.py,                 *)
(* routers/workspaces.py), socket tickets (services/ws_tickets.py,          *)
(* routers/realtime.py), and presence (services/presence.py) as the         *)
(* sessions of realtime/session.py keep it.                                 *)
(*                                                                         *)
(* One workspace, one document.  Members come and go by requests that check *)
(* first and write later.  A ticket is spent in Redis before the access it  *)
(* stands for is read from Postgres.  Presence is one Redis hash with an    *)
(* entry per user, though a user may have several tabs: each tab writes,    *)
(* sweeps and clears it one command at a time.                              *)
(***************************************************************************)
EXTENDS Naturals, FiniteSets

CONSTANTS
  Users, Owner,    \* Owner is the workspace's owner_id
  Verified,        \* the users with a verified address
  Editors,         \* the members, as editors, besides Owner at the start
  Given,           \* the roles additions give
  Admins,          \* membership requests that can be in progress at once
  Tickets,         \* bound: tickets minted
  Tabs,            \* bound: sockets opened
  MaxChanges,      \* bound: membership requests made
  Nobody

ASSUME AccessAssumption ==
  /\ Owner \in Users /\ Verified \subseteq Users
  /\ Editors \subseteq Users \ {Owner} /\ Given \subseteq {"owner", "editor", "viewer"}
  /\ MaxChanges \in Nat /\ Nobody \notin Users \cup Tabs

VARIABLES
  alive,     \* the workspace and its document exist
  members,   \* members[u]: the workspace_members row, or NotMember
  ticket,    \* ticket[t]: the user it names in Redis, or Nobody
  tab,       \* tab[c]: one socket and its EditorSession
  entry,     \* entry[u]: the presence hash's value, or NoEntry
  admin,     \* admin[a]: a membership request
  count,     \* [changes, row]: requests made, membership rows ever inserted
  past       \* history: the tickets minted, the sockets each let in

vars == <<alive, members, ticket, tab, entry, admin, count, past>>
workspace == <<alive, members, admin, count>>

Roles == {"owner", "editor", "viewer"}
Rank == [none |-> 0, viewer |-> 1, editor |-> 2, owner |-> 3]

(* WorkspaceRole.satisfies.                                                 *)
Satisfies(role, minimum) == Rank[role] >= Rank[minimum]

(* A membership: the owner has a row too.                                   *)
WorkspaceMember == [role : Roles, row : Nat]
NotMember == [role |-> "none", row |-> 0]

(* peers(): an entry that has not expired.                                  *)
NoEntry == [tab |-> Nobody, fresh |-> FALSE]
Shown(u) == entry[u].fresh
Idle == [op |-> "idle"]
Closed == [pc |-> "closed"]

-----------------------------------------------------------------------------
(* Workspace and members.                                                   *)

(* WorkspaceAccess(OWNER), checked on the caller's row as it is now.        *)
RequireOwner(a, u) ==
  /\ admin[a] = Idle /\ count.changes < MaxChanges
  /\ Satisfies(members[u].role, "owner")
  /\ count' = [count EXCEPT !.changes = @ + 1]

(* add_member, up to the insert: a verified user who is not a member.       *)
AddStart(a, by, u, role) ==
  /\ RequireOwner(a, by)
  /\ u \in Verified /\ members[u] = NotMember
  /\ admin' = [admin EXCEPT ![a] = [op |-> "add", user |-> u, role |-> role]]
  /\ UNCHANGED <<alive, members, ticket, tab, entry, past>>

(* Mutant: the row's foreign key to the workspace is missing.               *)
CanInsertMutant(u) == members[u] = NotMember

(* The unique index and the workspace's foreign key let the insert in.      *)
CanInsert(u) == alive /\ members[u] = NotMember

AddCommit(a) ==
  LET u == admin[a].user IN
  /\ admin[a].op = "add"
  /\ IF CanInsert(u)
       THEN /\ members' = [members EXCEPT ![u] = [role |-> admin[a].role,
                                                  row |-> count.row + 1]]
            /\ count' = [count EXCEPT !.row = @ + 1]
       ELSE UNCHANGED <<members, count>>
  /\ admin' = [admin EXCEPT ![a] = Idle]
  /\ UNCHANGED <<alive, ticket, tab, entry, past>>

(* Not the workspace's owner, and a member.                                 *)
Removable(u) == u # Owner /\ members[u] # NotMember

(* remove_member: the row is read, then deleted by its id.                  *)
RemoveStart(a, by, u) ==
  /\ RequireOwner(a, by)
  /\ Removable(u)
  /\ admin' = [admin EXCEPT ![a] = [op |-> "remove", user |-> u,
                                    row |-> members[u].row]]
  /\ UNCHANGED <<alive, members, ticket, tab, entry, past>>

(* Mutant: the delete names the user, not the row it read.                  *)
RemoveCommitByUser(a) ==
  /\ admin[a].op = "remove"
  /\ members' = [members EXCEPT ![admin[a].user] = NotMember]
  /\ admin' = [admin EXCEPT ![a] = Idle]
  /\ UNCHANGED <<alive, ticket, tab, entry, count, past>>

RemoveCommit(a) ==
  LET u == admin[a].user IN
  /\ admin[a].op = "remove"
  /\ members' = IF members[u].row = admin[a].row
                  THEN [members EXCEPT ![u] = NotMember] ELSE members
  /\ admin' = [admin EXCEPT ![a] = Idle]
  /\ UNCHANGED <<alive, ticket, tab, entry, count, past>>

(* delete_workspace: members and documents go with it by cascade.           *)
DeleteWorkspace(a, by) ==
  /\ alive /\ RequireOwner(a, by)
  /\ alive' = FALSE
  /\ members' = [u \in Users |-> NotMember]
  /\ admin' = [admin EXCEPT ![a] = [op |-> "announce"]]
  /\ UNCHANGED <<ticket, tab, entry, past>>

Joined == {c \in Tabs : tab[c].pc \in {"live", "touch", "sweep", "expire"}}

(* Every socket that has joined is told `deleted`, and closes.              *)
AnnounceDeleted(a) ==
  /\ admin[a].op = "announce"
  /\ tab' = [c \in Tabs |-> IF c \in Joined THEN [tab[c] EXCEPT !.pc = "leave"] ELSE tab[c]]
  /\ admin' = [admin EXCEPT ![a] = Idle]
  /\ UNCHANGED <<alive, members, ticket, entry, count, past>>

-----------------------------------------------------------------------------
(* Tickets and the handshake.                                               *)

Goes(c, pc) == tab' = [tab EXCEPT ![c].pc = pc]
Closes(c) == tab' = [tab EXCEPT ![c] = Closed]

(* create_ws_ticket: none for a document the caller cannot open.            *)
Issue(t, u) ==
  /\ t \notin past.minted
  /\ alive /\ members[u] # NotMember
  /\ ticket' = [ticket EXCEPT ![t] = u]
  /\ past' = [past EXCEPT !.minted = @ \cup {t}]
  /\ UNCHANGED <<workspace, tab, entry>>

Expire(t) ==
  /\ ticket[t] # Nobody
  /\ ticket' = [ticket EXCEPT ![t] = Nobody]
  /\ UNCHANGED <<workspace, tab, entry, past>>

(* Mutant: GET, so that the ticket stays.                                   *)
SpentMutant(t) == ticket

(* GETDEL: of the sockets that present a ticket, one reads it.              *)
Spent(t) == [ticket EXCEPT ![t] = Nobody]

Redeem(c, t) ==
  /\ tab[c].pc = "new" /\ t \in past.minted
  /\ ticket' = Spent(t)
  /\ tab' = [tab EXCEPT ![c] = IF ticket[t] = Nobody THEN Closed
               ELSE [pc |-> "check", user |-> ticket[t], ticket |-> t]]
  /\ UNCHANGED <<workspace, entry, past>>

(* Mutant: the ticket alone is enough.                                      *)
AdmittedMutant(u) == TRUE

(* get_document_for_user: access is re-read, whatever it was at minting.    *)
Admitted(u) == alive /\ members[u] # NotMember

Check(c) ==
  /\ tab[c].pc = "check"
  /\ IF Admitted(tab[c].user)
       THEN /\ tab' = [tab EXCEPT ![c] = [pc |-> "init", user |-> tab[c].user,
                                          role |-> members[tab[c].user].role]]
            /\ past' = [past EXCEPT !.opened[tab[c].ticket] = @ + 1]
       ELSE Closes(c) /\ UNCHANGED past
  /\ UNCHANGED <<workspace, ticket, entry>>

-----------------------------------------------------------------------------
(* The session and its presence.                                            *)

(* _schema_matches and _send_init: closed for another schema or when the    *)
(* document is gone, else the hub and the first touch.                      *)
SendInit(c) ==
  /\ tab[c].pc = "init"
  /\ \/ alive /\ Goes(c, "touch")
     \/ Goes(c, "leave")
  /\ UNCHANGED <<workspace, ticket, entry, past>>

(* touch: HSET, whichever of the user's tabs wrote before.                  *)
Touched(c) == [entry EXCEPT ![tab[c].user] = [tab |-> c, fresh |-> TRUE]]

TouchPresence(c) ==
  /\ tab[c].pc = "touch"
  /\ entry' = Touched(c)
  /\ Goes(c, "live")
  /\ UNCHANGED <<workspace, ticket, past>>

(* A ping touches, then expires stale peers; a cursor only touches.         *)
HandleCursor(c) ==
  /\ tab[c].pc = "live"
  /\ Goes(c, "touch")
  /\ UNCHANGED <<workspace, ticket, entry, past>>

(* Mutant: a ping only sweeps.                                              *)
HandlePingOnlySweeps(c) ==
  /\ tab[c].pc = "live"
  /\ Goes(c, "sweep")
  /\ UNCHANGED <<workspace, ticket, entry, past>>

HandlePing(c) ==
  /\ tab[c].pc = "live"
  /\ entry' = Touched(c)
  /\ Goes(c, "sweep")
  /\ UNCHANGED <<workspace, ticket, past>>

(* Mutant: the sweeper's entry is the only one it looks at.                 *)
LapsedMutant == {}

(* peers() and sweep() decide by expires_at.                                *)
Lapsed == {u \in Users : entry[u] # NoEntry /\ ~entry[u].fresh}

(* sweep: HGETALL ...                                                       *)
SweepRead(c) ==
  /\ tab[c].pc = "sweep"
  /\ tab' = [tab EXCEPT ![c] = [pc |-> "expire", user |-> tab[c].user,
                                role |-> tab[c].role, gone |-> Lapsed]]
  /\ UNCHANGED <<workspace, ticket, entry, past>>

(* ... then HDEL of the users found, and a `peer_left` for each.            *)
SweepDelete(c) ==
  /\ tab[c].pc = "expire"
  /\ entry' = [u \in Users |-> IF u \in tab[c].gone THEN NoEntry ELSE entry[u]]
  /\ tab' = [tab EXCEPT ![c] = [pc |-> "live", user |-> tab[c].user,
                                role |-> tab[c].role]]
  /\ UNCHANGED <<workspace, ticket, past>>

(* _handle_edit: refused below editor; a document that is gone closes.      *)
HandleEdit(c) ==
  /\ tab[c].pc = "live" /\ Satisfies(tab[c].role, "editor") /\ ~alive
  /\ Goes(c, "leave")
  /\ UNCHANGED <<workspace, ticket, entry, past>>

(* The client goes, is idle too long or sends what closes the socket.       *)
Disconnect(c) ==
  /\ tab[c].pc = "live"
  /\ Goes(c, "leave")
  /\ UNCHANGED <<workspace, ticket, entry, past>>

(* leave: the entry is there and was written by this connection.            *)
Owns(c) == entry[tab[c].user].tab = c

(* leave: HGET and compare ...                                              *)
LeaveRead(c) ==
  /\ tab[c].pc = "leave"
  /\ IF Owns(c) THEN Goes(c, "clear") ELSE Closes(c)
  /\ UNCHANGED <<workspace, ticket, entry, past>>

(* ... then HDEL, and a `peer_left`.                                        *)
LeaveDelete(c) ==
  /\ tab[c].pc = "clear"
  /\ entry' = [entry EXCEPT ![tab[c].user] = NoEntry]
  /\ Closes(c)
  /\ UNCHANGED <<workspace, ticket, past>>

(* The process dies, or Redis does not answer within the cleanup deadline.  *)
Crash(c) ==
  /\ tab[c].pc \notin {"new", "closed"}
  /\ Closes(c)
  /\ UNCHANGED <<workspace, ticket, entry, past>>

(* expires_at passes; peers() no longer shows the entry.                    *)
Lapse(u) ==
  /\ Shown(u)
  /\ entry' = [entry EXCEPT ![u].fresh = FALSE]
  /\ UNCHANGED <<workspace, ticket, tab, past>>

-----------------------------------------------------------------------------
(* create_workspace made the workspace and its owner's membership in one    *)
(* commit; some members have been added since.                              *)
Init ==
  /\ alive = TRUE
  /\ members = [u \in Users |-> CASE u = Owner -> [role |-> "owner", row |-> 1]
                                  [] u \in Editors -> [role |-> "editor", row |-> 1]
                                  [] OTHER -> NotMember]
  /\ ticket = [t \in Tickets |-> Nobody]
  /\ tab = [c \in Tabs |-> [pc |-> "new"]]
  /\ entry = [u \in Users |-> NoEntry]
  /\ admin = [a \in Admins |-> Idle]
  /\ count = [changes |-> 0, row |-> 1]
  /\ past = [minted |-> {}, opened |-> [t \in Tickets |-> 0]]

(* The steps a request or a session takes by itself.                        *)
SessionStep(c) ==
  \/ Check(c) \/ SendInit(c) \/ TouchPresence(c)
  \/ SweepRead(c) \/ SweepDelete(c) \/ LeaveRead(c) \/ LeaveDelete(c)

AdminStep(a) == AddCommit(a) \/ RemoveCommit(a) \/ AnnounceDeleted(a)

Next ==
  \/ \E a \in Admins, by \in Users :
       \/ \E u \in Users, role \in Given : AddStart(a, by, u, role)
       \/ \E u \in Users : RemoveStart(a, by, u)
       \/ DeleteWorkspace(a, by)
  \/ \E a \in Admins : AdminStep(a)
  \/ \E t \in Tickets : Expire(t) \/ \E u \in Users : Issue(t, u)
  \/ \E c \in Tabs, t \in Tickets : Redeem(c, t)
  \/ \E c \in Tabs : \/ SessionStep(c) \/ HandlePing(c) \/ HandleCursor(c) \/ HandleEdit(c)
                     \/ Disconnect(c) \/ Crash(c)
  \/ \E u \in Users : Lapse(u)

(* Requests and sessions go on, and time passes.  The client's ping timer   *)
(* runs whatever cursors it sends between, so pings keep coming: strong     *)
(* fairness.  Users and administrators are free to do nothing, crashes too. *)
Fairness ==
  /\ \A c \in Tabs : WF_vars(SessionStep(c)) /\ SF_vars(HandlePing(c))
  /\ \A a \in Admins : WF_vars(AdminStep(a))
  /\ \A u \in Users : WF_vars(Lapse(u))

Spec == Init /\ [][Next]_vars /\ Fairness

-----------------------------------------------------------------------------
(* What should hold.                                                        *)

(* Every variable has its type, and no row outlives the workspace.          *)
TypeOK ==
  /\ alive \in BOOLEAN
  /\ members \in [Users -> IF alive THEN WorkspaceMember \cup {NotMember} ELSE {NotMember}]
  /\ ticket \in [Tickets -> Users \cup {Nobody}]
  /\ entry \in [Users -> [tab : Tabs \cup {Nobody}, fresh : BOOLEAN]]
  /\ count \in [changes : 0..MaxChanges, row : Nat]

(* A ticket lets at most one socket in, though several present it at once   *)
(* (ws_tickets.py: "is redeemed once (GETDEL is atomic)").                  *)
TicketOpensOnce == \A t \in Tickets : past.opened[t] <= 1

(* A socket is let in only while its user is a member: a removal, or the    *)
(* end of the workspace, since the ticket was minted is honoured (_redeem). *)
RevocationHonoured ==
  [][\A c \in Tabs : tab[c].pc # "init" /\ tab'[c].pc = "init"
       => alive /\ members[tab'[c].user].role = tab'[c].role]_vars

(* A removal ends the membership it found, never one made since: a member   *)
(* removed twice and added again in between stays (remove_member).          *)
RemovalSparesNewRow ==
  [][\A a \in Admins : admin[a].op = "remove" /\ admin'[a] = Idle
       => LET u == admin[a].user IN
          members[u].row > admin[a].row => members'[u] = members[u]]_vars

Open(u) == \E c \in Joined : tab[c].user = u

(* A user with an open tab who is missing from the hash comes back, though  *)
(* another tab's leave, or a sweep that read before the heartbeat, deleted  *)
(* the entry (presence.leave: "gets its entry back on its next heartbeat"). *)
EntryComesBack == \A u \in Users : Open(u) ~> (Shown(u) \/ ~Open(u))

(* A user whose tabs are all gone leaves the hash, even when they died      *)
(* without closing, as long as somebody is left to sweep (presence.py:      *)
(* "lapsed entries left by sockets that died").                             *)
GhostsAreSwept ==
  \A u \in Users : entry[u] # NoEntry ~> (entry[u] = NoEntry \/ Open(u) \/ Joined = {})
=============================================================================
