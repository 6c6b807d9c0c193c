--------------------------- MODULE Access_proofs ---------------------------
(***************************************************************************)
(* Proofs about Access, for every set of users, tickets, tabs and           *)
(* membership requests.                                                     *)
(***************************************************************************)
EXTENDS Access, TLAPS

-----------------------------------------------------------------------------
(* What a socket and a membership request can be.                           *)

OnItsWay == [pc : {"check"}, user : Users, ticket : Tickets]
InSession == [pc : {"init", "touch", "live", "sweep", "leave", "clear"}, user : Users,
              role : Roles]
Sweeping == [pc : {"expire", "leave", "clear"}, user : Users, role : Roles,
             gone : SUBSET Users]
Tab == [pc : {"new", "closed"}] \cup OnItsWay \cup InSession \cup Sweeping

Adding == [op : {"add"}, user : Users, role : Roles]
Removing == [op : {"remove"}, user : Users, row : Nat]
Request == [op : {"idle", "announce"}] \cup Adding \cup Removing

(* TypeOK with the parts it leaves out.                                     *)
TypeInv ==
  /\ TypeOK
  /\ tab \in [Tabs -> Tab]
  /\ admin \in [Admins -> Request]
  /\ past \in [minted : SUBSET Tickets, opened : [Tickets -> Nat]]

(* A ticket is in one place: not minted, in Redis, with the one socket that *)
(* read it, or used up.                                                     *)
Carries(c, t) == tab[c].pc = "check" /\ tab[c].ticket = t

TicketInOnePlace ==
  \A t \in Tickets :
    /\ past.opened[t] <= 1
    /\ t \notin past.minted => ticket[t] = Nobody
    /\ t \notin past.minted \/ ticket[t] # Nobody
         => past.opened[t] = 0 /\ \A c \in Tabs : ~Carries(c, t)
    /\ \A c \in Tabs : Carries(c, t) => past.opened[t] = 0
    /\ \A c, d \in Tabs : Carries(c, t) /\ Carries(d, t) => c = d

IInv == TypeInv /\ TicketInOnePlace

-----------------------------------------------------------------------------
(* Type correctness.                                                        *)

(* The workspace create_workspace leaves has every type.                   *)
LEMMA InitTypeInv == Init => TypeInv
BY AccessAssumption DEF Init, TypeInv, TypeOK, Tab, Request, WorkspaceMember, NotMember, Roles,
   NoEntry, Idle

(* The requests that check the caller's role, and delete_workspace, keep    *)
(* every type.                                                              *)
LEMMA MemberStepTypes ==
  ASSUME TypeInv, NEW a \in Admins, NEW by \in Users, NEW u \in Users, NEW role,
         \/ role \in Given /\ AddStart(a, by, u, role)
         \/ RemoveStart(a, by, u) \/ DeleteWorkspace(a, by)
  PROVE  TypeInv'
<1> USE DEF TypeInv, TypeOK
<1>1. CASE role \in Given /\ AddStart(a, by, u, role)
  BY <1>1, AccessAssumption DEF AddStart, RequireOwner, Request, Adding, Roles
<1>2. CASE RemoveStart(a, by, u)
  BY <1>2, AccessAssumption DEF RemoveStart, RequireOwner, Removable, Request, Removing, WorkspaceMember
<1>3. CASE DeleteWorkspace(a, by)
  <2>1. alive' = FALSE /\ members' \in [Users -> {NotMember}]
    BY <1>3 DEF DeleteWorkspace
  <2>2. admin' \in [Admins -> Request] /\ count' \in [changes : 0..MaxChanges, row : Nat]
    BY <1>3, AccessAssumption DEF DeleteWorkspace, RequireOwner, Request
  <2>3. QED
    BY <1>3, <2>1, <2>2, Zenon DEF DeleteWorkspace
<1>4. QED
  BY <1>1, <1>2, <1>3

(* So do the commits of add_member and remove_member and the announcement.  *)
LEMMA AdminStepTypes ==
  ASSUME TypeInv, NEW a \in Admins, AdminStep(a)
  PROVE  TypeInv'
<1> USE DEF TypeInv, TypeOK
<1>1. CASE AddCommit(a)
  <2>1. CASE CanInsert(admin[a].user)
    <3>1. admin[a].user \in Users /\ admin[a].role \in Roles
      BY <1>1 DEF AddCommit, Request, Adding, Removing
    <3>2. [role |-> admin[a].role, row |-> count.row + 1] \in WorkspaceMember
      BY <3>1 DEF WorkspaceMember
    <3>3. alive /\ members' \in [Users -> WorkspaceMember \cup {NotMember}]
      BY <1>1, <2>1, <3>1, <3>2 DEF AddCommit, CanInsert
    <3>4. count' \in [changes : 0..MaxChanges, row : Nat] /\ admin' \in [Admins -> Request]
      BY <1>1, <2>1 DEF AddCommit, Request, Idle
    <3>5. QED
      BY <1>1, <3>3, <3>4, Zenon DEF AddCommit
  <2>2. CASE ~CanInsert(admin[a].user)
    <3>1. admin' \in [Admins -> Request]
      BY <1>1 DEF AddCommit, Request, Idle
    <3>2. QED
      BY <1>1, <2>2, <3>1, Zenon DEF AddCommit
  <2>3. QED
    BY <2>1, <2>2
<1>2. CASE RemoveCommit(a)
  BY <1>2 DEF RemoveCommit, Request, Removing, Adding, Idle
<1>3. CASE AnnounceDeleted(a)
  <2>1. tab' \in [Tabs -> Tab]
    BY <1>3 DEF AnnounceDeleted, Joined, Tab, InSession, Sweeping, OnItsWay
  <2>2. admin' \in [Admins -> Request]
    BY <1>3 DEF AnnounceDeleted, Request, Idle
  <2>3. QED
    BY <1>3, <2>1, <2>2, Zenon DEF AnnounceDeleted
<1>4. QED
  BY <1>1, <1>2, <1>3 DEF AdminStep

(* So do a ticket's minting and expiry, its GETDEL and the check behind it. *)
LEMMA TicketStepTypes ==
  ASSUME TypeInv, NEW t, NEW u, NEW c,
         \/ t \in Tickets /\ u \in Users /\ Issue(t, u)
         \/ t \in Tickets /\ Expire(t)
         \/ t \in Tickets /\ c \in Tabs /\ Redeem(c, t)
         \/ c \in Tabs /\ Check(c)
  PROVE  TypeInv'
<1> USE DEF TypeInv, TypeOK, workspace
<1>1. CASE t \in Tickets /\ u \in Users /\ Issue(t, u)
  BY <1>1 DEF Issue
<1>2. CASE t \in Tickets /\ Expire(t)
  BY <1>2 DEF Expire
<1>3. CASE t \in Tickets /\ c \in Tabs /\ Redeem(c, t)
  <2>1. tab' \in [Tabs -> Tab]
    BY <1>3 DEF Redeem, Tab, OnItsWay, Closed
  <2>2. ticket' \in [Tickets -> Users \cup {Nobody}]
    BY <1>3 DEF Redeem, Spent
  <2>3. QED
    BY <1>3, <2>1, <2>2, Zenon DEF Redeem
<1>4. CASE c \in Tabs /\ Check(c)
  <2>1. tab[c] \in OnItsWay
    BY <1>4 DEF Check, Tab, OnItsWay, InSession, Sweeping
  <2>2. tab[c].user \in Users /\ tab[c].ticket \in Tickets
    BY <2>1 DEF OnItsWay
  <2>3. CASE Admitted(tab[c].user)
    <3>1. members[tab[c].user].role \in Roles
      BY <2>2, <2>3 DEF Admitted, WorkspaceMember
    <3>2. tab' \in [Tabs -> Tab]
      BY <1>4, <2>2, <2>3, <3>1 DEF Check, Tab, InSession
    <3>3. past' \in [minted : SUBSET Tickets, opened : [Tickets -> Nat]]
      BY <1>4, <2>2, <2>3 DEF Check
    <3>4. QED
      BY <1>4, <3>2, <3>3, Zenon DEF Check
  <2>4. CASE ~Admitted(tab[c].user)
    <3>1. tab' \in [Tabs -> Tab]
      BY <1>4, <2>4 DEF Check, Closes, Tab, Closed
    <3>2. QED
      BY <1>4, <2>4, <3>1, Zenon DEF Check
  <2>5. QED
    BY <2>3, <2>4
<1>5. QED
  BY <1>1, <1>2, <1>3, <1>4

(* A socket past the check has a user and a role.                           *)
LEMMA SessionShape ==
  ASSUME TypeInv, NEW c \in Tabs
  PROVE  /\ tab[c].pc \in {"init", "touch", "live", "sweep"} => tab[c] \in InSession
         /\ tab[c].pc = "expire" => tab[c] \in Sweeping
         /\ tab[c].pc \in {"leave", "clear"} => tab[c] \in InSession \cup Sweeping
         /\ tab[c].pc \notin {"new", "closed"} => tab[c].user \in Users
<1>1. tab[c] \in Tab
  BY DEF TypeInv
<1>2. QED
  BY <1>1 DEF Tab, OnItsWay, InSession, Sweeping

(* A session that only moves its program counter keeps its types.           *)
LEMMA GoesTypes ==
  ASSUME TypeInv, NEW c \in Tabs, NEW pc, Goes(c, pc),
         \/ tab[c] \in InSession /\ pc \in {"touch", "live", "sweep", "leave", "clear"}
         \/ tab[c] \in Sweeping /\ pc \in {"leave", "clear"}
  PROVE  tab' \in [Tabs -> Tab]
<1>1. [tab[c] EXCEPT !.pc = pc] \in Tab
  BY DEF Tab, InSession, Sweeping
<1>2. tab' = [tab EXCEPT ![c] = [tab[c] EXCEPT !.pc = pc]]
  BY DEF Goes
<1>3. QED
  BY <1>1, <1>2 DEF TypeInv

(* So does one that closes.                                                 *)
LEMMA ClosesTypes ==
  ASSUME TypeInv, NEW c \in Tabs, Closes(c)
  PROVE  tab' \in [Tabs -> Tab]
BY DEF TypeInv, Closes, Closed, Tab

(* A write or a delete in the presence hash keeps its type.                 *)
LEMMA EntryTypes ==
  ASSUME TypeInv, NEW c \in Tabs, NEW u \in Users
  PROVE  /\ tab[c].user \in Users =>
              Touched(c) \in [Users -> [tab : Tabs \cup {Nobody}, fresh : BOOLEAN]]
         /\ [entry EXCEPT ![u] = NoEntry]
              \in [Users -> [tab : Tabs \cup {Nobody}, fresh : BOOLEAN]]
         /\ [entry EXCEPT ![u].fresh = FALSE]
              \in [Users -> [tab : Tabs \cup {Nobody}, fresh : BOOLEAN]]
BY DEF TypeInv, TypeOK, Touched, NoEntry

(* What a session does once it is let in keeps every type.                  *)
LEMMA SessionStepTypes ==
  ASSUME TypeInv, NEW c \in Tabs,
         \/ SendInit(c) \/ TouchPresence(c) \/ HandlePing(c) \/ HandleCursor(c)
         \/ HandleEdit(c) \/ Disconnect(c) \/ LeaveRead(c) \/ LeaveDelete(c)
         \/ SweepRead(c) \/ SweepDelete(c) \/ Crash(c)
  PROVE  TypeInv'
<1> DEFINE Entries == [Users -> [tab : Tabs \cup {Nobody}, fresh : BOOLEAN]]
<1>1. tab' \in [Tabs -> Tab] /\ entry' \in Entries /\ UNCHANGED <<workspace, ticket, past>>
  <2>1. CASE SendInit(c) \/ HandleCursor(c) \/ HandleEdit(c) \/ Disconnect(c)
    <3>1. tab[c] \in InSession
      BY <2>1, SessionShape DEF SendInit, HandleCursor, HandleEdit, Disconnect
    <3>2. (Goes(c, "touch") \/ Goes(c, "leave")) /\ UNCHANGED <<workspace, ticket, entry, past>>
      BY <2>1 DEF SendInit, HandleCursor, HandleEdit, Disconnect
    <3>3. QED
      BY <3>1, <3>2, GoesTypes DEF TypeInv, TypeOK
  <2>2. CASE TouchPresence(c) \/ HandlePing(c)
    <3>1. tab[c] \in InSession /\ tab[c].user \in Users
      BY <2>2, SessionShape DEF TouchPresence, HandlePing
    <3>2. /\ Goes(c, "live") \/ Goes(c, "sweep")
          /\ entry' = Touched(c) /\ UNCHANGED <<workspace, ticket, past>>
      BY <2>2 DEF TouchPresence, HandlePing
    <3>3. QED
      BY <3>1, <3>2, GoesTypes, EntryTypes
  <2>3. CASE LeaveRead(c)
    <3>1. tab[c] \in InSession \cup Sweeping
      BY <2>3, SessionShape DEF LeaveRead
    <3>2. (Goes(c, "clear") \/ Closes(c)) /\ UNCHANGED <<workspace, ticket, entry, past>>
      BY <2>3 DEF LeaveRead
    <3>3. QED
      BY <3>1, <3>2, GoesTypes, ClosesTypes DEF TypeInv, TypeOK
  <2>4. CASE LeaveDelete(c)
    <3>1. tab[c].user \in Users
      BY <2>4, SessionShape DEF LeaveDelete
    <3>2. QED
      BY <2>4, <3>1, ClosesTypes, EntryTypes DEF LeaveDelete
  <2>5. CASE SweepRead(c)
    <3>1. tab[c] \in InSession
      BY <2>5, SessionShape DEF SweepRead
    <3>2. [pc |-> "expire", user |-> tab[c].user, role |-> tab[c].role, gone |-> Lapsed] \in Tab
      BY <3>1 DEF InSession, Sweeping, Tab, Lapsed
    <3>3. QED
      BY <2>5, <3>2 DEF SweepRead, TypeInv, TypeOK
  <2>6. CASE SweepDelete(c)
    <3>1. tab[c] \in Sweeping
      BY <2>6, SessionShape DEF SweepDelete
    <3>2. [pc |-> "live", user |-> tab[c].user, role |-> tab[c].role] \in Tab
      BY <3>1 DEF InSession, Sweeping, Tab
    <3>3. entry' \in Entries
      BY <2>6 DEF SweepDelete, TypeInv, TypeOK, NoEntry
    <3>4. QED
      BY <2>6, <3>2, <3>3 DEF SweepDelete, TypeInv
  <2>7. CASE Crash(c)
    BY <2>7, ClosesTypes DEF Crash, TypeInv, TypeOK
  <2>8. QED
    BY <2>1, <2>2, <2>3, <2>4, <2>5, <2>6, <2>7
<1>2. QED
  BY <1>1, Zenon DEF TypeInv, TypeOK, workspace

(* Every step keeps every type.                                             *)
LEMMA NextTypeInv == TypeInv /\ [Next]_vars => TypeInv'
<1> SUFFICES ASSUME TypeInv, [Next]_vars PROVE TypeInv'
  OBVIOUS
<1>1. CASE UNCHANGED vars
  BY <1>1, Zenon DEF vars, TypeInv, TypeOK
<1>2. CASE Next
  <2>1. CASE \E a \in Admins, by \in Users :
                \/ \E u \in Users, role \in Given : AddStart(a, by, u, role)
                \/ \E u \in Users : RemoveStart(a, by, u)
                \/ DeleteWorkspace(a, by)
    BY <2>1, MemberStepTypes
  <2>2. CASE \E a \in Admins : AdminStep(a)
    BY <2>2, AdminStepTypes
  <2>3. CASE \/ \E t \in Tickets : Expire(t) \/ \E u \in Users : Issue(t, u)
             \/ \E c \in Tabs, t \in Tickets : Redeem(c, t)
             \/ \E c \in Tabs : Check(c)
    BY <2>3, TicketStepTypes
  <2>4. ASSUME NEW c \in Tabs,
               \/ SendInit(c) \/ TouchPresence(c) \/ HandlePing(c) \/ HandleCursor(c)
               \/ HandleEdit(c) \/ Disconnect(c) \/ LeaveRead(c) \/ LeaveDelete(c)
               \/ SweepRead(c) \/ SweepDelete(c) \/ Crash(c)
        PROVE  TypeInv'
    BY <2>4, SessionStepTypes
  <2>5. ASSUME NEW u \in Users, Lapse(u)
        PROVE  TypeInv'
    <3>1. entry' \in [Users -> [tab : Tabs \cup {Nobody}, fresh : BOOLEAN]]
      BY <2>5 DEF Lapse, TypeInv, TypeOK
    <3>2. QED
      BY <2>5, <3>1, Zenon DEF Lapse, TypeInv, TypeOK, workspace
  <2>6. QED
    BY <1>2, <2>1, <2>2, <2>3, <2>4, <2>5, Zenon DEF Next, SessionStep
<1>3. QED
  BY <1>1, <1>2

(* Type correctness: the rows, tickets and presence entries of Access stay  *)
(* well formed, and no membership outlives its workspace.                   *)
THEOREM TypeCorrect == Spec => []TypeOK
<1>1. TypeInv => TypeOK
  BY DEF TypeInv
<1>2. QED
  BY <1>1, InitTypeInv, NextTypeInv, PTL DEF Spec

-----------------------------------------------------------------------------
(* A ticket is used once.                                                   *)

(* The steps that mint, spend or check no ticket leave each where it is.    *)
LEMMA OtherStepsLeaveTickets ==
  ASSUME IInv, UNCHANGED <<ticket, past>>,
         \A c \in Tabs : tab'[c].pc = "check" => tab'[c] = tab[c]
  PROVE  TicketInOnePlace'
BY DEF IInv, TicketInOnePlace, Carries

(* A step of Next mints, spends or checks a ticket, or is one of those; the *)
(* check is the only step that lets a socket in.                            *)
LEMMA NextTickets ==
  ASSUME IInv, Next
  PROVE  \/ \E t \in Tickets : Expire(t) \/ \E u \in Users : Issue(t, u)
         \/ \E c \in Tabs, t \in Tickets : Redeem(c, t)
         \/ \E c \in Tabs : Check(c)
         \/ /\ UNCHANGED <<ticket, past>>
            /\ \A c \in Tabs : tab'[c].pc \in {"check", "init"} => tab'[c] = tab[c]
<1> USE DEF IInv, TypeInv
<1>1. ASSUME NEW a \in Admins, NEW by \in Users, NEW u \in Users, NEW role,
             AddStart(a, by, u, role) \/ RemoveStart(a, by, u) \/ DeleteWorkspace(a, by)
      PROVE  UNCHANGED <<ticket, past, tab>>
  BY <1>1 DEF AddStart, RemoveStart, DeleteWorkspace
<1>2. ASSUME NEW a \in Admins, AddCommit(a) \/ RemoveCommit(a)
      PROVE  UNCHANGED <<ticket, past, tab>>
  BY <1>2 DEF AddCommit, RemoveCommit
<1>3. ASSUME NEW a \in Admins, AnnounceDeleted(a)
      PROVE  /\ UNCHANGED <<ticket, past>>
             /\ \A c \in Tabs : tab'[c].pc \in {"check", "init"} => tab'[c] = tab[c]
  BY <1>3 DEF AnnounceDeleted, Joined
<1>4. ASSUME NEW c \in Tabs,
             \/ SendInit(c) \/ TouchPresence(c) \/ HandlePing(c) \/ HandleCursor(c)
             \/ HandleEdit(c) \/ Disconnect(c) \/ LeaveRead(c) \/ LeaveDelete(c)
             \/ SweepRead(c) \/ SweepDelete(c) \/ Crash(c)
      PROVE  /\ UNCHANGED <<ticket, past>>
             /\ \A d \in Tabs : tab'[d].pc \in {"check", "init"} => tab'[d] = tab[d]
  <2>1. UNCHANGED <<ticket, past>>
    BY <1>4 DEF SendInit, TouchPresence, HandlePing, HandleCursor, HandleEdit, Disconnect,
       LeaveRead, LeaveDelete, SweepRead, SweepDelete, Crash
  <2>2. \E next : tab' = [tab EXCEPT ![c] = next] /\ next.pc \notin {"check", "init"}
    <3>1. CASE SweepRead(c) \/ SweepDelete(c)
      BY <3>1 DEF SweepRead, SweepDelete
    <3>2. CASE Closes(c)
      <4>1. Closed.pc \notin {"check", "init"}
        BY DEF Closed
      <4>2. QED
        BY <3>2, <4>1, Zenon DEF Closes
    <3>3. ASSUME NEW pc \in {"touch", "live", "sweep", "leave", "clear"}, Goes(c, pc),
                 tab[c] \in InSession \cup Sweeping
          PROVE  \E next : tab' = [tab EXCEPT ![c] = next] /\ next.pc \notin {"check", "init"}
      <4>1. tab' = [tab EXCEPT ![c] = [tab[c] EXCEPT !.pc = pc]]
        BY <3>3 DEF Goes
      <4>2. [tab[c] EXCEPT !.pc = pc].pc \notin {"check", "init"}
        BY <3>3 DEF InSession, Sweeping
      <4>3. QED
        BY <4>1, <4>2
    <3>4. QED
      BY <1>4, <3>1, <3>2, <3>3, SessionShape
         DEF SendInit, TouchPresence, HandlePing, HandleCursor, HandleEdit, Disconnect,
         LeaveRead, LeaveDelete, Crash
  <2>3. QED
    BY <2>1, <2>2
<1>5. ASSUME NEW u \in Users, Lapse(u)
      PROVE  UNCHANGED <<ticket, past, tab>>
  BY <1>5 DEF Lapse
<1>6. QED
  BY <1>1, <1>2, <1>3, <1>4, <1>5, Zenon DEF Next, SessionStep, AdminStep

(* Every step keeps each ticket in one place: GETDEL hands it to one socket *)
(* only, and the check that follows uses it up.                             *)
LEMMA NextTicketInOnePlace == IInv /\ [Next]_vars => TicketInOnePlace'
<1> SUFFICES ASSUME IInv, [Next]_vars PROVE TicketInOnePlace'
  OBVIOUS
<1> USE DEF IInv, TypeInv, TypeOK, workspace
<1>1. CASE UNCHANGED vars
  BY <1>1, OtherStepsLeaveTickets DEF vars
<1>2. ASSUME NEW t \in Tickets, NEW u \in Users, Issue(t, u)
      PROVE  TicketInOnePlace'
  BY <1>2, AccessAssumption DEF Issue, TicketInOnePlace, Carries
<1>3. ASSUME NEW t \in Tickets, Expire(t)
      PROVE  TicketInOnePlace'
  BY <1>3 DEF Expire, TicketInOnePlace, Carries
<1>4. ASSUME NEW c \in Tabs, NEW t \in Tickets, Redeem(c, t)
      PROVE  TicketInOnePlace'
  <2>1. \A d \in Tabs, s \in Tickets : Carries(d, s)' =>
           Carries(d, s) \/ (d = c /\ s = t /\ ticket[t] # Nobody)
    BY <1>4 DEF Redeem, Carries, Closed
  <2>2. \A s \in Tickets : ticket'[s] = IF s = t THEN Nobody ELSE ticket[s]
    BY <1>4 DEF Redeem, Spent
  <2>3. past' = past
    BY <1>4 DEF Redeem
  <2>4. t \in past.minted
    BY <1>4 DEF Redeem
  <2>5. QED
    BY <2>1, <2>2, <2>3, <2>4 DEF TicketInOnePlace
<1>5. ASSUME NEW c \in Tabs, Check(c)
      PROVE  TicketInOnePlace'
  <2>1. tab[c] \in OnItsWay /\ tab[c].ticket \in Tickets /\ Carries(c, tab[c].ticket)
    BY <1>5 DEF Check, Tab, OnItsWay, InSession, Sweeping, Carries
  <2>2. \A d \in Tabs, s \in Tickets : Carries(d, s)' => d # c /\ Carries(d, s)
    BY <1>5 DEF Check, Carries, Closes, Closed
  <2>3. ticket' = ticket
    BY <1>5 DEF Check
  <2>4. /\ past'.minted = past.minted
        /\ \A s \in Tickets : \/ past'.opened[s] = past.opened[s]
                              \/ s = tab[c].ticket /\ past'.opened[s] = past.opened[s] + 1
    BY <1>5, <2>1 DEF Check
  <2>5. \A s \in Tickets : past.opened[s] \in Nat
    OBVIOUS
  <2>6. past.opened[tab[c].ticket] = 0 /\ tab[c].ticket \in past.minted
          /\ ticket[tab[c].ticket] = Nobody
    BY <2>1 DEF TicketInOnePlace
  <2>7. \A d \in Tabs, s \in Tickets : s = tab[c].ticket => ~Carries(d, s)'
    BY <2>1, <2>2 DEF TicketInOnePlace
  <2>8. QED
    BY <2>1, <2>2, <2>3, <2>4, <2>5, <2>6, <2>7 DEF TicketInOnePlace
<1>6. QED
  BY <1>1, <1>2, <1>3, <1>4, <1>5, NextTickets, OtherStepsLeaveTickets

(* The types and the tickets' places together are an invariant.             *)
LEMMA Invariance == Spec => []IInv
<1>1. Init => IInv
  BY InitTypeInv DEF Init, IInv, TicketInOnePlace, Carries
<1>2. IInv /\ [Next]_vars => IInv'
  BY NextTypeInv, NextTicketInOnePlace DEF IInv
<1>3. QED
  BY <1>1, <1>2, PTL DEF Spec

(* A ticket lets at most one socket in, however many present it at once.    *)
THEOREM SingleUseTickets == Spec => []TicketOpensOnce
<1>1. IInv => TicketOpensOnce
  BY DEF IInv, TicketInOnePlace, TicketOpensOnce
<1>2. QED
  BY <1>1, Invariance, PTL

-----------------------------------------------------------------------------
(* Revocations and removals.                                                *)

(* A socket is let in by the check alone, on a membership that is there as  *)
(* it does: a removal between the minting and the handshake is honoured.    *)
THEOREM RevocationIsHonoured == Spec => RevocationHonoured
<1> DEFINE A == \A c \in Tabs : tab[c].pc # "init" /\ tab'[c].pc = "init"
                  => alive /\ members[tab'[c].user].role = tab'[c].role
<1>1. IInv /\ [Next]_vars => [A]_vars
  <2> SUFFICES ASSUME IInv, Next, NEW c \in Tabs, tab[c].pc # "init", tab'[c].pc = "init"
               PROVE  alive /\ members[tab'[c].user].role = tab'[c].role
    BY DEF A
  <2> USE DEF IInv, TypeInv
  <2>1. ASSUME NEW t \in Tickets, NEW u, Expire(t) \/ Issue(t, u)
        PROVE  FALSE
    BY <2>1 DEF Expire, Issue
  <2>2. ASSUME NEW d \in Tabs, NEW t \in Tickets, Redeem(d, t)
        PROVE  FALSE
    BY <2>2 DEF Redeem, Closed
  <2>3. ASSUME NEW d \in Tabs, Check(d)
        PROVE  alive /\ members[tab'[c].user].role = tab'[c].role
    BY <2>3 DEF Check, Closes, Closed, Admitted
  <2>4. QED
    BY <2>1, <2>2, <2>3, NextTickets
<1>2. QED
  BY <1>1, Invariance, PTL DEF Spec, RevocationHonoured, A

(* A removal deletes the row it read and no other: only its own commit ends *)
(* the request, and a row inserted since has a larger number.               *)
THEOREM RemovalIsOfOneRow == Spec => RemovalSparesNewRow
<1> DEFINE A == \A a \in Admins : admin[a].op = "remove" /\ admin'[a] = Idle
                  => LET u == admin[a].user IN
                     members[u].row > admin[a].row => members'[u] = members[u]
<1>1. IInv /\ [Next]_vars => [A]_vars
  <2> SUFFICES ASSUME IInv, Next, NEW a \in Admins, admin[a].op = "remove", admin'[a] = Idle,
                      members[admin[a].user].row > admin[a].row
               PROVE  members'[admin[a].user] = members[admin[a].user]
    BY DEF A
  <2>1. admin[a] \in Removing /\ admin[a] # Idle
    BY DEF IInv, TypeInv, Request, Adding, Removing, Idle
  <2>2. ASSUME NEW b \in Admins, NEW by \in Users, NEW u \in Users, NEW role,
               AddStart(b, by, u, role) \/ RemoveStart(b, by, u) \/ DeleteWorkspace(b, by)
        PROVE  FALSE
    BY <2>1, <2>2 DEF AddStart, RemoveStart, DeleteWorkspace, RequireOwner, IInv, TypeInv, Idle
  <2>3. ASSUME NEW b \in Admins, AddCommit(b) \/ AnnounceDeleted(b)
        PROVE  FALSE
    BY <2>1, <2>3 DEF AddCommit, AnnounceDeleted, IInv, TypeInv
  <2>4. ASSUME NEW b \in Admins, RemoveCommit(b)
        PROVE  members'[admin[a].user] = members[admin[a].user]
    <3>1. b = a
      BY <2>1, <2>4 DEF RemoveCommit, IInv, TypeInv
    <3>2. members[admin[a].user].row \in Nat /\ admin[a].row \in Nat
      BY <2>1 DEF IInv, TypeInv, TypeOK, Removing, WorkspaceMember, NotMember
    <3>3. QED
      BY <2>4, <3>1, <3>2 DEF RemoveCommit
  <2>5. CASE UNCHANGED admin
    BY <2>1, <2>5
  <2>6. QED
    <3>1. \/ \E b \in Admins, by \in Users :
               \/ \E u \in Users, role \in Given : AddStart(b, by, u, role)
               \/ \E u \in Users : RemoveStart(b, by, u)
               \/ DeleteWorkspace(b, by)
          \/ \E b \in Admins : AddCommit(b) \/ AnnounceDeleted(b) \/ RemoveCommit(b)
          \/ UNCHANGED admin
      <4>1. ASSUME NEW c \in Tabs, NEW t \in Tickets, Redeem(c, t)
            PROVE  UNCHANGED admin
        BY <4>1 DEF Redeem, workspace
      <4>2. ASSUME NEW t \in Tickets, NEW u, Expire(t) \/ Issue(t, u)
            PROVE  UNCHANGED admin
        BY <4>2 DEF Expire, Issue, workspace
      <4>3. ASSUME NEW c \in Tabs, \/ SessionStep(c) \/ HandlePing(c) \/ HandleCursor(c)
                                   \/ HandleEdit(c) \/ Disconnect(c) \/ Crash(c)
            PROVE  UNCHANGED admin
        BY <4>3 DEF SessionStep, Check, SendInit, TouchPresence, HandlePing, HandleCursor,
           HandleEdit, Disconnect, LeaveRead, LeaveDelete, SweepRead, SweepDelete, Crash, workspace
      <4>4. ASSUME NEW u \in Users, Lapse(u)
            PROVE  UNCHANGED admin
        BY <4>4 DEF Lapse, workspace
      <4>5. QED
        BY <4>1, <4>2, <4>3, <4>4, Zenon DEF Next, AdminStep
    <3>2. QED
      BY <2>2, <2>3, <2>4, <2>5, <3>1
<1>2. QED
  BY <1>1, Invariance, PTL DEF Spec, RemovalSparesNewRow, A
============================================================================
