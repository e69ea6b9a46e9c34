---------------------------- MODULE Organizations ----------------------------
(***************************************************************************)
(* Organizations (app_orgs.go in core and apis) of application users:      *)
(* a user creates one and owns it, owners and admins invite addresses, and *)
(* the user whose address it is accepts.  Every transaction holds the lock *)
(* of the users collection from its start and is one step; the handler     *)
(* reads the user, and so the address it compares, before that.            *)
(***************************************************************************)
EXTENDS AppSessions

CONSTANTS
  Orgs, NoRole,
  MaxInvitations, \* bound
  InviteRoles     \* those asked for: {"admin", "billing", "member", "viewer"} in the code

ASSUME OrganizationsAssumption ==
  /\ InviteRoles \subseteq {"admin", "billing", "member", "viewer"}
  /\ NoRole \notin {"owner", "admin", "billing", "member", "viewer"}
  /\ MaxInvitations \in Nat

VARIABLES
  orgs,         \* those that were created
  orgRole,      \* orgRole[o][u]: rows of the members table
  invitations,  \* rows of the invitations table
  accepting,    \* requests that have read their user: <<invitation, user, address>>
  (* history *)
  acceptances   \* invitations accepted, in order: <<invitation, user>>

orgVars == <<orgs, orgRole, invitations, accepting, acceptances>>

OrgTypeOK ==
  /\ orgs \subseteq Orgs
  /\ orgRole \in [Orgs -> [AppUsers -> InviteRoles \cup {"owner", NoRole}]]
  /\ \A i \in DOMAIN invitations :
       invitations[i] \in [org : Orgs, email : Emails, role : InviteRoles, accepted : BOOLEAN]
  /\ Len(invitations) <= MaxInvitations
  /\ accepting \subseteq (1 .. MaxInvitations) \X AppUsers \X Emails
  /\ \A i \in DOMAIN acceptances : acceptances[i] \in (1 .. MaxInvitations) \X AppUsers

OrgInit ==
  /\ orgs = {}
  /\ orgRole = [o \in Orgs |-> [u \in AppUsers |-> NoRole]]
  /\ invitations = <<>> /\ accepting = {} /\ acceptances = <<>>

Manages(o, u) == orgRole[o][u] \in {"owner", "admin"}

CreateOrganization(o, u) ==
  /\ o \notin orgs
  /\ AccessToken(u) /\ CollectionLockFree
  /\ orgs' = orgs \cup {o}
  /\ orgRole' = [orgRole EXCEPT ![o][u] = "owner"]
  /\ UNCHANGED <<appVars, invitations, accepting, acceptances>>

\* Not for an address that is a member's at the time.
CreateOrganizationInvitation(o, u, e, role) ==
  /\ Len(invitations) < MaxInvitations
  /\ AccessToken(u) /\ CollectionLockFree /\ Manages(o, u)
  /\ \A x \in AppUsers : appUsers[x].email = e => orgRole[o][x] = NoRole
  /\ invitations' = Append(invitations, [org |-> o, email |-> e, role |-> role, accepted |-> FALSE])
  /\ UNCHANGED <<appVars, orgs, orgRole, accepting, acceptances>>

AcceptRead(i, u) ==
  /\ AccessToken(u)
  /\ accepting' = accepting \cup {<<i, u, appUsers[u].email>>}
  /\ UNCHANGED <<appVars, orgs, orgRole, invitations, acceptances>>

Join(i, u) ==
  /\ orgRole' = [orgRole EXCEPT ![invitations[i].org][u] = invitations[i].role]
  /\ invitations' = [invitations EXCEPT ![i].accepted = TRUE]
  /\ acceptances' = Append(acceptances, <<i, u>>)

AcceptOrganizationInvitation_Again(a) ==
  LET i == a[1] u == a[2] e == a[3]
  IN /\ a \in accepting /\ CollectionLockFree
     /\ invitations[i].email = e
     /\ Len(acceptances) <= MaxInvitations
     /\ Join(i, u)
     /\ accepting' = accepting \ {a}
     /\ UNCHANGED <<appVars, orgs>>

\* A member already gets the invitation's role instead of its own.
AcceptOrganizationInvitation(a) ==
  LET i == a[1] u == a[2] e == a[3]
  IN /\ a \in accepting /\ CollectionLockFree
     /\ invitations[i].email = e /\ ~invitations[i].accepted
     /\ Join(i, u)
     /\ accepting' = accepting \ {a}
     /\ UNCHANGED <<appVars, orgs>>

AcceptFails(a) ==
  /\ a \in accepting
  /\ accepting' = accepting \ {a}
  /\ UNCHANGED <<appVars, orgs, orgRole, invitations, acceptances>>

OrgNext ==
  \/ \E o \in Orgs, u \in AppUsers :
       \/ CreateOrganization(o, u)
       \/ \E e \in Emails, role \in InviteRoles : CreateOrganizationInvitation(o, u, e, role)
  \/ \E i \in DOMAIN invitations, u \in AppUsers : AcceptRead(i, u)
  \/ \E a \in accepting : AcceptOrganizationInvitation(a) \/ AcceptFails(a)
  \/ AppNext /\ UNCHANGED orgVars

------------------------------------------------------------------------------
\* A role is the one of the last invitation its user accepted, and no invitation is accepted
\* twice: who was demoted by a new invitation cannot go back to an old one.
RoleIsLastAccepted ==
  \A o \in Orgs, u \in AppUsers :
    LET mine == {k \in DOMAIN acceptances :
                   acceptances[k][2] = u /\ invitations[acceptances[k][1]].org = o}
    IN /\ \A k, l \in mine : acceptances[k] = acceptances[l] => k = l
       /\ mine # {} => \E k \in mine : /\ \A l \in mine : l <= k
                                       /\ orgRole[o][u] = invitations[acceptances[k][1]].role
==============================================================================
