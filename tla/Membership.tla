----------------------------- MODULE Membership -----------------------------
(***************************************************************************)
(* Users, their workspaces, the members of workspaces and the invitation   *)
(* links: AuthService.register, UsersService.remove,                       *)
(* WorkspacesService.create, addMember, removeMember, remove,              *)
(* regenerateInviteToken and joinByToken.                                  *)
(*                                                                         *)
(* joinByToken is the handler whose awaits others can tell apart.  A user  *)
(* stands for its email and for the id of its personal workspace: register *)
(* makes both in one database transaction and nothing deletes the          *)
(* workspace but the deletion of its owner.  Ids of members tell nothing,  *)
(* so the table of members is a bag of rows.  The email, name and colour   *)
(* of a member are read by nothing here; percentages and salaries are the  *)
(* subject of PairwiseBalances.                                            *)
(***************************************************************************)
EXTENDS Integers, Bags, Handlers

CONSTANTS
    Users,
    SharedWorkspaces,   \* ids of workspaces that clients create
    MaxMembers,         \* bound: rows of members at a time
    MaxTokens           \* bound: invitation tokens given out

ASSUME MembershipAssumption ==
    /\ Users \cap SharedWorkspaces = {}
    /\ MaxMembers \in Nat /\ MaxTokens \in Nat
    /\ NULL \notin Users \cup SharedWorkspaces \cup Nat
    /\ NULL \notin [ownerId : Users, inviteToken : Nat \cup {NULL}]

WorkspaceIds == Users \cup SharedWorkspaces
Member == [workspaceId : WorkspaceIds, userId : Users \cup {NULL}]

VARIABLES
    users,      \* the users that are registered
    gone,       \* the ids of users and workspaces that were removed: never given again
    workspaceRow,   \* id -> [ownerId, inviteToken], or NULL
    member,     \* the bag of members
    issued,     \* how many invitation tokens were given out: none comes twice
    since       \* history: whether, since the handler began, its user was made
                \* a member of its workspace, or its workspace got a new link

userVars == <<users, gone>>
membershipTables == <<userVars, workspaceRow, member, issued, since>>
membershipVars == <<membershipTables, request>>

Exists(w) == workspaceRow[w] # NULL
IsMember(w, u) == \E m \in BagToSet(member) : m.workspaceId = w /\ m.userId = u

(* WorkspacesService.findOne: the workspace of an owner or of a member. *)
FindsOne(w, u) == Exists(w) /\ (workspaceRow[w].ownerId = u \/ IsMember(w, u))
OwnerActs(w) == \E u \in users : FindsOne(w, u) /\ workspaceRow[w].ownerId = u

NothingSince == [member |-> FALSE, link |-> FALSE]
Forgets(j) == Ends(j) /\ since' = [since EXCEPT ![j] = NothingSince]
Remember(madeMember(_, _), newLink(_)) ==
    since' = [j \in Requests |->
        LET h == request[j]
        IN  IF h = Idle THEN since[j]
            ELSE [member |-> request'[j].pc = "insert" /\ (since[j].member \/ madeMember(h.workspace, h.user)),
                  link |-> since[j].link \/ newLink(h.workspace)]]

-----------------------------------------------------------------------------
MembershipInit ==
    /\ users = {} /\ gone = {}
    /\ workspaceRow = [w \in WorkspaceIds |-> NULL]
    /\ member = EmptyBag
    /\ NobodyIn
    /\ issued = 0
    /\ since = [j \in Requests |-> NothingSince]

InsertMember(w, userId) ==
    /\ BagCardinality(member) < MaxMembers
    /\ member' = member (+) SetToBag({[workspaceId |-> w, userId |-> userId]})

(* Tokens are random, and inviteToken is unique: a new one each time. *)
NewLink(w, ownerId) ==
    /\ issued < MaxTokens
    /\ issued' = issued + 1
    /\ workspaceRow' = [workspaceRow EXCEPT ![w] = [ownerId |-> ownerId, inviteToken |-> issued']]

(* A workspace with its owner as a member: register for a personal one,     *)
(* WorkspacesService.create for a shared one.                               *)
InsertWorkspace(u, w) ==
    /\ ~Exists(w) /\ w \notin gone
    /\ NewLink(w, u)
    /\ InsertMember(w, u)
    /\ UNCHANGED <<gone, request, since>>

(* An email that registers anew gets another id: another user. *)
Register(u) ==
    /\ u \notin users \cup gone
    /\ users' = users \cup {u}
    /\ InsertWorkspace(u, u)

CreateWorkspace(u, w) ==
    /\ u \in users
    /\ InsertWorkspace(u, w)
    /\ UNCHANGED users

(* Fault: the memberships elsewhere keep the id of the user. *)
UnlinkedNot(m, u) == m

(* onDelete: SetNull. *)
Unlinked(m, u) == IF m.userId = u THEN [m EXCEPT !.userId = NULL] ELSE m

(* UsersService.remove: the owned workspaces go with their members; the     *)
(* memberships elsewhere stay, without the user.                            *)
RemoveUser(u) ==
    LET owned == {w \in WorkspaceIds : Exists(w) /\ workspaceRow[w].ownerId = u}
        kept == {m \in BagToSet(member) : m.workspaceId \notin owned}
        rows == {Unlinked(m, u) : m \in kept}
        copies(row) == BagOfAll(LAMBDA m : Unlinked(m, u), [m \in kept |-> member[m]])[row]
    IN  /\ u \in users
        /\ users' = users \ {u} /\ gone' = gone \cup {u} \cup owned
        /\ workspaceRow' = [w \in WorkspaceIds |-> IF w \in owned THEN NULL ELSE workspaceRow[w]]
        /\ member' = [row \in rows |-> copies(row)]
        /\ UNCHANGED <<request, issued, since>>

(* The owner adds an email, linked to its user if there is one by now, and  *)
(* also if that user is a member already.                                   *)
AddMember(w, email) ==
    /\ OwnerActs(w)
    /\ InsertMember(w, IF email \in users THEN email ELSE NULL)
    /\ UNCHANGED <<userVars, workspaceRow, request, issued>>
    /\ Remember(LAMBDA v, u : v = w /\ u = email /\ email \in users, LAMBDA v : FALSE)

(* removeMember deletes the row with the id it is given. *)
RemoveMember(w, m) ==
    /\ OwnerActs(w)
    /\ member' = member (-) SetToBag({m})
    /\ UNCHANGED <<userVars, workspaceRow, request, issued, since>>

RemoveWorkspace(w) ==
    /\ OwnerActs(w)
    /\ w \notin Users       \* isPersonal
    /\ workspaceRow' = [workspaceRow EXCEPT ![w] = NULL]
    /\ member' = [m \in {m \in BagToSet(member) : m.workspaceId # w} |-> member[m]]
    /\ gone' = gone \cup {w}
    /\ UNCHANGED <<users, request, issued, since>>

RegenerateInviteToken(w) ==
    /\ OwnerActs(w)
    /\ NewLink(w, workspaceRow[w].ownerId)
    /\ UNCHANGED <<userVars, member, request>>
    /\ Remember(LAMBDA v, u : FALSE, LAMBDA v : v = w)

-----------------------------------------------------------------------------
(* What is left to do, with the locals that it needs. *)
Inserting(w, u, token) == [pc |-> "insert", workspace |-> w, token |-> token, user |-> u]
Clearing(w, token) == [pc |-> "clear", workspace |-> w, token |-> token]

(* Fault: the members are not looked at. *)
NextOfJoinUnseen(w, u, token) == Inserting(w, u, token)

(* joinByToken reads the workspace of the token with its members, and the   *)
(* user: who is a member already only clears the token.                     *)
NextOfJoin(w, u, token) ==
    IF IsMember(w, u) THEN Clearing(w, token) ELSE Inserting(w, u, token)

(* Fault: links of before stay valid. *)
LinksEver(w) == 1..issued

Links(w) == {workspaceRow[w].inviteToken} \ {NULL}

StartJoin(j, u, w) ==
    /\ j \notin InFlight
    /\ u \in users
    /\ Exists(w)
    /\ \E token \in Links(w) :
          Goes(j, NextOfJoin(w, u, token))
    /\ UNCHANGED <<userVars, workspaceRow, member, issued, since>>

(* workspaceMember.create; a user or workspace that is gone makes it throw. *)
JoinInsert(j) ==
    LET h == request[j]
    IN  /\ h.pc = "insert"
        /\ IF Exists(h.workspace) /\ h.user \in users
           THEN /\ InsertMember(h.workspace, h.user)
                /\ Goes(j, Clearing(h.workspace, h.token))
                /\ Remember(LAMBDA w, u : w = h.workspace /\ u = h.user, LAMBDA w : FALSE)
           ELSE Forgets(j) /\ UNCHANGED member
        /\ UNCHANGED <<userVars, workspaceRow, issued>>

(* It clears whatever token the workspace has by now. *)
JoinClear(j) ==
    LET h == request[j]
    IN  /\ h.pc = "clear"
        /\ Forgets(j)
        /\ IF Exists(h.workspace)
           THEN workspaceRow' = [workspaceRow EXCEPT ![h.workspace].inviteToken = NULL]
           ELSE UNCHANGED workspaceRow
        /\ UNCHANGED <<userVars, member, issued>>

(* An await throws, or the process dies with the handler. *)
FailHandler(j) ==
    /\ j \in InFlight
    /\ Forgets(j)
    /\ UNCHANGED <<userVars, workspaceRow, member, issued>>

MembershipNext ==
    \/ \E u \in Users : Register(u) \/ RemoveUser(u)
    \/ \E u \in Users, w \in SharedWorkspaces : CreateWorkspace(u, w)
    \/ \E w \in WorkspaceIds :
          \/ RemoveWorkspace(w) \/ RegenerateInviteToken(w)
          \/ \E u \in Users : AddMember(w, u)
          \/ \E m \in BagToSet(member) : RemoveMember(w, m)
          \/ \E j \in Requests, u \in Users : StartJoin(j, u, w)
    \/ \E j \in Requests : JoinInsert(j) \/ JoinClear(j) \/ FailHandler(j)

MembershipSpec == MembershipInit /\ [][MembershipNext]_membershipVars

-----------------------------------------------------------------------------
(* Rows are well formed and refer to rows that are there. *)
MembershipTypeOK ==
    /\ users \subseteq Users
    /\ \A w \in WorkspaceIds : Exists(w) =>
          workspaceRow[w] \in [ownerId : users, inviteToken : 1..issued \cup {NULL}]
    /\ \A u \in users : Exists(u) /\ workspaceRow[u].ownerId = u
    /\ \A m \in BagToSet(member) :
          m \in Member /\ m.userId \in users \cup {NULL} /\ Exists(m.workspaceId)

(* Nobody joins a workspace it is a member of, unless what made it a member *)
(* (another join, or the owner) overlapped the join: there is no unique key *)
(* on workspace and user.                                                   *)
JoinedOnce ==
    [][\A j \in Requests :
          JoinInsert(j) /\ request'[j] # Idle /\ IsMember(request[j].workspace, request[j].user)
          => since[j].member]_membershipVars

(* A link that the owner has made stays valid until the owner replaces it   *)
(* or a join that was given it uses it, unless a join with an older link    *)
(* was in flight when it was made: that join clears whatever link it finds. *)
LinkLives ==
    [][\A w \in WorkspaceIds :
          LET link(rows) == rows[w].inviteToken
          IN  /\ Exists(w) /\ workspaceRow'[w] # NULL
              /\ link(workspaceRow) # NULL /\ link(workspaceRow') # link(workspaceRow)
              => \/ link(workspaceRow') = issued' /\ issued' > issued
                 \/ \E j \in Requests :
                       /\ JoinClear(j)
                       /\ request[j].token = link(workspaceRow) \/ since[j].link
      ]_membershipVars
=============================================================================
