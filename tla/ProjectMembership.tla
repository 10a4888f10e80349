-------------------------- MODULE ProjectMembership --------------------------
(***************************************************************************)
(* Who may read and administrate one project.  Its owner is a project      *)
(* administrator, the owners of its directories are readers at least, and  *)
(* administrators manage the rest.  Four writers work on the memberships   *)
(* without a common lock: updates of the project, the membership API, the  *)
(* administration of directories and groups, and the collection rounds.    *)
(***************************************************************************)
EXTENDS Integers, FiniteSets

CONSTANTS
    Users,
    Directories,   \* user directories of one group
    ProjectRequests,      \* API requests that may run at the same time
    MaxOps,        \* bound: requests and changes of directories
    Nobody

ASSUME MembershipAssumption == Nobody \notin Users \cup ProjectRequests /\ MaxOps \in Nat

Roles == {"reader", "editor", "project_admin"}

VARIABLES
    owner,      \* projects.in_charge_user_id
    role,       \* role[u]: the row of project_memberships, or "none"
    holder,     \* holder[d]: the user of the directory
    bound,      \* the group belongs to the project
    request,    \* what each request is doing
    rowLock,    \* the request that has updated the row of the project
    granting,   \* requests that have committed a directory and not yet its reader
    grants,     \* the collection round and the users it found without a membership
    appointed,  \* history: users that a super administrator made project administrators
    overlapped, \* history: an update of the owner rested on an owner that was replaced meanwhile
    ops         \* counts towards MaxOps

memberVars == <<owner, role, holder, bound, request, rowLock, granting, grants,
                appointed, overlapped, ops>>

NoRequest == [pc |-> "idle", user |-> Nobody, previous |-> Nobody]
NotGranting == [pc |-> "idle", missing |-> {}]

\* create_project: the owner and the membership in one transaction
MemberInit ==
    /\ owner \in Users
    /\ role = [u \in Users |-> IF u = owner THEN "project_admin" ELSE "none"]
    /\ holder = [d \in Directories |-> Nobody]
    /\ bound = TRUE
    /\ request = [r \in ProjectRequests |-> NoRequest]
    /\ rowLock = Nobody
    /\ granting = 0
    /\ grants = NotGranting
    /\ appointed = {} /\ overlapped = FALSE /\ ops = 0

DirectoryOwners == IF bound THEN {holder[d] : d \in Directories} \ {Nobody} ELSE {}

Starts == ops < MaxOps /\ ops' = ops + 1

-----------------------------------------------------------------------------
(* update_project.                                                         *)

\* The row is read
LoadProject(r, new) ==
    /\ request[r].pc = "idle" /\ Starts
    /\ request' = [request EXCEPT ![r] = [pc |-> "flush", user |-> new, previous |-> owner]]
    /\ UNCHANGED <<owner, role, holder, bound, rowLock, granting, grants, appointed, overlapped>>

\* ... and written: the second of two updates waits for the first
FlushOwner(r) ==
    /\ request[r].pc = "flush" /\ rowLock = Nobody
    /\ rowLock' = r
    /\ overlapped' = (overlapped \/ request[r].previous # owner)
    /\ request' = [request EXCEPT ![r].pc = "roles"]
    /\ UNCHANGED <<owner, role, holder, bound, granting, grants, appointed, ops>>

\* Mutant: the former owner remains project administrator.
StepDown_Kept(u) == role[u]

\* The role of the previous owner, who may still own a directory of the project
StepDown(u) ==
    CASE role[u] # "project_admin" -> role[u]
      [] role[u] = "project_admin" /\ u \in DirectoryOwners -> "reader"
      [] OTHER -> "none"

\* ensure_project_owner_membership and the commit.  An owner equal to the loaded one is not among
\* the columns written; the role goes to the owner that the request has, written or not
CommitOwner(r) ==
    LET new == request[r].user
        previous == request[r].previous
    IN  /\ request[r].pc = "roles"
        /\ owner' = IF previous # new THEN new ELSE owner
        /\ role' = [u \in Users |->
               CASE u = new -> "project_admin"
                 [] u = previous /\ previous # new -> StepDown(u)
                 [] OTHER -> role[u]]
        /\ appointed' = IF previous # new THEN appointed \ {previous} ELSE appointed
        /\ rowLock' = Nobody
        /\ request' = [request EXCEPT ![r] = NoRequest]
        /\ UNCHANGED <<holder, bound, granting, grants, overlapped, ops>>

-----------------------------------------------------------------------------
(* The membership API.                                                     *)

\* _validate_assignable_role
MayAssign(super, new) == new = "project_admin" => super

\* A super administrator, or a project administrator
Managers == {TRUE} \cup (IF \E u \in Users : role[u] = "project_admin" THEN {FALSE} ELSE {})

\* create_membership and update_membership: only the new role is validated
SetRole(u) ==
    /\ Starts
    /\ \E super \in Managers, new \in Roles :
         /\ MayAssign(super, new)
         /\ role' = [role EXCEPT ![u] = new]
         /\ appointed' = IF super /\ new = "project_admin" THEN appointed \cup {u} ELSE appointed \ {u}
    /\ UNCHANGED <<owner, holder, bound, request, rowLock, granting, grants, overlapped>>

\* delete_membership up to its checks
CheckRemoval(r, u) ==
    /\ request[r].pc = "idle" /\ Starts
    /\ role[u] # "none" /\ u \notin DirectoryOwners
    /\ \E super \in Managers : MayAssign(super, role[u])
    /\ request' = [request EXCEPT ![r] = [pc |-> "remove", user |-> u, previous |-> Nobody]]
    /\ UNCHANGED <<owner, role, holder, bound, rowLock, granting, grants, appointed, overlapped>>

\* ... and the deletion of the row, if it is still there
CommitRemoval(r) ==
    LET u == request[r].user
    IN  /\ request[r].pc = "remove"
        /\ role' = [role EXCEPT ![u] = "none"]
        /\ appointed' = appointed \ {u}
        /\ request' = [request EXCEPT ![r] = NoRequest]
        /\ UNCHANGED <<owner, holder, bound, rowLock, granting, grants, overlapped, ops>>

-----------------------------------------------------------------------------
(* Directories and groups.                                                 *)

\* create_storage_usage, update_storage_usage and delete_storage_usage commit on their own; the
\* first two grant afterwards
AssignDirectory(d, u) ==
    /\ Starts /\ u # holder[d]
    /\ holder' = [holder EXCEPT ![d] = u]
    /\ granting' = IF u = Nobody THEN granting ELSE granting + 1
    /\ UNCHANGED <<owner, role, bound, request, rowLock, grants, appointed, overlapped>>

\* update_group binds the group to the project, or to another one
BindGroup ==
    /\ Starts
    /\ bound' = ~bound
    /\ granting' = granting + 1
    /\ UNCHANGED <<owner, role, holder, request, rowLock, grants, appointed, overlapped>>

\* Readers for those who have no membership
Granted(S) == [u \in Users |-> IF u \in S /\ role[u] = "none" THEN "reader" ELSE role[u]]

\* ensure_group_directory_readers, in a transaction of its own
GrantReaders ==
    /\ granting > 0
    /\ granting' = granting - 1
    /\ role' = Granted(DirectoryOwners)
    /\ UNCHANGED <<owner, holder, bound, request, rowLock, grants, appointed, overlapped, ops>>

\* The process dies between the two
LoseGrant ==
    /\ granting > 0
    /\ granting' = granting - 1
    /\ UNCHANGED <<owner, role, holder, bound, request, rowLock, grants, appointed, overlapped, ops>>

-----------------------------------------------------------------------------
(* A collection round.                                                     *)

\* Mutant: the round grants nothing.
Missing_NewOnly == {}

\* Pairs without a row, old directories included
Missing == {u \in DirectoryOwners : role[u] = "none"}

\* _grant_collected_directory_readers up to the existing rows; a round is written when it grants
RoundReads ==
    /\ grants.pc = "idle" /\ Missing # {}
    /\ grants' = [pc |-> "insert", missing |-> Missing]
    /\ UNCHANGED <<owner, role, holder, bound, request, rowLock, granting, appointed, overlapped, ops>>

\* The insertion; a row that appeared meanwhile violates uq_project_membership_user and undoes
\* the round of the cluster
RoundInserts ==
    /\ grants.pc = "insert"
    /\ role' = IF \A u \in grants.missing : role[u] = "none" THEN Granted(grants.missing) ELSE role
    /\ grants' = NotGranting
    /\ UNCHANGED <<owner, holder, bound, request, rowLock, granting, appointed, overlapped, ops>>

MemberNext ==
    \/ \E r \in ProjectRequests, u \in Users : LoadProject(r, u) \/ CheckRemoval(r, u)
    \/ \E r \in ProjectRequests : FlushOwner(r) \/ CommitOwner(r) \/ CommitRemoval(r)
    \/ \E u \in Users : SetRole(u)
    \/ \E d \in Directories, u \in Users \cup {Nobody} : AssignDirectory(d, u)
    \/ BindGroup \/ GrantReaders \/ LoseGrant \/ RoundReads \/ RoundInserts

MemberSpec == MemberInit /\ [][MemberNext]_memberVars

\* Rounds are scheduled for ever
MemberFairness == WF_memberVars(RoundReads) /\ WF_memberVars(RoundInserts)

-----------------------------------------------------------------------------
(* Correctness.                                                            *)

\* Type invariant: every membership has one of the three roles.
MemberTypeOK ==
    /\ owner \in Users /\ role \in [Users -> Roles \cup {"none"}]
    /\ holder \in [Directories -> Users \cup {Nobody}] /\ bound \in BOOLEAN
    /\ request \in [ProjectRequests -> [pc : {"idle", "flush", "roles", "remove"},
                                 user : Users \cup {Nobody}, previous : Users \cup {Nobody}]]
    /\ rowLock \in ProjectRequests \cup {Nobody} /\ granting \in 0..MaxOps
    /\ grants.pc \in {"idle", "insert"} /\ grants.missing \subseteq Users
    /\ appointed \subseteq Users /\ overlapped \in BOOLEAN /\ ops \in 0..MaxOps

FormerOwners == {u \in Users \ {owner} : role[u] = "project_admin" /\ u \notin appointed}

\* A project administrator is the owner, or was appointed by a super administrator; a former
\* owner keeps the role only if two updates of the owner overlapped, whatever the membership
\* API, the directories and the collection did in between (ensure_project_owner_membership).
AdminsAreAppointed == ~overlapped => FormerOwners = {}

\* Again and again all owners of directories have access to the project, although the grant of
\* a request may be lost, a removal may have been checked before the directory was assigned,
\* and a round may fail on a row that another request inserted.
DirectoryOwnersGetAccess == []<>(\A u \in DirectoryOwners : role[u] # "none")
=============================================================================
