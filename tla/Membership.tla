----------------------------- MODULE Membership -----------------------------
(***************************************************************************)
(* Who belongs to a company, in which role, and who may change it:         *)
(* routes/auth.py, routes/members.py, auth.py, the creation of a company   *)
(* in routes/companies.py and the seat gate of tiers.py, all of            *)
(* services/api/app.  One company.                                         *)
(*                                                                         *)
(* A handler in flight is a call: what it read before its write holds only *)
(* as long as nobody else writes.  The seat gate and the checks of an      *)
(* invite run on connections of their own, before the write; the role      *)
(* edits read and write in one READ COMMITTED transaction without a lock.  *)
(***************************************************************************)
EXTENDS Integers, FiniteSets

CONSTANTS People, Tokens,
          Calls,        \* requests the api serves at one time (bound)
          SeatCaps,     \* max_users of the tiers
          None          \* no role, no person

ASSUME MembershipConstants ==
    /\ Calls # {} /\ IsFiniteSet(Calls)
    /\ IsFiniteSet(People) /\ None \notin People
    /\ SeatCaps # {} /\ SeatCaps \subseteq Nat \ {0}

Roles == {"owner", "admin", "viewer"}
WriteRoles == {"owner", "admin"}
AllowedInviteRoles == Roles \ {"owner"}

VARIABLES
    founded,      \* the companies row exists
    account,      \* accounts: absent, passwordless, password
    role,         \* company_members.role, "none" outside the company
    seats, peak,  \* max_users of the company's tier, the highest so far
    token, sentTo, sentAs,   \* invite_tokens: state, email, role
    doing, target, newRole,  \* the handler in each call: write due, on whom, role
    invited,      \* members who came in by an invite, past the seat gate
    overlapped    \* history: two role edits were in flight at one time

people == <<founded, account, role, invited>>
invites == <<token, sentTo, sentAs>>
calls == <<doing, target, newRole>>
membersVars == <<people, seats, peak, invites, calls, overlapped>>

Members == {p \in People : role[p] # "none"}
Owners == {p \in People : role[p] = "owner"}

MembersTypeOK ==
    /\ founded \in BOOLEAN /\ (Members # {} => founded)
    /\ account \in [People -> {"absent", "passwordless", "password"}]
    /\ role \in [People -> Roles \cup {"none"}]
    /\ \A p \in Members : account[p] # "absent"
    /\ seats \in SeatCaps /\ peak \in SeatCaps /\ seats <= peak
    /\ token \in [Tokens -> {"unissued", "pending", "consumed", "expired"}]
    /\ sentTo \in [Tokens -> People \cup {None}]
    /\ sentAs \in [Tokens -> AllowedInviteRoles \cup {"none"}]
    /\ doing \in [Calls -> {"idle", "add", "invite", "edit", "remove"}]
    /\ target \in [Calls -> People \cup {None}]
    /\ newRole \in [Calls -> Roles \cup {"none"}]
    /\ invited \subseteq Members /\ overlapped \in BOOLEAN

MembersInit ==
    /\ founded = FALSE
    /\ account \in [People -> {"absent", "passwordless"}]
    /\ role = [p \in People |-> "none"] /\ invited = {}
    /\ seats \in SeatCaps /\ peak = seats
    /\ token = [t \in Tokens |-> "unissued"]
    /\ sentTo = [t \in Tokens |-> None] /\ sentAs = [t \in Tokens |-> "none"]
    /\ doing = [c \in Calls |-> "idle"]
    /\ target = [c \in Calls |-> None] /\ newRole = [c \in Calls |-> "none"]
    /\ overlapped = FALSE

\* The write a handler has decided on, and its end.
Intends(c, op, p, r) ==
    /\ doing[c] = "idle" /\ doing' = [doing EXCEPT ![c] = op]
    /\ target' = [target EXCEPT ![c] = p] /\ newRole' = [newRole EXCEPT ![c] = r]
Ends(c) ==
    /\ doing' = [doing EXCEPT ![c] = "idle"]
    /\ target' = [target EXCEPT ![c] = None] /\ newRole' = [newRole EXCEPT ![c] = "none"]

-----------------------------------------------------------------------------
(* Accounts and the company.                                               *)

\* The founder's row, in the transaction that inserts the company.
FoundedBy(p) ==
    /\ ~founded /\ founded' = TRUE
    /\ role' = [role EXCEPT ![p] = "owner"]

\* signup: a new account, or the first password of a legacy one, with or without
\* a company.
Signup(p) ==
    /\ account[p] # "password"
    /\ account' = [account EXCEPT ![p] = "password"]
    /\ FoundedBy(p) \/ UNCHANGED <<founded, role>>
    /\ UNCHANGED <<invited, seats, peak, invites, calls>>

CreateCompany(p) ==
    /\ account[p] = "password" /\ FoundedBy(p)
    /\ UNCHANGED <<account, invited, seats, peak, invites, calls>>

\* A webhook moves the company to another tier.
ChangeTier(n) ==
    /\ founded /\ seats' = n /\ peak' = IF n > peak THEN n ELSE peak
    /\ UNCHANGED <<people, invites, calls>>

-----------------------------------------------------------------------------
(* Direct creation.                                                        *)

\* gate_add_user compares the members it counts with the tier's max_users.  
SeatFree(n) == n < seats

\* create_member: the gate, before any check of the caller ...
GateAddUser(c, p, r) ==
    /\ founded /\ SeatFree(Cardinality(Members))
    /\ Intends(c, "add", p, r)
    /\ UNCHANGED <<people, seats, peak, invites>>

\* An account of that address is joined, otherwise one is created with the password
\* given.  The mutant forgets to create it.
MutantEnrolled(a) == a
Enrolled(a) == IF a = "absent" THEN "password" ELSE a

\* ... then the transaction: the caller's role, the account, the membership.
CreateMember(c, caller) ==
    LET p == target[c]
    IN  /\ doing[c] = "add" /\ Ends(c)
        /\ IF role[caller] \in WriteRoles /\ role[p] = "none"
           THEN /\ role' = [role EXCEPT ![p] = newRole[c]]
                /\ account' = [account EXCEPT ![p] = Enrolled(@)]
           ELSE UNCHANGED <<account, role>>
        /\ UNCHANGED <<founded, invited, seats, peak, invites>>

-----------------------------------------------------------------------------
(* Invites.                                                                *)

PendingFor(p) == {t \in Tokens : token[t] = "pending" /\ sentTo[t] = p}

\* create_invite: the checks, on one connection ...
CheckInvite(c, caller, p, r) ==
    /\ role[caller] \in WriteRoles /\ role[p] = "none" /\ PendingFor(p) = {}
    /\ Intends(c, "invite", p, r)
    /\ UNCHANGED <<people, seats, peak, invites>>

\* ... and create_invite_token, on another.
CreateInviteToken(c, t) ==
    /\ doing[c] = "invite" /\ Ends(c)
    /\ token[t] = "unissued" /\ token' = [token EXCEPT ![t] = "pending"]
    /\ sentTo' = [sentTo EXCEPT ![t] = target[c]]
    /\ sentAs' = [sentAs EXCEPT ![t] = newRole[c]]
    /\ UNCHANGED <<people, seats, peak>>

InviteExpires(t) ==
    /\ token[t] = "pending" /\ token' = [token EXCEPT ![t] = "expired"]
    /\ UNCHANGED <<people, seats, peak, sentTo, sentAs, calls>>

\* consume_invite_token: neither consumed nor expired.
Consumes(t) == token[t] = "pending" /\ token' = [token EXCEPT ![t] = "consumed"]

\* accept_invite, under the row lock of the token: the account, its password if
\* it has none and one is given, the membership unless there is one.
AcceptInvite(t, givesPassword) ==
    LET p == sentTo[t]
    IN  /\ Consumes(t)
        /\ account[p] = "absent" => givesPassword
        /\ account' = [account EXCEPT ![p] = IF givesPassword THEN "password" ELSE @]
        /\ IF role[p] = "none"
           THEN role' = [role EXCEPT ![p] = sentAs[t]] /\ invited' = invited \cup {p}
           ELSE UNCHANGED <<role, invited>>
        /\ UNCHANGED <<founded, seats, peak, sentTo, sentAs, calls>>

-----------------------------------------------------------------------------
(* Role edits, removals, password resets.                                  *)

\* Nobody touches an owner's or makes one but an owner.
OwnersMatter(caller, p, r) == "owner" \in {role[p], r} => role[caller] = "owner"

\* Another owner than p.  The mutant counts p.
MutantLeavesAnOwner(p) == Owners # {}
LeavesAnOwner(p) == Owners \ {p} # {}

\* update_member, up to its UPDATE.
CheckEdit(c, caller, p, r) ==
    /\ role[caller] \in WriteRoles /\ role[p] # "none" /\ caller # p
    /\ OwnersMatter(caller, p, r)
    /\ role[p] = "owner" /\ r # "owner" => LeavesAnOwner(p)
    /\ Intends(c, "edit", p, r)
    /\ UNCHANGED <<people, seats, peak, invites>>

\* The UPDATE; on a row deleted meanwhile the handler fails.
UpdateMember(c) ==
    LET p == target[c]
    IN  /\ doing[c] = "edit" /\ Ends(c)
        /\ role' = [role EXCEPT ![p] = IF @ = "none" THEN @ ELSE newRole[c]]
        /\ UNCHANGED <<founded, account, invited, seats, peak, invites>>

\* remove_member, up to its DELETE; one may remove oneself.
CheckRemove(c, caller, p) ==
    /\ role[caller] \in WriteRoles /\ role[p] # "none"
    /\ OwnersMatter(caller, p, "none")
    /\ role[p] = "owner" => LeavesAnOwner(p)
    /\ Intends(c, "remove", p, "none")
    /\ UNCHANGED <<people, seats, peak, invites>>

RemoveMember(c) ==
    /\ doing[c] = "remove" /\ Ends(c)
    /\ role' = [role EXCEPT ![target[c]] = "none"]
    /\ invited' = invited \ {target[c]}
    /\ UNCHANGED <<founded, account, seats, peak, invites>>

ResetMemberPassword(caller, p) ==
    /\ role[caller] \in WriteRoles /\ role[p] # "none"
    /\ OwnersMatter(caller, p, "none")
    /\ account' = [account EXCEPT ![p] = "password"]
    /\ UNCHANGED <<founded, role, invited, seats, peak, invites, calls>>

-----------------------------------------------------------------------------
AccountStep ==
    \/ \E p \in People : Signup(p) \/ CreateCompany(p)
    \/ \E n \in SeatCaps : ChangeTier(n)

AdmissionStep(c) ==
    \/ \E p \in People, r \in AllowedInviteRoles :
          \/ GateAddUser(c, p, r)
          \/ \E caller \in People : CheckInvite(c, caller, p, r)
    \/ \E caller \in People : CreateMember(c, caller)
    \/ \E t \in Tokens : CreateInviteToken(c, t)

InviteStep ==
    \E t \in Tokens : InviteExpires(t) \/ \E g \in BOOLEAN : AcceptInvite(t, g)

EditStep(c) ==
    \/ \E caller, p \in People :
          CheckRemove(c, caller, p) \/ \E r \in Roles : CheckEdit(c, caller, p, r)
    \/ UpdateMember(c) \/ RemoveMember(c)

\* History, kept by every step.
NoteOverlap ==
    LET editing == {c \in Calls : doing'[c] \in {"edit", "remove"}}
    IN  overlapped' = (overlapped \/ Cardinality(editing) > 1)

MembersNext ==
    /\ \/ AccountStep
       \/ \E c \in Calls : AdmissionStep(c) \/ EditStep(c)
       \/ InviteStep
       \/ \E caller, p \in People : ResetMemberPassword(caller, p)
    /\ NoteOverlap

MembersSpec == MembersInit /\ [][MembersNext]_membersVars

-----------------------------------------------------------------------------
(* Properties.                                                             *)

\* A company always has an owner, unless two role edits have overlapped:
\* update_member and remove_member count the other owners and write afterwards.
SomeOwner == founded /\ ~overlapped => Owners # {}

\* The seat cap holds for the members who were created directly, up to one member
\* for every further request in flight: gate_add_user counts on a connection of
\* its own.  A downgrade removes nobody, hence the peak; an invite has no gate.
SeatsBounded ==
    Cardinality(Members \ invited) <= peak + Cardinality(Calls) - 1

\* What the two gates that count and then write are worth: an owner and a full house
\* under one request at a time, and a bounded miss where requests overlap.
OwnersAndSeats == SomeOwner /\ SeatsBounded
=============================================================================
