----------------------------- MODULE TenancyProofs -----------------------------
(***************************************************************************)
(* Machine-checked proofs about the tenant's side: Membership, for any     *)
(* people, invites, requests and seat caps; Billing, for any checkouts,    *)
(* prices and number of events; LiveGate, for any ceremonies and requests; *)
(* AgentDesk, for any agents, requests, tiers and registry.                *)
(***************************************************************************)
EXTENDS MCTenancy, SetLemmas

(***************************************************************************)
(* Membership.  Type correctness needs that a request in flight and a      *)
(* pending invite name a person and a role, and come after the company.    *)
(***************************************************************************)
CallsInv ==
    /\ \A c \in Calls : doing[c] # "idle" => founded /\ target[c] \in People
    /\ \A c \in Calls : doing[c] \in {"add", "invite"} => newRole[c] \in AllowedInviteRoles
    /\ \A c \in Calls : doing[c] = "edit" => newRole[c] \in Roles
    /\ \A c \in Calls : doing[c] = "remove" => newRole[c] = "none"
    /\ \A t \in Tokens : token[t] = "pending" =>
          founded /\ sentTo[t] \in People /\ sentAs[t] \in AllowedInviteRoles

MembersInv == MembersTypeOK /\ CallsInv

LEMMA MembersTypeInit == MembersInit => MembersInv
<1> SUFFICES ASSUME MembersInit
             PROVE  MembersInv
  OBVIOUS
<1>1. founded \in BOOLEAN /\ overlapped \in BOOLEAN
  BY Zenon DEF MembersInit
<1>2. QED
  BY <1>1, MembershipConstants
  DEF MembersInit, MembersInv, MembersTypeOK, CallsInv, Members, Roles

\* The flags and the counts of seats.
LEMMA MembersFlags ==
  ASSUME MembersInv, MembersNext
  PROVE  founded' \in BOOLEAN /\ (founded => founded') /\ overlapped' \in BOOLEAN
<1>1. overlapped' \in BOOLEAN
  BY Zenon DEF MembersNext, NoteOverlap
<1>2. founded \in BOOLEAN
  BY Zenon DEF MembersInv, MembersTypeOK
<1>3. (founded' = TRUE) \/ (founded' = founded)
  BY SMTT(20)
  DEF MembersNext, AccountStep, AdmissionStep, InviteStep, EditStep, FoundedBy, Signup,
      CreateCompany, ChangeTier, people, GateAddUser, CreateMember, CheckInvite,
      CreateInviteToken, InviteExpires, AcceptInvite, CheckEdit, UpdateMember, CheckRemove,
      RemoveMember, ResetMemberPassword
<1>4. QED
  BY <1>1, <1>2, <1>3, Zenon

LEMMA AccountStepType ==
  ASSUME MembersInv, AccountStep, founded' \in BOOLEAN, founded => founded',
         overlapped' \in BOOLEAN
  PROVE  MembersInv'
<1> USE MembershipConstants DEF MembersInv, MembersTypeOK, CallsInv, Members, people, invites, calls
<1>1. ASSUME NEW p \in People, Signup(p)
      PROVE  MembersInv'
  <2>1. /\ account' \in [People -> {"absent", "passwordless", "password"}]
        /\ \A q \in People : account[q] # "absent" => account'[q] # "absent"
        /\ account'[p] # "absent"
    BY <1>1 DEF Signup
  <2>2. /\ UNCHANGED <<invited, seats, peak, token, sentTo, sentAs, doing, target, newRole>>
    BY <1>1 DEF Signup
  <2>3. CASE FoundedBy(p)
    BY <2>1, <2>2, <2>3 DEF FoundedBy, Roles
  <2>4. CASE UNCHANGED <<founded, role>>
    BY <2>1, <2>2, <2>4
  <2>5. QED
    BY <1>1, <2>3, <2>4 DEF Signup
<1>2. ASSUME NEW p \in People, CreateCompany(p)
      PROVE  MembersInv'
  BY <1>2 DEF CreateCompany, FoundedBy, Roles
<1>3. ASSUME NEW n \in SeatCaps, ChangeTier(n)
      PROVE  MembersInv'
  BY <1>3 DEF ChangeTier
<1>4. QED
  BY <1>1, <1>2, <1>3 DEF AccountStep

LEMMA AdmissionStepType ==
  ASSUME MembersInv, NEW c \in Calls, AdmissionStep(c), founded' \in BOOLEAN,
         founded => founded', overlapped' \in BOOLEAN
  PROVE  MembersInv'
<1> USE MembershipConstants
    DEF MembersInv, MembersTypeOK, CallsInv, Members, people, invites, calls
<1>1. ASSUME NEW p \in People, NEW r \in AllowedInviteRoles, GateAddUser(c, p, r)
      PROVE  MembersInv'
  BY <1>1 DEF GateAddUser, Intends, Roles, AllowedInviteRoles
<1>2. ASSUME NEW p \in People, NEW r \in AllowedInviteRoles, NEW caller \in People,
             CheckInvite(c, caller, p, r)
      PROVE  MembersInv'
  BY <1>2 DEF CheckInvite, Intends, Roles, AllowedInviteRoles, WriteRoles
<1>3. ASSUME NEW caller \in People, CreateMember(c, caller)
      PROVE  MembersInv'
  <2>1. /\ doing[c] = "add" /\ target[c] \in People /\ newRole[c] \in AllowedInviteRoles
        /\ founded
    BY <1>3 DEF CreateMember
  <2>2. /\ doing' = [doing EXCEPT ![c] = "idle"]
        /\ target' = [target EXCEPT ![c] = None]
        /\ newRole' = [newRole EXCEPT ![c] = "none"]
        /\ UNCHANGED <<founded, invited, seats, peak, token, sentTo, sentAs>>
    BY <1>3 DEF CreateMember, Ends
  <2>3. CASE UNCHANGED <<account, role>>
    BY <2>1, <2>2, <2>3
  <2>4. CASE /\ role[target[c]] = "none"
             /\ role' = [role EXCEPT ![target[c]] = newRole[c]]
             /\ account' = [account EXCEPT ![target[c]] = Enrolled(@)]
    <3>1. /\ account' \in [People -> {"absent", "passwordless", "password"}]
          /\ account'[target[c]] # "absent"
          /\ \A q \in People : q # target[c] => account'[q] = account[q]
      BY <2>1, <2>4 DEF Enrolled
    <3>2. role' \in [People -> Roles \cup {"none"}] /\ invited' \subseteq Members'
      BY <2>1, <2>2, <2>4 DEF Roles, AllowedInviteRoles
    <3>3. \A q \in People : role'[q] # "none" => account'[q] # "absent"
      BY <2>1, <2>4, <3>1
    <3>4. QED
      BY <2>1, <2>2, <3>1, <3>2, <3>3
  <2>5. QED
    BY <1>3, <2>3, <2>4 DEF CreateMember
<1>4. ASSUME NEW t \in Tokens, CreateInviteToken(c, t)
      PROVE  MembersInv'
  BY <1>4 DEF CreateInviteToken, Ends
<1>5. QED
  BY <1>1, <1>2, <1>3, <1>4 DEF AdmissionStep

LEMMA InviteStepType ==
  ASSUME MembersInv, InviteStep, founded' \in BOOLEAN, founded => founded',
         overlapped' \in BOOLEAN
  PROVE  MembersInv'
<1> USE MembershipConstants
    DEF MembersInv, MembersTypeOK, CallsInv, Members, people, invites, calls
<1>1. ASSUME NEW t \in Tokens, InviteExpires(t)
      PROVE  MembersInv'
  BY <1>1 DEF InviteExpires
<1>2. ASSUME NEW t \in Tokens, NEW g \in BOOLEAN, AcceptInvite(t, g)
      PROVE  MembersInv'
  <2> DEFINE p == sentTo[t]
  <2>1. /\ token[t] = "pending" /\ token' = [token EXCEPT ![t] = "consumed"]
        /\ p \in People /\ sentAs[t] \in AllowedInviteRoles /\ founded
        /\ UNCHANGED <<founded, seats, peak, sentTo, sentAs, doing, target, newRole>>
    BY <1>2 DEF AcceptInvite, Consumes
  <2>2. /\ account' \in [People -> {"absent", "passwordless", "password"}]
        /\ account'[p] # "absent"
        /\ \A q \in People : q # p => account'[q] = account[q]
    BY <1>2, <2>1 DEF AcceptInvite
  <2>3. /\ role' \in [People -> Roles \cup {"none"}] /\ invited' \subseteq Members'
        /\ \A q \in People : role'[q] # "none" => account'[q] # "absent"
    <3>1. CASE UNCHANGED <<role, invited>>
      BY <2>1, <2>2, <3>1
    <3>2. CASE role[p] = "none" /\ role' = [role EXCEPT ![p] = sentAs[t]]
               /\ invited' = invited \cup {p}
      BY <2>1, <2>2, <3>2 DEF AllowedInviteRoles, Roles
    <3>3. QED
      BY <1>2, <3>1, <3>2 DEF AcceptInvite
  <2>4. QED
    BY <2>1, <2>2, <2>3
<1>3. QED
  BY <1>1, <1>2 DEF InviteStep

LEMMA EditStepType ==
  ASSUME MembersInv, NEW c \in Calls, EditStep(c), founded' \in BOOLEAN,
         founded => founded', overlapped' \in BOOLEAN
  PROVE  MembersInv'
<1> USE MembershipConstants
    DEF MembersInv, MembersTypeOK, CallsInv, Members, people, invites, calls
<1>1. ASSUME NEW caller \in People, NEW p \in People, CheckRemove(c, caller, p)
      PROVE  MembersInv'
  BY <1>1 DEF CheckRemove, Intends, Roles, WriteRoles
<1>2. ASSUME NEW caller \in People, NEW p \in People, NEW r \in Roles,
             CheckEdit(c, caller, p, r)
      PROVE  MembersInv'
  BY <1>2 DEF CheckEdit, Intends, Roles, WriteRoles
<1>3. CASE UpdateMember(c)
  BY <1>3 DEF UpdateMember, Ends, Roles
<1>4. CASE RemoveMember(c)
  BY <1>4 DEF RemoveMember, Ends, Roles
<1>5. QED
  BY <1>1, <1>2, <1>3, <1>4 DEF EditStep

LEMMA MembersTypeStep == MembersInv /\ [MembersNext]_membersVars => MembersInv'
<1> SUFFICES ASSUME MembersInv, [MembersNext]_membersVars
             PROVE  MembersInv'
  OBVIOUS
<1>1. CASE MembersNext
  <2>1. founded' \in BOOLEAN /\ (founded => founded') /\ overlapped' \in BOOLEAN
    BY <1>1, MembersFlags
  <2>2. ASSUME NEW caller \in People, NEW p \in People, ResetMemberPassword(caller, p)
        PROVE  MembersInv'
    BY <2>1, <2>2
    DEF ResetMemberPassword, MembersInv, MembersTypeOK, CallsInv, Members, invites, calls
  <2>3. QED
    BY <1>1, <2>1, <2>2, AccountStepType, AdmissionStepType, InviteStepType, EditStepType
    DEF MembersNext
<1>2. CASE UNCHANGED membersVars
  BY <1>2 DEF membersVars, MembersInv, MembersTypeOK, CallsInv, Members, people, invites, calls
<1>3. QED
  BY <1>1, <1>2

\* The rows of the members and the invites keep their type; in particular nobody is
\* a member without an account, or of a company that does not exist.
THEOREM MembersTypeCorrect == MembersSpec => []MembersTypeOK
<1>1. MembersInv => MembersTypeOK
  BY DEF MembersInv
<1>2. QED
  BY MembersTypeInit, MembersTypeStep, <1>1, PTL DEF MembersSpec

(***************************************************************************)
(* Owners.  A role edit in flight was checked against the owners there     *)
(* were; as long as it is the only one nobody takes the last other owner   *)
(* away before its write.                                                  *)
(***************************************************************************)
Editing == {c \in Calls : doing[c] \in {"edit", "remove"}}

OwnersInv ==
    ~overlapped =>
        /\ founded => Owners # {}
        /\ \A c, d \in Editing : c = d
        /\ \A c \in Editing : newRole[c] # "owner" => Owners \ {target[c]} # {}

LEMMA OwnersInit == MembersInit => OwnersInv
<1> SUFFICES ASSUME MembersInit
             PROVE  OwnersInv
  OBVIOUS
<1>1. ~founded
  BY Zenon DEF MembersInit
<1>2. Editing = {}
  BY DEF MembersInit, Editing
<1>3. QED
  BY <1>1, <1>2, Zenon DEF OwnersInv

\* What NoteOverlap tells about the steps that are not noted.
LEMMA NotOverlapping ==
  ASSUME MembersInv, NoteOverlap, ~overlapped'
  PROVE  ~overlapped /\ \A c, d \in Editing' : c = d
<1> DEFINE editing == {c \in Calls : doing'[c] \in {"edit", "remove"}}
<1>1. ~overlapped /\ ~(Cardinality(editing) > 1)
  BY Zenon DEF NoteOverlap
<1>2. editing \in SUBSET Calls /\ Editing' = editing
  BY DEF Editing
<1>3. IsFiniteSet(editing)
  BY <1>2, MembershipConstants, FS_Subset
<1> HIDE DEF editing
<1>4. QED
  BY <1>1, <1>2, <1>3, OneAtMost

\* The steps that start no role edit and take nobody's role away.
LEMMA OwnersFrame ==
  ASSUME MembersInv, OwnersInv, NoteOverlap, Owners \subseteq Owners', founded' => founded,
         \A c \in Calls : doing'[c] \in {"edit", "remove"} =>
            doing[c] = doing'[c] /\ target'[c] = target[c] /\ newRole'[c] = newRole[c]
  PROVE  OwnersInv'
<1> SUFFICES ASSUME ~overlapped'
             PROVE  OwnersInv'
  BY DEF OwnersInv
<1>1. ~overlapped /\ \A c, d \in Editing' : c = d
  BY NotOverlapping
<1>2. founded' => Owners' # {}
  BY <1>1 DEF OwnersInv
<1>3. ASSUME NEW c \in Editing', newRole'[c] # "owner"
      PROVE  Owners' \ {target'[c]} # {}
  <2>1. c \in Editing /\ target'[c] = target[c] /\ newRole'[c] = newRole[c]
    BY DEF Editing
  <2>2. Owners \ {target[c]} # {}
    BY <1>1, <1>3, <2>1 DEF OwnersInv
  <2>3. QED
    BY <2>1, <2>2
<1>4. QED
  BY <1>1, <1>2, <1>3 DEF OwnersInv

LEMMA CheckedOwners ==
  ASSUME MembersInv, OwnersInv, NoteOverlap, NEW c \in Calls,
         UNCHANGED <<founded, role>>,
         doing'[c] \in {"edit", "remove"},
         newRole'[c] # "owner" => Owners \ {target'[c]} # {}
  PROVE  OwnersInv'
<1> SUFFICES ASSUME ~overlapped'
             PROVE  OwnersInv'
  BY DEF OwnersInv
<1>1. ~overlapped /\ \A a, b \in Editing' : a = b
  BY NotOverlapping
<1>2. \A a \in Editing' : a = c
  <2>1. c \in Editing'
    BY DEF Editing
  <2>2. QED
    BY <1>1, <2>1
<1>3. Owners' = Owners
  BY DEF Owners
<1>4. QED
  BY <1>1, <1>2, <1>3 DEF OwnersInv

LEMMA WrittenOwners ==
  ASSUME MembersInv, OwnersInv, NoteOverlap, NEW c \in Calls,
         UpdateMember(c) \/ RemoveMember(c)
  PROVE  OwnersInv'
<1> SUFFICES ASSUME ~overlapped'
             PROVE  OwnersInv'
  BY DEF OwnersInv
<1> DEFINE p == target[c]
<1>1. ~overlapped /\ \A a, b \in Editing' : a = b
  BY NotOverlapping
<1>2. /\ c \in Editing /\ p \in People /\ founded' = founded
      /\ doing' = [doing EXCEPT ![c] = "idle"]
  BY DEF UpdateMember, RemoveMember, Ends, Editing, MembersInv, CallsInv
<1>3. \A a \in Editing : a = c
  BY <1>1, <1>2 DEF OwnersInv
<1>4. Editing' = {}
  <2>1. c \notin Editing' /\ Editing' \subseteq Editing
    BY <1>2 DEF Editing, MembersInv, MembersTypeOK
  <2>2. QED
    BY <1>3, <2>1
<1>5. Owners' # {}
  <2>1. CASE newRole[c] # "owner"
    <3>1. PICK q \in Owners : q # p
      BY <1>1, <1>2, <2>1 DEF OwnersInv
    <3>2. q \in People /\ role[q] = "owner" /\ role'[q] = role[q]
      BY <3>1 DEF Owners, UpdateMember, RemoveMember, MembersInv, MembersTypeOK
    <3>3. QED
      BY <3>2 DEF Owners
  <2>2. CASE newRole[c] = "owner" /\ UpdateMember(c)
    <3>1. role' = [role EXCEPT ![p] = IF @ = "none" THEN @ ELSE "owner"]
      BY <2>2 DEF UpdateMember
    <3>2. Owners \subseteq Owners'
      BY <3>1 DEF Owners, MembersInv, MembersTypeOK
    <3>3. Owners # {}
      BY <1>1, <1>2 DEF OwnersInv, Editing, MembersInv, CallsInv
    <3>4. QED
      BY <3>2, <3>3
  <2>3. CASE newRole[c] = "owner" /\ RemoveMember(c)
    <3>1. doing[c] = "remove"
      BY <2>3 DEF RemoveMember
    <3>2. QED
      BY <2>3, <3>1 DEF MembersInv, CallsInv
  <2>4. QED
    BY <2>1, <2>2, <2>3
<1>6. QED
  BY <1>4, <1>5 DEF OwnersInv

LEMMA OwnersStep == MembersInv /\ OwnersInv /\ [MembersNext]_membersVars => OwnersInv'
<1> SUFFICES ASSUME MembersInv, OwnersInv, [MembersNext]_membersVars
             PROVE  OwnersInv'
  OBVIOUS
<1> USE DEF people, invites, calls
<1>1. CASE UNCHANGED membersVars
  BY <1>1 DEF membersVars, OwnersInv, Editing, Owners
<1>2. ASSUME MembersNext
      PROVE  OwnersInv'
  <2>0. NoteOverlap
    BY <1>2 DEF MembersNext
  <2>1. ASSUME NEW p \in People, FoundedBy(p), UNCHANGED calls
        PROVE  OwnersInv'
    <3>1. Editing' = {}
      BY <2>1 DEF FoundedBy, Editing, MembersInv, CallsInv
    <3>2. p \in Owners'
      BY <2>1 DEF FoundedBy, Owners, MembersInv, MembersTypeOK
    <3>3. QED
      BY <3>1, <3>2 DEF OwnersInv
  <2>2. CASE AccountStep \/ InviteStep
             \/ \E caller, p \in People : ResetMemberPassword(caller, p)
    <3>1. ASSUME ~\E p \in People : FoundedBy(p)
          PROVE  OwnersInv'
      <4>1. /\ UNCHANGED <<doing, target, newRole, founded>>
        BY <2>2, <3>1
        DEF AccountStep, InviteStep, ResetMemberPassword, Signup, CreateCompany, ChangeTier,
            InviteExpires, AcceptInvite
      <4>2. Owners \subseteq Owners'
        BY <2>2, <3>1
        DEF AccountStep, InviteStep, ResetMemberPassword, Signup, CreateCompany, ChangeTier,
            InviteExpires, AcceptInvite, Owners, MembersInv, MembersTypeOK
      <4>3. QED
        BY <2>0, <4>1, <4>2, OwnersFrame
    <3>2. ASSUME NEW p \in People, FoundedBy(p)
          PROVE  OwnersInv'
      BY <2>1, <2>2, <3>2
      DEF AccountStep, InviteStep, ResetMemberPassword, Signup, CreateCompany, ChangeTier,
          InviteExpires, AcceptInvite
    <3>3. QED
      BY <3>1, <3>2
  <2>3. ASSUME NEW c \in Calls, AdmissionStep(c)
        PROVE  OwnersInv'
    <3>1. /\ founded' = founded
          /\ \A d \in Calls : doing'[d] \in {"edit", "remove"} =>
                doing[d] = doing'[d] /\ target'[d] = target[d] /\ newRole'[d] = newRole[d]
      BY <2>3
      DEF AdmissionStep, GateAddUser, CreateMember, CheckInvite, CreateInviteToken, Intends,
          Ends, MembersInv, MembersTypeOK
    <3>2. Owners \subseteq Owners'
      BY <2>3
      DEF AdmissionStep, GateAddUser, CreateMember, CheckInvite, CreateInviteToken,
          Owners, MembersInv, MembersTypeOK
    <3>3. QED
      BY <2>0, <3>1, <3>2, OwnersFrame
  <2>4. ASSUME NEW c \in Calls, EditStep(c)
        PROVE  OwnersInv'
    <3>1. ASSUME NEW caller \in People, NEW p \in People,
                 CheckRemove(c, caller, p) \/ \E r \in Roles : CheckEdit(c, caller, p, r)
          PROVE  OwnersInv'
      <4>1. /\ UNCHANGED <<founded, role>> /\ doing'[c] \in {"edit", "remove"}
            /\ target'[c] = p
        BY <3>1 DEF CheckRemove, CheckEdit, Intends, MembersInv, MembersTypeOK
      <4>2. role[p] = "owner" /\ newRole'[c] # "owner" => Owners \ {p} # {}
        BY <3>1
        DEF CheckRemove, CheckEdit, Intends, LeavesAnOwner, MembersInv, MembersTypeOK
      <4>3. ASSUME ~overlapped, role[p] # "owner"
            PROVE  Owners \ {p} # {}
        <5>1. founded
          BY <3>1 DEF CheckRemove, CheckEdit, MembersInv, MembersTypeOK, Members
        <5>2. Owners # {} /\ p \notin Owners
          BY <4>3, <5>1 DEF OwnersInv, Owners
        <5>3. QED
          BY <5>2
      <4>4. CASE overlapped
        BY <2>0, <4>4, Zenon DEF NoteOverlap, OwnersInv
      <4>5. CASE ~overlapped
        BY <2>0, <4>1, <4>2, <4>3, <4>5, CheckedOwners
      <4>6. QED
        BY <4>4, <4>5
    <3>2. QED
      BY <2>0, <2>4, <3>1, WrittenOwners DEF EditStep
  <2>5. QED
    BY <1>2, <2>2, <2>3, <2>4 DEF MembersNext
<1>3. QED
  BY <1>1, <1>2

(***************************************************************************)
(* Seats.  A request past the gate holds a seat it may still take.         *)
(***************************************************************************)
Adding == {c \in Calls : doing[c] = "add"}
Seated == Members \ invited

SeatsInv == Cardinality(Seated) + Cardinality(Adding) <= peak + Cardinality(Calls) - 1

Counts ==
    /\ IsFiniteSet(Calls) /\ Cardinality(Calls) \in Nat \ {0}
    /\ IsFiniteSet(Members) /\ Cardinality(Members) \in Nat
    /\ IsFiniteSet(Seated) /\ Cardinality(Seated) \in Nat
    /\ Cardinality(Seated) <= Cardinality(Members)
    /\ IsFiniteSet(Adding) /\ Cardinality(Adding) \in Nat
    /\ Cardinality(Adding) <= Cardinality(Calls)
    /\ peak \in Nat \ {0} /\ seats \in Nat /\ seats <= peak

LEMMA SeatsFacts == MembersInv => Counts
<1> SUFFICES ASSUME MembersInv
             PROVE  Counts
  OBVIOUS
<1>1. Cardinality(Calls) \in Nat \ {0}
  BY MembershipConstants, FS_CardinalityType, FS_EmptySet
<1>2. Members \in SUBSET People /\ Seated \in SUBSET Members /\ Adding \in SUBSET Calls
  BY DEF Members, Seated, Adding
<1>3. IsFiniteSet(Members) /\ Cardinality(Members) \in Nat
  BY <1>2, CountNat, MembershipConstants
<1>4. /\ IsFiniteSet(Seated) /\ Cardinality(Seated) \in Nat
      /\ Cardinality(Seated) <= Cardinality(Members)
  BY <1>2, <1>3, CountNat
<1>5. /\ IsFiniteSet(Adding) /\ Cardinality(Adding) \in Nat
      /\ Cardinality(Adding) <= Cardinality(Calls)
  BY <1>2, CountNat, MembershipConstants
<1>6. peak \in Nat \ {0} /\ seats \in Nat /\ seats <= peak
  BY MembershipConstants DEF MembersInv, MembersTypeOK
<1>7. QED
  BY <1>1, <1>3, <1>4, <1>5, <1>6, MembershipConstants DEF Counts

LEMMA SeatsInit == MembersInit => SeatsInv
<1> SUFFICES ASSUME MembersInit
             PROVE  SeatsInv
  OBVIOUS
<1>1. Seated = {} /\ Adding = {}
  BY DEF MembersInit, Seated, Adding, Members
<1>2. peak \in Nat \ {0} /\ Cardinality(Calls) \in Nat \ {0}
  BY MembersTypeInit, SeatsFacts DEF Counts
<1>3. QED
  BY <1>1, <1>2, FS_EmptySet DEF SeatsInv

LEMMA SeatsFrame ==
  ASSUME MembersInv, MembersInv', SeatsInv, Seated' \subseteq Seated, Adding' \subseteq Adding,
         peak <= peak'
  PROVE  SeatsInv'
<1>1. Counts /\ Counts'
  BY SeatsFacts, PTL
<1>2. Cardinality(Seated') <= Cardinality(Seated) /\ Cardinality(Adding') <= Cardinality(Adding)
  BY <1>1, CountNat DEF Counts
<1>3. /\ Cardinality(Seated') \in Nat /\ Cardinality(Adding') \in Nat /\ peak' \in Nat
  BY <1>1 DEF Counts
<1>4. /\ Cardinality(Seated) \in Nat /\ Cardinality(Adding) \in Nat /\ peak \in Nat
      /\ Cardinality(Calls) \in Nat
  BY <1>1 DEF Counts
<1>5. QED
  BY <1>2, <1>3, <1>4 DEF SeatsInv

LEMMA SeatsStep ==
  MembersInv /\ MembersInv' /\ SeatsInv /\ [MembersNext]_membersVars => SeatsInv'
<1> SUFFICES ASSUME MembersInv, MembersInv', SeatsInv, [MembersNext]_membersVars
             PROVE  SeatsInv'
  OBVIOUS
<1>0. Counts /\ Counts'
  BY SeatsFacts, PTL
<1> USE DEF people, invites, calls
<1>1. CASE UNCHANGED membersVars
  BY <1>1 DEF membersVars, SeatsInv, Seated, Members, Adding
<1>2. ASSUME NEW p \in People, FoundedBy(p), UNCHANGED <<invited, seats, peak, calls>>
      PROVE  SeatsInv'
  <2>1. Adding' = {} /\ Seated' \in SUBSET ({} \cup {p})
    BY <1>2 DEF FoundedBy, Adding, Seated, Members, MembersInv, MembersTypeOK, CallsInv
  <2>2. Cardinality(Seated') \in Nat /\ Cardinality(Seated') <= 1 /\ Cardinality(Adding') = 0
    BY <2>1, CountMore, FS_EmptySet
  <2>3. peak \in Nat \ {0} /\ Cardinality(Calls) \in Nat \ {0} /\ peak' = peak
    BY <1>0, <1>2 DEF Counts
  <2>4. QED
    BY <2>2, <2>3 DEF SeatsInv
<1>3. ASSUME AccountStep, ~\E p \in People : FoundedBy(p)
      PROVE  SeatsInv'
  <2>1. role' = role /\ invited' = invited /\ doing' = doing
    BY <1>3 DEF AccountStep, Signup, CreateCompany, ChangeTier
  <2>2. peak <= peak'
    BY <1>3, MembershipConstants
    DEF AccountStep, Signup, CreateCompany, ChangeTier, MembersInv, MembersTypeOK
  <2>3. Seated' = Seated /\ Adding' = Adding
    BY <2>1 DEF Seated, Members, Adding
  <2>4. QED
    BY <1>0, <2>2, <2>3, SeatsFrame
<1>4. ASSUME NEW c \in Calls, AdmissionStep(c)
      PROVE  SeatsInv'
  <2>1. ASSUME NEW p \in People, NEW r \in AllowedInviteRoles, GateAddUser(c, p, r)
        PROVE  SeatsInv'
    <3>1. Cardinality(Members) < seats /\ peak' = peak /\ Seated' = Seated
      BY <2>1 DEF GateAddUser, SeatFree, Seated, Members
    <3>2. Cardinality(Adding') \in Nat /\ Cardinality(Adding') <= Cardinality(Calls)
      BY <1>0 DEF Counts
    <3>3. QED
      BY <3>1, <3>2, <1>0 DEF SeatsInv, Counts
  <2>2. ASSUME NEW caller \in People, CreateMember(c, caller)
        PROVE  SeatsInv'
    <3>1. c \in Adding /\ Adding' = Adding \ {c} /\ peak' = peak
      BY <2>2 DEF CreateMember, Ends, Adding, MembersInv, MembersTypeOK
    <3>2. Seated' \in SUBSET (Seated \cup {target[c]})
      BY <2>2 DEF CreateMember, Seated, Members, MembersInv, MembersTypeOK
    <3>3. Cardinality(Seated') \in Nat /\ Cardinality(Seated') <= Cardinality(Seated) + 1
      BY <3>2, <1>0, CountMore DEF Counts
    <3>4. Cardinality(Adding') = Cardinality(Adding) - 1
      BY <3>1, <1>0, CountLess DEF Counts
    <3>5. QED
      BY <3>1, <3>3, <3>4, <1>0 DEF SeatsInv, Counts
  <2>3. ASSUME (\E p \in People, r \in AllowedInviteRoles, caller \in People :
                   CheckInvite(c, caller, p, r))
               \/ \E t \in Tokens : CreateInviteToken(c, t)
        PROVE  SeatsInv'
    <3>1. peak' = peak /\ Seated' = Seated
      BY <2>3 DEF CheckInvite, CreateInviteToken, Seated, Members
    <3>2. Adding' \subseteq Adding
      BY <2>3
      DEF CheckInvite, CreateInviteToken, Intends, Ends, Adding, MembersInv, MembersTypeOK
    <3>3. QED
      BY <3>1, <3>2, <1>0, SeatsFrame DEF Counts
  <2>4. QED
    BY <1>4, <2>1, <2>2, <2>3 DEF AdmissionStep
<1>5. ASSUME InviteStep
      PROVE  SeatsInv'
  <2>1. peak' = peak /\ Adding' = Adding
    BY <1>5 DEF InviteStep, InviteExpires, AcceptInvite, Adding
  <2>2. Seated' \subseteq Seated
    BY <1>5
    DEF InviteStep, InviteExpires, AcceptInvite, Seated, Members, MembersInv, MembersTypeOK
  <2>3. QED
    BY <2>1, <2>2, <1>0, SeatsFrame DEF Counts
<1>6. ASSUME NEW c \in Calls, EditStep(c)
      PROVE  SeatsInv'
  <2>1. peak' = peak
    BY <1>6 DEF EditStep, CheckRemove, CheckEdit, UpdateMember, RemoveMember
  <2>2. Adding' \subseteq Adding
    BY <1>6
    DEF EditStep, CheckRemove, CheckEdit, UpdateMember, RemoveMember, Intends, Ends, Adding,
        MembersInv, MembersTypeOK
  <2>3. Seated' \subseteq Seated
    BY <1>6
    DEF EditStep, CheckRemove, CheckEdit, UpdateMember, RemoveMember, Seated, Members,
        MembersInv, MembersTypeOK
  <2>4. QED
    BY <2>1, <2>2, <2>3, <1>0, SeatsFrame DEF Counts
<1>7. ASSUME NEW caller \in People, NEW p \in People, ResetMemberPassword(caller, p)
      PROVE  SeatsInv'
  BY <1>7 DEF ResetMemberPassword, SeatsInv, Seated, Members, Adding
<1>8. CASE AccountStep
  <2>1. ASSUME NEW p \in People, FoundedBy(p)
        PROVE  SeatsInv'
    <3>1. ~(founded' = founded)
      BY <2>1 DEF FoundedBy
    <3>2. \E q \in People : FoundedBy(q) /\ UNCHANGED <<invited, seats, peak, calls>>
      BY <1>8, <3>1, Zenon DEF AccountStep, Signup, CreateCompany, ChangeTier
    <3>3. QED
      BY <1>2, <3>2
  <2>2. QED
    BY <1>3, <1>8, <2>1
<1>9. QED
  BY <1>1, <1>4, <1>5, <1>6, <1>7, <1>8 DEF MembersNext

\* Two gates count and then write.  The one leaves the company an owner as long as
\* no two role edits overlap; the other lets in at most one member too many for
\* every further request in flight, however many tiers, invites and removals come in
\* between.
THEOREM OwnersAndSeatsHold == MembersSpec => []OwnersAndSeats
<1> DEFINE Inv == MembersInv /\ OwnersInv /\ SeatsInv
<1>1. MembersInit => Inv
  BY MembersTypeInit, OwnersInit, SeatsInit
<1>2. Inv /\ [MembersNext]_membersVars => Inv'
  BY MembersTypeStep, OwnersStep, SeatsStep
<1>3. Inv => OwnersAndSeats
  <2> SUFFICES ASSUME MembersInv, OwnersInv, SeatsInv
               PROVE  OwnersAndSeats
    OBVIOUS
  <2>1. SomeOwner
    BY DEF OwnersInv, SomeOwner
  <2>2. SeatsBounded
    BY SeatsFacts DEF Counts, SeatsInv, SeatsBounded, Seated
  <2>3. QED
    BY <2>1, <2>2 DEF OwnersAndSeats
<1>4. QED
  BY <1>1, <1>2, <1>3, PTL DEF MembersSpec

(***************************************************************************)
(* Billing.  The rows, the sessions and the events name customers that     *)
(* Stripe has created.                                                     *)
(***************************************************************************)
EventTypes ==
    [kind : {"subscription"}, status : Statuses, price : Prices]
      \cup [kind : {"session"}, customer : customers]

BillingInv ==
    /\ BillingTypeOK /\ events \in Seq(EventTypes) /\ IsFiniteSet(customers)
    /\ retrieved # Unset => Len(events) < sent

LEMMA Joined ==
  ASSUME NEW S, NEW q \in Seq(S), NEW r \in Seq(S)
  PROVE  /\ q \o r \in Seq(S) /\ Len(q \o r) = Len(q) + Len(r)
         /\ \A j \in 1 .. Len(q) + Len(r) :
               (q \o r)[j] = IF j <= Len(q) THEN q[j] ELSE r[j - Len(q)]
  OBVIOUS

LEMMA OneRemoved ==
  ASSUME NEW S, NEW q \in Seq(S), NEW i \in DOMAIN q
  PROVE  /\ RemoveAt(q, i) \in Seq(S) /\ Len(RemoveAt(q, i)) = Len(q) - 1
         /\ \A j \in 1 .. Len(q) - 1 : RemoveAt(q, i)[j] = IF j < i THEN q[j] ELSE q[j + 1]
<1>1. i \in 1 .. Len(q) /\ Len(q) \in Nat
  OBVIOUS
<1> DEFINE A == SubSeq(q, 1, i - 1)
           B == SubSeq(q, i + 1, Len(q))
<1>2. A \in Seq(S) /\ Len(A) = i - 1 /\ \A j \in 1 .. i - 1 : A[j] = q[j]
  BY <1>1
<1>3. B \in Seq(S) /\ Len(B) = Len(q) - i /\ \A j \in 1 .. Len(q) - i : B[j] = q[i + j]
  BY <1>1
<1>4. RemoveAt(q, i) = A \o B
  BY DEF RemoveAt
<1> HIDE DEF A, B
<1>5. /\ A \o B \in Seq(S) /\ Len(A \o B) = Len(q) - 1
      /\ \A j \in 1 .. Len(q) - 1 :
            (A \o B)[j] = IF j <= i - 1 THEN A[j] ELSE B[j - (i - 1)]
  <2>1. Len(A) + Len(B) = Len(q) - 1
    BY <1>1, <1>2, <1>3
  <2>2. /\ A \o B \in Seq(S) /\ Len(A \o B) = Len(A) + Len(B)
        /\ \A j \in 1 .. Len(A) + Len(B) :
              (A \o B)[j] = IF j <= Len(A) THEN A[j] ELSE B[j - Len(A)]
    BY <1>2, <1>3, Joined
  <2>3. QED
    BY <1>2, <2>1, <2>2
<1>6. ASSUME NEW j \in 1 .. Len(q) - 1
      PROVE  (A \o B)[j] = IF j < i THEN q[j] ELSE q[j + 1]
  <2>1. CASE j < i
    <3>1. j \in 1 .. i - 1 /\ j <= i - 1
      BY <1>1, <2>1
    <3>2. QED
      BY <1>2, <1>5, <2>1, <3>1
  <2>2. CASE ~(j < i)
    <3>1. j - (i - 1) \in 1 .. Len(q) - i /\ ~(j <= i - 1) /\ i + (j - (i - 1)) = j + 1
      BY <1>1, <2>2
    <3>2. QED
      BY <1>3, <1>5, <2>2, <3>1
  <2>3. QED
    BY <2>1, <2>2
<1>7. QED
  BY <1>4, <1>5, <1>6

LEMMA PairSeq ==
  ASSUME NEW S, NEW x \in S, NEW y \in S
  PROVE  <<x, y>> \in Seq(S) /\ Len(<<x, y>>) = 2
  OBVIOUS

LEMMA BillingTypeInit == BillingInit => BillingInv
<1> SUFFICES ASSUME BillingInit
             PROVE  BillingInv
  OBVIOUS
<1>1. disordered \in BOOLEAN
  BY Zenon DEF BillingInit
<1>2. (CHOOSE p \in Sold : TRUE) \in Sold
  BY BillingConstants
<1>3. QED
  BY <1>1, <1>2, BillingConstants, FS_EmptySet
  DEF BillingInit, BillingInv, BillingTypeOK, Statuses, Tiers

LEMMA CheckoutStepType ==
  ASSUME BillingInv, NEW c \in Checkouts, CheckoutStep(c)
  PROVE  BillingInv'
<1> USE BillingConstants DEF BillingInv, BillingTypeOK, row, requests, subscription, webhook
<1>1. disordered' \in BOOLEAN
  <2>1. disordered \in BOOLEAN /\ disordered' = disordered
    BY Zenon DEF CheckoutStep, CreateCustomer, StoreCustomer, CheckoutDies
  <2>2. QED
    BY <2>1, Zenon
<1>2. ASSUME NEW k \in Customers, NEW p \in Sold, CreateCustomer(c, k, p)
      PROVE  BillingInv'
  <2>1. customers' = customers \cup {k} /\ IsFiniteSet(customers')
    BY <1>2, FS_AddElement DEF CreateCustomer
  <2>2. EventTypes \subseteq EventTypes'
    BY <2>1 DEF EventTypes
  <2>3. events' \in Seq(EventTypes')
    BY <1>2, <2>2 DEF CreateCustomer
  <2>4. BillingTypeOK'
    BY <1>1, <1>2, <2>1 DEF CreateCustomer
  <2>5. UNCHANGED <<retrieved, events, sent>>
    BY <1>2 DEF CreateCustomer
  <2>6. QED
    BY <2>1, <2>3, <2>4, <2>5
<1>3. CASE StoreCustomer(c)
  <2>1. BillingTypeOK'
    BY <1>1, <1>3 DEF StoreCustomer
  <2>2. QED
    BY <1>3, <2>1 DEF StoreCustomer, EventTypes
<1>4. CASE CheckoutDies(c)
  <2>1. BillingTypeOK'
    BY <1>1, <1>4 DEF CheckoutDies
  <2>2. QED
    BY <1>4, <2>1 DEF CheckoutDies, EventTypes
<1>5. QED
  BY <1>2, <1>3, <1>4 DEF CheckoutStep

LEMMA StripeStepType ==
  ASSUME BillingInv,
         \/ \E k \in Customers, p \in Sold : SessionCompleted(k, p)
         \/ \E s \in Statuses, p \in Prices : SubscriptionChanges(s, p)
  PROVE  BillingInv'
<1> USE BillingConstants DEF BillingInv, BillingTypeOK, row, requests
<1>1. disordered' \in BOOLEAN
  <2>1. disordered \in BOOLEAN /\ disordered' = disordered
    BY Zenon DEF SessionCompleted, SubscriptionChanges, Emit
  <2>2. QED
    BY <2>1, Zenon
<1>2. ASSUME NEW k \in Customers, NEW p \in Sold, SessionCompleted(k, p)
      PROVE  BillingInv'
  <2>1. /\ k \in customers /\ p \in Prices /\ sessions' \subseteq sessions
        /\ status' = "active" /\ price' = p /\ payer' = k
        /\ UNCHANGED <<tier, customer, creating, wanted, customers, mishaps, retrieved>>
    BY <1>2 DEF SessionCompleted, Emit
  <2>2. PICK es \in Seq(EventTypes) : Len(es) = 2 /\ Emit(es)
    <3>1. SubscriptionEvent("active", p) \in EventTypes /\ SessionEvent(k) \in EventTypes
      BY <2>1 DEF SubscriptionEvent, SessionEvent, EventTypes, Statuses
    <3> DEFINE a == SubscriptionEvent("active", p)
               b == SessionEvent(k)
    <3>2. Emit(<<a, b>>) \/ Emit(<<b, a>>)
      BY <1>2 DEF SessionCompleted
    <3>3. /\ <<a, b>> \in Seq(EventTypes) /\ Len(<<a, b>>) = 2
          /\ <<b, a>> \in Seq(EventTypes) /\ Len(<<b, a>>) = 2
      BY <3>1, PairSeq
    <3>4. QED
      BY <3>2, <3>3, Zenon
  <2>3. EventTypes' = EventTypes
    BY <2>1 DEF EventTypes
  <2>4. events' \in Seq(EventTypes) /\ Len(events') = Len(events) + 2
    <3>1. events \o es \in Seq(EventTypes) /\ Len(events \o es) = Len(events) + Len(es)
      BY Joined
    <3>2. events' = events \o es /\ Len(events) \in Nat
      BY <2>2 DEF Emit
    <3>3. QED
      BY <2>2, <3>1, <3>2
  <2>5. /\ sent' \in 0 .. MaxEvents /\ Len(events') <= sent'
        /\ retrieved' # Unset => Len(events') < sent'
    BY <2>2, <2>4 DEF Emit
  <2>6. QED
    BY <1>1, <2>1, <2>3, <2>4, <2>5 DEF Statuses
<1>3. ASSUME NEW s \in Statuses, NEW p \in Prices, SubscriptionChanges(s, p)
      PROVE  BillingInv'
  <2>1. /\ status # "none" /\ s # "none" /\ status' = s /\ price' = p
        /\ Emit(<<SubscriptionEvent(s, p)>>)
        /\ UNCHANGED <<tier, customer, creating, wanted, customers, sessions, payer, mishaps,
                       retrieved>>
    BY <1>3 DEF SubscriptionChanges, Emit, Live
  <2>2. EventTypes' = EventTypes /\ <<SubscriptionEvent(s, p)>> \in Seq(EventTypes)
    BY <2>1 DEF EventTypes, SubscriptionEvent
  <2>3. events' \in Seq(EventTypes) /\ Len(events') = Len(events) + 1
    <3> DEFINE es == <<SubscriptionEvent(s, p)>>
    <3>1. es \in Seq(EventTypes) /\ Len(es) = 1 /\ events' = events \o es
      BY <2>1, <2>2 DEF Emit
    <3> HIDE DEF es
    <3>2. events \o es \in Seq(EventTypes) /\ Len(events \o es) = Len(events) + Len(es)
      BY <3>1, Joined, ZenonT(40)
    <3>3. QED
      BY <3>1, <3>2
  <2>4. /\ sent' \in 0 .. MaxEvents /\ Len(events') <= sent'
        /\ retrieved' # Unset => Len(events') < sent'
    BY <2>1, <2>3 DEF Emit
  <2>5. QED
    BY <1>1, <2>1, <2>2, <2>3, <2>4
<1>4. QED
  BY <1>2, <1>3

LEMMA WebhookStepType ==
  ASSUME BillingInv, WebhookStep
  PROVE  BillingInv'
<1> USE BillingConstants DEF BillingInv, BillingTypeOK, row, requests, subscription
<1>1. disordered' \in BOOLEAN
  <2>1. disordered \in BOOLEAN
    BY Zenon
  <2>2. QED
    BY <2>1, Zenon
    DEF WebhookStep, ApplySubscription, BindSession, ApplyRetrieved, HandlerFails, Handled
<1>2. EventTypes' = EventTypes /\ customers' = customers
  BY DEF WebhookStep, ApplySubscription, BindSession, ApplyRetrieved, HandlerFails, EventTypes
<1>3. ASSUME NEW i \in DOMAIN events, Handled(i)
      PROVE  /\ events' \in Seq(EventTypes) /\ sent' \in 0 .. MaxEvents
             /\ Len(events') <= sent' /\ Len(events') < sent'
  <2>1. events' \in Seq(EventTypes) /\ Len(events') = Len(events) - 1 /\ sent' = sent
    BY <1>3, OneRemoved DEF Handled
  <2>2. QED
    BY <2>1
<1>4. ASSUME NEW i \in DOMAIN events, ApplySubscription(i)
      PROVE  BillingInv'
  <2>1. tier' \in Tiers
    BY <1>4 DEF ApplySubscription, TierOf, TierOfPrice, Tiers
  <2>2. QED
    BY <1>1, <1>2, <1>3, <1>4, <2>1 DEF ApplySubscription
<1>5. ASSUME NEW i \in DOMAIN events, BindSession(i)
      PROVE  BillingInv'
  <2>1. events[i] \in EventTypes /\ events[i].kind = "session"
    BY <1>5 DEF BindSession
  <2>2. events[i].customer \in customers
    BY <2>1 DEF EventTypes
  <2>3. customer' \in customers /\ retrieved' \in Statuses \X Prices \X customers
    BY <1>5, <2>2 DEF BindSession
  <2>4. QED
    BY <1>1, <1>2, <1>3, <1>5, <2>3 DEF BindSession
<1>6. CASE ApplyRetrieved
  <2>1. tier' \in Tiers
    BY <1>6 DEF ApplyRetrieved, TierOf, TierOfPrice, Tiers
  <2>2. QED
    BY <1>1, <1>2, <1>6, <2>1 DEF ApplyRetrieved
<1>7. CASE HandlerFails
  <2>1. SessionEvent(retrieved[3]) \in EventTypes
    BY <1>7 DEF HandlerFails, SessionEvent, EventTypes
  <2>2. events' \in Seq(EventTypes) /\ Len(events') = Len(events) + 1
    BY <1>7, <2>1 DEF HandlerFails
  <2>3. QED
    BY <1>1, <1>2, <1>7, <2>2 DEF HandlerFails
<1>8. QED
  BY <1>4, <1>5, <1>6, <1>7 DEF WebhookStep

LEMMA BillingTypeStep == BillingInv /\ [BillingNext]_billingVars => BillingInv'
<1> SUFFICES ASSUME BillingInv, [BillingNext]_billingVars
             PROVE  BillingInv'
  OBVIOUS
<1>1. ASSUME NEW p \in Sold, StartCheckout(p)
      PROVE  BillingInv'
  <2>1. disordered' \in BOOLEAN
    <3>1. disordered \in BOOLEAN /\ disordered' = disordered
      BY <1>1, Zenon DEF StartCheckout, webhook, BillingInv, BillingTypeOK
    <3>2. QED
      BY <3>1, Zenon
  <2>2. EventTypes' = EventTypes
    BY <1>1 DEF StartCheckout, EventTypes
  <2>3. QED
    BY <1>1, <2>1, <2>2
    DEF StartCheckout, HasCustomer, BillingInv, BillingTypeOK, row, requests, subscription,
        webhook
<1>2. CASE UNCHANGED billingVars
  BY <1>2
  DEF billingVars, BillingInv, BillingTypeOK, EventTypes, row, requests, subscription, webhook
<1>3. QED
  BY <1>1, <1>2, CheckoutStepType, StripeStepType, WebhookStepType DEF BillingNext

\* The rows, the sessions and the events keep their type; the customer that is stored
\* or pays is one that Stripe has created.
THEOREM BillingTypeCorrect == BillingSpec => []BillingTypeOK
<1>1. BillingInv => BillingTypeOK
  BY DEF BillingInv
<1>2. QED
  BY BillingTypeInit, BillingTypeStep, <1>1, PTL DEF BillingSpec

(***************************************************************************)
(* Customers.  While none is stored, every customer Stripe knows is one a  *)
(* request still holds or one whose request was cut short; once one is     *)
(* stored no request creates another.                                      *)
(***************************************************************************)
Holding == {c \in Checkouts : creating[c] # Unset}

CustomersInv ==
    /\ customer = Unset => Cardinality(customers) <= Cardinality(Holding) + mishaps
    /\ Cardinality(customers) <= Cardinality(Checkouts) + mishaps

CustomerCounts ==
    /\ IsFiniteSet(Holding) /\ Cardinality(Holding) \in Nat
    /\ Cardinality(Holding) <= Cardinality(Checkouts) /\ Cardinality(Checkouts) \in Nat
    /\ IsFiniteSet(customers) /\ Cardinality(customers) \in Nat
    /\ mishaps \in Nat /\ Unset \notin customers

LEMMA HoldingCounts == BillingInv => CustomerCounts
<1> SUFFICES ASSUME BillingInv
             PROVE  CustomerCounts
  OBVIOUS
<1>1. Holding \in SUBSET Checkouts /\ IsFiniteSet(Checkouts)
  BY BillingConstants DEF Holding
<1>2. IsFiniteSet(customers) /\ mishaps \in Nat /\ Unset \notin customers
  BY BillingConstants DEF BillingInv, BillingTypeOK
<1>3. QED
  BY <1>1, <1>2, CountNat, FS_CardinalityType DEF CustomerCounts

LEMMA CustomersInit == BillingInit => CustomersInv
<1> SUFFICES ASSUME BillingInit
             PROVE  CustomersInv
  OBVIOUS
<1>1. customers = {} /\ mishaps = 0
  BY DEF BillingInit
<1>2. /\ Cardinality(customers) = 0 /\ Cardinality(Holding) \in Nat
      /\ Cardinality(Checkouts) \in Nat
  BY <1>1, BillingTypeInit, HoldingCounts, FS_EmptySet DEF CustomerCounts
<1>3. QED
  BY <1>1, <1>2 DEF CustomersInv

LEMMA CustomersStep ==
  BillingInv /\ BillingInv' /\ CustomersInv /\ [BillingNext]_billingVars => CustomersInv'
<1> SUFFICES ASSUME BillingInv, BillingInv', CustomersInv, [BillingNext]_billingVars
             PROVE  CustomersInv'
  OBVIOUS
<1> USE DEF row, requests, subscription, webhook
<1>0. CustomerCounts /\ CustomerCounts'
  BY HoldingCounts, PTL
<1>1. /\ IsFiniteSet(Holding) /\ Cardinality(Holding) \in Nat
      /\ Cardinality(Checkouts) \in Nat
      /\ IsFiniteSet(customers) /\ Cardinality(customers) \in Nat
      /\ mishaps \in Nat /\ Unset \notin customers
  BY <1>0 DEF CustomerCounts
<1>2. /\ IsFiniteSet(Holding') /\ Cardinality(Holding') \in Nat
      /\ Cardinality(Holding') <= Cardinality(Checkouts)
  BY <1>0 DEF CustomerCounts
<1>3. ASSUME NEW c \in Checkouts, NEW k \in Customers, NEW p \in Sold, CreateCustomer(c, k, p)
      PROVE  CustomersInv'
  <2>1. /\ customer = Unset /\ customer' = Unset /\ mishaps' = mishaps
        /\ customers' = customers \cup {k} /\ k \notin customers
        /\ creating[c] = Unset /\ creating' = [creating EXCEPT ![c] = k] /\ k # Unset
    BY <1>3, BillingConstants DEF CreateCustomer, HasCustomer
  <2>2. Holding' = Holding \cup {c} /\ c \notin Holding
    BY <2>1 DEF Holding, BillingInv, BillingTypeOK
  <2>3. /\ Cardinality(customers') = Cardinality(customers) + 1
        /\ Cardinality(Holding') = Cardinality(Holding) + 1
    BY <1>1, <2>1, <2>2, FS_AddElement
  <2>4. QED
    BY <1>1, <1>2, <2>1, <2>3 DEF CustomersInv
<1>4. ASSUME customers' = customers, mishaps' = mishaps, customer' # Unset
      PROVE  CustomersInv'
  BY <1>4 DEF CustomersInv
<1>5. ASSUME NEW c \in Checkouts, StoreCustomer(c)
      PROVE  CustomersInv'
  BY <1>4, <1>5 DEF StoreCustomer
<1>6. ASSUME NEW i \in DOMAIN events, BindSession(i)
      PROVE  CustomersInv'
  <2>1. events[i] \in EventTypes /\ events[i].kind = "session"
    BY <1>6 DEF BindSession, BillingInv
  <2>2. customer' \in customers
    BY <1>6, <2>1 DEF BindSession, EventTypes
  <2>3. QED
    BY <1>1, <1>4, <1>6, <2>2 DEF BindSession
<1>7. ASSUME NEW c \in Checkouts, CheckoutDies(c)
      PROVE  CustomersInv'
  <2>1. /\ c \in Holding /\ Holding' = Holding \ {c} /\ mishaps' = mishaps + 1
        /\ customer' = customer /\ customers' = customers
    BY <1>7 DEF CheckoutDies, Holding, BillingInv, BillingTypeOK
  <2>2. Cardinality(Holding') = Cardinality(Holding) - 1
    BY <1>1, <2>1, CountLess
  <2>3. QED
    BY <1>1, <2>1, <2>2 DEF CustomersInv
<1>8. ASSUME UNCHANGED <<customer, customers, creating>>, mishaps' \in {mishaps, mishaps + 1}
      PROVE  CustomersInv'
  <2>1. Holding' = Holding
    BY <1>8 DEF Holding
  <2>2. QED
    BY <1>1, <1>8, <2>1 DEF CustomersInv
<1>9. ASSUME NEW c \in Checkouts, CheckoutStep(c)
      PROVE  CustomersInv'
  BY <1>3, <1>5, <1>7, <1>9 DEF CheckoutStep
<1>10. ASSUME WebhookStep
       PROVE  CustomersInv'
  <2>1. CASE UNCHANGED <<customer, customers, creating>> /\ mishaps' \in {mishaps, mishaps + 1}
    BY <1>8, <2>1
  <2>2. QED
    BY <1>6, <1>10, <2>1 DEF WebhookStep, ApplySubscription, ApplyRetrieved, HandlerFails
<1>11. CASE \/ \E p \in Sold : StartCheckout(p)
            \/ \E k \in Customers, p \in Sold : SessionCompleted(k, p)
            \/ \E s \in Statuses, p \in Prices : SubscriptionChanges(s, p)
            \/ UNCHANGED billingVars
  <2>1. UNCHANGED <<customer, customers, creating, mishaps>>
    BY <1>11 DEF StartCheckout, SessionCompleted, SubscriptionChanges, billingVars
  <2>2. QED
    BY <1>8, <2>1
<1>12. QED
  BY <1>9, <1>10, <1>11 DEF BillingNext

(***************************************************************************)
(* The tier.  As long as no event overtakes another the subscription as it *)
(* is now is what the last event of it says; when none is left, the tier   *)
(* is that of the subscription, and so is what a handler has retrieved.    *)
(***************************************************************************)
IsLast(i) == /\ events[i].kind = "subscription"
             /\ \A j \in DOMAIN events : j > i => events[j].kind # "subscription"
NoneLeft == \A i \in DOMAIN events : events[i].kind # "subscription"

TierInv ==
    ~disordered =>
        /\ \A i \in DOMAIN events :
              IsLast(i) => events[i].status = status /\ events[i].price = price
        /\ NoneLeft => /\ tier = TierOf(status, price)
                       /\ retrieved # Unset => retrieved[1] = status /\ retrieved[2] = price

LEMMA TierInit == BillingInit => TierInv
<1> SUFFICES ASSUME BillingInit
             PROVE  TierInv
  OBVIOUS
<1>1. tier = TierOf(status, price) /\ retrieved = Unset /\ DOMAIN events = {}
  BY DEF BillingInit, TierOf, EndsTier
<1>2. QED
  BY <1>1 DEF TierInv

LEMMA TierStep == BillingInv /\ TierInv /\ [BillingNext]_billingVars => TierInv'
<1> SUFFICES ASSUME BillingInv, TierInv, [BillingNext]_billingVars
             PROVE  TierInv'
  OBVIOUS
<1> USE DEF row, requests, subscription, webhook
<1>0. Len(events) \in Nat /\ DOMAIN events = 1 .. Len(events) /\ events \in Seq(EventTypes)
  BY DEF BillingInv
<1>1. ASSUME NEW es \in Seq(EventTypes), Emit(es), NEW i \in DOMAIN es,
             es[i].kind = "subscription", es[i].status = status', es[i].price = price',
             \A j \in DOMAIN es : j # i => es[j].kind # "subscription"
      PROVE  TierInv'
  <2>1. /\ events' = events \o es /\ retrieved' = retrieved /\ disordered' = disordered
        /\ Len(es) \in Nat /\ i \in 1 .. Len(es) /\ DOMAIN es = 1 .. Len(es)
    BY <1>1 DEF Emit
  <2>2. /\ DOMAIN events' = 1 .. Len(events) + Len(es)
        /\ \A j \in 1 .. Len(events) + Len(es) :
              events'[j] = IF j <= Len(events) THEN events[j] ELSE es[j - Len(events)]
    <3>1. /\ events \o es \in Seq(EventTypes) /\ Len(events \o es) = Len(events) + Len(es)
          /\ \A j \in 1 .. Len(events) + Len(es) :
                (events \o es)[j] = IF j <= Len(events) THEN events[j] ELSE es[j - Len(events)]
      BY <1>0, Joined
    <3>2. QED
      BY <2>1, <3>1
  <2> DEFINE last == Len(events) + i
  <2>3. last \in DOMAIN events' /\ events'[last] = es[i]
    <3>1. last \in 1 .. Len(events) + Len(es) /\ ~(last <= Len(events)) /\ last - Len(events) = i
      BY <1>0, <2>1
    <3>2. QED
      BY <2>2, <3>1
  <2>4. ~NoneLeft'
    BY <1>1, <2>3 DEF NoneLeft
  <2>5. ASSUME NEW j \in DOMAIN events', IsLast(j)'
        PROVE  j = last
    <3>1. /\ j \in 1 .. Len(events) + Len(es) /\ ~(last > j)
          /\ events'[j].kind = "subscription"
      BY <1>1, <2>2, <2>3, <2>5 DEF IsLast
    <3>2. ~(j <= Len(events)) /\ j - Len(events) \in 1 .. Len(es)
      BY <1>0, <2>1, <3>1
    <3>3. events'[j] = es[j - Len(events)]
      BY <2>2, <3>1, <3>2
    <3>4. j - Len(events) = i
      BY <1>1, <2>1, <3>1, <3>2, <3>3
    <3>5. QED
      BY <1>0, <2>1, <3>1, <3>4
  <2>6. QED
    BY <1>1, <2>3, <2>4, <2>5 DEF TierInv
<1>2. ASSUME NEW k \in Customers, NEW p \in Sold, SessionCompleted(k, p)
      PROVE  TierInv'
  <2> DEFINE a == SubscriptionEvent("active", p)
             b == SessionEvent(k)
  <2>1. /\ a \in EventTypes /\ b \in EventTypes /\ status' = "active" /\ price' = p
        /\ a.kind = "subscription" /\ a.status = "active" /\ a.price = p
        /\ b.kind # "subscription"
    BY <1>2, BillingConstants
    DEF SessionCompleted, SubscriptionEvent, SessionEvent, EventTypes, Statuses, BillingInv,
        BillingTypeOK
  <2> HIDE DEF a, b
  <2>2. CASE Emit(<<a, b>>)
    <3> DEFINE es == <<a, b>>
    <3>1. es \in Seq(EventTypes) /\ DOMAIN es = {1, 2} /\ es[1] = a /\ es[2] = b
      BY <2>1
    <3> HIDE DEF es
    <3>2. Emit(es)
      BY <2>2 DEF es
    <3>3. QED
      BY <1>1, <2>1, <3>1, <3>2
  <2>3. CASE Emit(<<b, a>>)
    <3> DEFINE es == <<b, a>>
    <3>1. es \in Seq(EventTypes) /\ DOMAIN es = {1, 2} /\ es[1] = b /\ es[2] = a
      BY <2>1
    <3> HIDE DEF es
    <3>2. Emit(es)
      BY <2>3 DEF es
    <3>3. QED
      BY <1>1, <2>1, <3>1, <3>2
  <2>4. QED
    BY <1>2, <2>2, <2>3 DEF SessionCompleted, a, b
<1>3. ASSUME NEW s \in Statuses, NEW p \in Prices, SubscriptionChanges(s, p)
      PROVE  TierInv'
  <2> DEFINE a == SubscriptionEvent(s, p)
             es == <<a>>
  <2>1. /\ a \in EventTypes /\ status' = s /\ price' = p
        /\ a.kind = "subscription" /\ a.status = s /\ a.price = p
    BY <1>3 DEF SubscriptionChanges, SubscriptionEvent, EventTypes
  <2>2. es \in Seq(EventTypes) /\ DOMAIN es = {1} /\ es[1] = a
    BY <2>1
  <2>3. Emit(es)
    BY <1>3 DEF SubscriptionChanges
  <2> HIDE DEF a, es
  <2>4. QED
    BY <1>1, <2>1, <2>2, <2>3
\* Events handled in order, outside the handler of a checkout.
<1>4. ASSUME NEW i \in DOMAIN events, Handled(i), ~disordered'
      PROVE  /\ ~disordered /\ i = 1 /\ retrieved = Unset
             /\ DOMAIN events' = 1 .. Len(events) - 1
             /\ \A j \in 1 .. Len(events) - 1 : events'[j] = events[j + 1]
  <2>1. ~disordered /\ ~(i > 1) /\ retrieved = Unset
    BY <1>4, Zenon DEF Handled
  <2>2. i = 1 /\ events' = RemoveAt(events, i)
    BY <1>0, <1>4, <2>1 DEF Handled
  <2>3. /\ RemoveAt(events, i) \in Seq(EventTypes)
        /\ Len(RemoveAt(events, i)) = Len(events) - 1
        /\ \A j \in 1 .. Len(events) - 1 :
              RemoveAt(events, i)[j] = IF j < i THEN events[j] ELSE events[j + 1]
    BY <1>0, OneRemoved
  <2>4. QED
    BY <1>0, <2>1, <2>2, <2>3
<1>5. ASSUME NEW i \in DOMAIN events, Handled(i), ~disordered', UNCHANGED subscription,
             NEW j \in DOMAIN events', IsLast(j)'
      PROVE  events'[j].status = status' /\ events'[j].price = price'
  <2>1. /\ j \in 1 .. Len(events) - 1 /\ events'[j] = events[j + 1] /\ j + 1 \in DOMAIN events
        /\ ~disordered
    BY <1>0, <1>4, <1>5
  <2>2. ASSUME NEW m \in DOMAIN events, m > j + 1
        PROVE  events[m].kind # "subscription"
    <3>1. m - 1 \in 1 .. Len(events) - 1 /\ m - 1 > j /\ events'[m - 1] = events[m]
      BY <1>0, <1>4, <1>5, <2>1, <2>2
    <3>2. QED
      BY <1>4, <1>5, <3>1 DEF IsLast
  <2>3. IsLast(j + 1)
    BY <1>5, <2>1, <2>2 DEF IsLast
  <2>4. QED
    BY <1>5, <2>1, <2>3 DEF TierInv
<1>6. ASSUME NEW i \in DOMAIN events, ApplySubscription(i)
      PROVE  TierInv'
  <2> SUFFICES ASSUME ~disordered'
               PROVE  TierInv'
    BY DEF TierInv
  <2>1. /\ Handled(i) /\ UNCHANGED subscription /\ events[i].kind = "subscription"
        /\ retrieved' = retrieved /\ tier' = TierOf(events[i].status, events[i].price)
    BY <1>6 DEF ApplySubscription
  <2>2. ~disordered /\ i = 1 /\ retrieved = Unset
    BY <1>4, <2>1
  <2>3. ASSUME NoneLeft'
        PROVE  tier' = TierOf(status', price')
    <3>1. ASSUME NEW m \in DOMAIN events, m > 1
          PROVE  events[m].kind # "subscription"
      <4>1. m - 1 \in DOMAIN events' /\ events'[m - 1] = events[m]
        BY <1>0, <1>4, <2>1, <3>1
      <4>2. QED
        BY <2>3, <4>1 DEF NoneLeft
    <3>2. IsLast(i)
      BY <2>1, <2>2, <3>1 DEF IsLast
    <3>3. events[i].status = status /\ events[i].price = price
      BY <2>2, <3>2 DEF TierInv
    <3>4. QED
      BY <2>1, <3>3
  <2>4. QED
    BY <1>5, <2>1, <2>2, <2>3 DEF TierInv
<1>7. ASSUME NEW i \in DOMAIN events, BindSession(i)
      PROVE  TierInv'
  <2> SUFFICES ASSUME ~disordered'
               PROVE  TierInv'
    BY DEF TierInv
  <2>1. /\ Handled(i) /\ UNCHANGED subscription /\ events[i].kind = "session"
        /\ retrieved' = <<status, price, events[i].customer>> /\ tier' = tier
    BY <1>7 DEF BindSession
  <2>2. ~disordered /\ i = 1
    BY <1>4, <2>1
  <2>3. ASSUME NoneLeft'
        PROVE  tier' = TierOf(status', price')
    <3>1. ASSUME NEW m \in DOMAIN events
          PROVE  events[m].kind # "subscription"
      <4>1. CASE m = 1
        BY <2>1, <2>2, <4>1
      <4>2. CASE m # 1
        <5>1. m - 1 \in DOMAIN events' /\ events'[m - 1] = events[m]
          BY <1>0, <1>4, <2>1, <4>2
        <5>2. QED
          BY <2>3, <5>1 DEF NoneLeft
      <4>3. QED
        BY <4>1, <4>2
    <3>2. NoneLeft
      BY <3>1 DEF NoneLeft
    <3>3. QED
      BY <2>1, <2>2, <3>2 DEF TierInv
  <2>4. retrieved'[1] = status' /\ retrieved'[2] = price'
    BY <2>1
  <2>5. QED
    BY <1>5, <2>1, <2>3, <2>4 DEF TierInv
<1>8. CASE ApplyRetrieved
  BY <1>8 DEF ApplyRetrieved, TierInv, IsLast, NoneLeft
<1>9. CASE HandlerFails
  <2> DEFINE n == Len(events)
  <2>1. /\ events' = Append(events, SessionEvent(retrieved[3])) /\ retrieved' = Unset
        /\ UNCHANGED <<tier, status, price, disordered>>
    BY <1>9 DEF HandlerFails
  <2>2. /\ DOMAIN events' = 1 .. n + 1 /\ \A j \in 1 .. n : events'[j] = events[j]
        /\ events'[n + 1] = SessionEvent(retrieved[3])
    BY <1>0, <2>1
  <2>3. events'[n + 1].kind # "subscription"
    BY <2>2 DEF SessionEvent
  <2>4. NoneLeft' => NoneLeft
    BY <1>0, <2>2 DEF NoneLeft
  <2>5. ASSUME NEW j \in DOMAIN events', IsLast(j)'
        PROVE  j \in DOMAIN events /\ IsLast(j) /\ events'[j] = events[j]
    <3>1. j \in DOMAIN events /\ events'[j] = events[j]
      BY <1>0, <2>2, <2>3, <2>5 DEF IsLast
    <3>2. \A m \in DOMAIN events : m > j => events[m].kind # "subscription"
      BY <1>0, <2>2, <2>5 DEF IsLast
    <3>3. QED
      BY <2>5, <3>1, <3>2 DEF IsLast
  <2>6. QED
    BY <2>1, <2>4, <2>5 DEF TierInv
<1>10. CASE \/ \E c \in Checkouts : CheckoutStep(c)
            \/ \E p \in Sold : StartCheckout(p)
            \/ UNCHANGED billingVars
  <2>1. UNCHANGED <<tier, subscription, webhook>>
    BY <1>10
    DEF CheckoutStep, CreateCustomer, StoreCustomer, CheckoutDies, StartCheckout, billingVars
  <2>2. QED
    BY <2>1 DEF TierInv, IsLast, NoneLeft
<1>11. QED
  BY <1>2, <1>3, <1>6, <1>7, <1>8, <1>9, <1>10 DEF BillingNext, WebhookStep

\* The account and Stripe end up in agreement.  Once every event is handled the company
\* has the tier of its subscription, unless one overtook another; and a company has at
\* most as many customers at Stripe as requests can overlap or were cut short.
THEOREM StripeAgrees == BillingSpec => []AgreesWithStripe
<1> DEFINE Inv == BillingInv /\ CustomersInv /\ TierInv
<1>1. BillingInit => Inv
  BY BillingTypeInit, CustomersInit, TierInit
<1>2. Inv /\ [BillingNext]_billingVars => Inv'
  BY BillingTypeStep, CustomersStep, TierStep
<1>3. Inv => AgreesWithStripe
  <2> SUFFICES ASSUME BillingInv, CustomersInv, TierInv
               PROVE  AgreesWithStripe
    OBVIOUS
  <2>1. TierFollowsSubscription
    BY DEF TierInv, NoneLeft, TierFollowsSubscription, TierOf, EndsTier, TierOfPrice
  <2>2. CustomersBounded
    BY DEF CustomersInv, CustomersBounded
  <2>3. QED
    BY <2>1, <2>2 DEF AgreesWithStripe
<1>4. QED
  BY <1>1, <1>2, <1>3, PTL DEF BillingSpec

(***************************************************************************)
(* LiveGate.  A ceremony is in one place at most: its challenge is still   *)
(* kept, or one request verifies it, or it was accepted, once.             *)
(***************************************************************************)
OnceInv ==
    /\ challenges \in Seq(Ceremonies)
    /\ \A i, j \in DOMAIN challenges : challenges[i] = challenges[j] => i = j
    /\ \A c, d \in Posts : verifying[c] = verifying[d] /\ verifying[c] # NoCeremony => c = d
    /\ \A c \in Posts : verifying[c] # NoCeremony => verifying[c] \in begun
    /\ \A i \in DOMAIN challenges, c \in Posts : challenges[i] # verifying[c]
    /\ \A x \in Ceremonies :
          /\ accepted[x] <= 1
          /\ accepted[x] # 0 => /\ x \in begun /\ \A c \in Posts : verifying[c] # x
                                /\ \A i \in DOMAIN challenges : challenges[i] # x

LiveInv == LiveTypeOK /\ OnceInv

LEMMA LiveTypeInit == LiveInit => LiveInv
<1> SUFFICES ASSUME LiveInit
             PROVE  LiveInv
  OBVIOUS
<1>1. /\ registered \in BOOLEAN /\ unlocked \in BOOLEAN /\ paper \in BOOLEAN
      /\ paperOnly \in BOOLEAN /\ braked \in BOOLEAN
  BY Zenon DEF LiveInit
<1>2. QED
  BY <1>1 DEF LiveInit, LiveInv, LiveTypeOK, OnceInv, Range

\* The flags.
Flags == /\ registered \in BOOLEAN /\ unlocked \in BOOLEAN /\ paper \in BOOLEAN
         /\ paperOnly \in BOOLEAN /\ braked \in BOOLEAN

LEMMA FlagsStep ==
  ASSUME Flags, LiveNext
  PROVE  Flags'
<1>1. ASSUME CeremonyStep \/ UnlockExpires
      PROVE  Flags'
  BY <1>1, Zenon
  DEF CeremonyStep, BeginCeremony, Sign, ChallengeExpires, UnlockExpires, Flags,
      requestVars, passkeyVars, paperVars, ceremonyVars
<1>2. ASSUME NEW c \in Posts, VerifyStep(c)
      PROVE  Flags'
  BY <1>2, Zenon
  DEF VerifyStep, ConsumeChallenge, RegisterVerify, ReadCounter, AssertVerify, Flags,
      requestVars, passkeyVars, paperVars, ceremonyVars
<1>3. ASSUME PaperStep
      PROVE  Flags'
  BY <1>3, Zenon
  DEF PaperStep, SetPaperMode, CheckPaperMode, TierChanges, Flags,
      requestVars, passkeyVars, paperVars, ceremonyVars
<1>4. QED
  BY <1>1, <1>2, <1>3, Zenon DEF LiveNext

\* The steps that leave the passkeys alone.
LEMMA PasskeyFrame ==
  ASSUME LiveInv, Flags', UNCHANGED <<ceremonyVars, requestVars, counter, accepted>>,
         asks' \in [Posts -> {"none", "live", "brake"}]
  PROVE  LiveInv'
  BY DEF LiveInv, LiveTypeOK, OnceInv, Flags, ceremonyVars, requestVars

LEMMA ChallengesStep ==
  ASSUME LiveInv, Flags', CeremonyStep
  PROVE  LiveInv'
<1> USE DEF LiveInv, LiveTypeOK, OnceInv, Flags, requestVars, passkeyVars, paperVars, Range
<1>1. ASSUME NEW x \in Ceremonies, BeginCeremony(x)
      PROVE  LiveInv'
  <2>1. /\ challenges' = Append(challenges, x) /\ x \notin begun
        /\ begun' = begun \cup {x}
        /\ UNCHANGED <<signed, device, verifying, step, counter, accepted, asks>>
    BY <1>1 DEF BeginCeremony
  <2>2. /\ challenges' \in Seq(Ceremonies) /\ DOMAIN challenges' = 1 .. Len(challenges) + 1
        /\ \A i \in 1 .. Len(challenges) : challenges'[i] = challenges[i]
        /\ challenges'[Len(challenges) + 1] = x /\ DOMAIN challenges = 1 .. Len(challenges)
        /\ Len(challenges) \in Nat
    BY <2>1
  <2>3. \A i \in DOMAIN challenges : challenges[i] \in begun
    OBVIOUS
  <2>4. ASSUME NEW i \in DOMAIN challenges'
        PROVE  \/ challenges'[i] = x
               \/ i \in DOMAIN challenges /\ challenges'[i] = challenges[i]
    <3>1. i \in 1 .. Len(challenges) \/ i = Len(challenges) + 1
      <4>1. i \in 1 .. Len(challenges) + 1 /\ Len(challenges) \in Nat
        BY <2>2
      <4>2. QED
        BY <4>1
    <3>2. QED
      BY <2>2, <3>1, Zenon
  <2>5. \A i, j \in DOMAIN challenges' : challenges'[i] = challenges'[j] => i = j
    BY <2>1, <2>2, <2>3
  <2>6. \A c \in Posts : verifying[c] # x
    <3>1. x # NoCeremony
      BY LiveGateConstants DEF Ceremonies
    <3>2. QED
      BY <2>1, <3>1
  <2>7. accepted[x] = 0
    BY <2>1
  <2>8. OnceInv'
    BY <2>1, <2>2, <2>4, <2>5, <2>6, <2>7
  <2>9. LiveTypeOK'
    BY <2>1, <2>3, <2>4
  <2>10. QED
    BY <2>8, <2>9
<1>2. CASE ChallengeExpires
  <2>1. /\ challenges # <<>> /\ challenges' = Tail(challenges)
        /\ UNCHANGED <<begun, signed, device, verifying, step, counter, accepted, asks>>
    BY <1>2 DEF ChallengeExpires
  <2>2. /\ challenges' \in Seq(Ceremonies) /\ DOMAIN challenges' = 1 .. Len(challenges) - 1
        /\ \A i \in 1 .. Len(challenges) - 1 : challenges'[i] = challenges[i + 1]
        /\ DOMAIN challenges = 1 .. Len(challenges) /\ Len(challenges) \in Nat
    BY <2>1
  <2>3. \A i \in DOMAIN challenges' :
            i + 1 \in DOMAIN challenges /\ challenges'[i] = challenges[i + 1]
    <3>1. ASSUME NEW n \in Nat, NEW i \in 1 .. n - 1
          PROVE  i + 1 \in 1 .. n
      OBVIOUS
    <3>2. QED
      BY <2>2, <3>1
  <2>4. \A i, j \in DOMAIN challenges' : challenges'[i] = challenges'[j] => i = j
    <3>1. \A i, j \in DOMAIN challenges' : i + 1 = j + 1 => i = j
      BY <2>2
    <3>2. QED
      BY <2>3, <3>1
  <2>5. OnceInv'
    BY <2>1, <2>2, <2>3, <2>4
  <2>6. LiveTypeOK'
    BY <2>1, <2>3
  <2>7. QED
    BY <2>5, <2>6
<1>3. ASSUME NEW x \in Ceremonies, Sign(x)
      PROVE  LiveInv'
  <2>1. device' \in Nat /\ signed' \in [Ceremonies -> 0 .. device'] /\ counter' \in 0 .. device'
    BY <1>3 DEF Sign
  <2>2. UNCHANGED <<begun, challenges, verifying, step, accepted, asks>>
    BY <1>3 DEF Sign
  <2>3. QED
    BY <2>1, <2>2
<1>4. QED
  BY <1>1, <1>2, <1>3 DEF CeremonyStep

LEMMA RemovedFrom ==
  ASSUME NEW S, NEW q \in Seq(S), NEW i \in DOMAIN q,
         \A j, k \in DOMAIN q : q[j] = q[k] => j = k
  PROVE  /\ RemoveAt(q, i) \in Seq(S)
         /\ \A j, k \in DOMAIN RemoveAt(q, i) : RemoveAt(q, i)[j] = RemoveAt(q, i)[k] => j = k
         /\ \A j \in DOMAIN RemoveAt(q, i) :
               RemoveAt(q, i)[j] # q[i] /\ \E k \in DOMAIN q : RemoveAt(q, i)[j] = q[k]
<1> DEFINE r == RemoveAt(q, i)
           n == Len(q)
           old(j) == IF j < i THEN j ELSE j + 1
<1>1. /\ r \in Seq(S) /\ Len(r) = n - 1
      /\ \A j \in 1 .. n - 1 : r[j] = IF j < i THEN q[j] ELSE q[j + 1]
  BY OneRemoved
<1>2. n \in Nat /\ DOMAIN q = 1 .. n /\ i \in 1 .. n
  OBVIOUS
<1> HIDE DEF r, n
<1>3. DOMAIN r = 1 .. n - 1
  BY <1>1
<1>4. ASSUME NEW j \in 1 .. n - 1
      PROVE  old(j) \in 1 .. n /\ r[j] = q[old(j)] /\ old(j) # i
  BY <1>1, <1>2
<1>5. ASSUME NEW j \in 1 .. n - 1, NEW k \in 1 .. n - 1, old(j) = old(k)
      PROVE  j = k
  BY <1>2, <1>5
<1> HIDE DEF old
<1>6. QED
  BY <1>1, <1>2, <1>3, <1>4, <1>5 DEF r

LEMMA ConsumeStep ==
  ASSUME LiveInv, Flags', NEW c \in Posts, NEW x \in Ceremonies, NEW i \in DOMAIN challenges,
         ConsumeChallenge(c, x, i)
  PROVE  LiveInv'
<1> USE DEF LiveInv, LiveTypeOK, OnceInv, Flags, requestVars, passkeyVars, paperVars, Range
<1>1. /\ verifying[c] = NoCeremony /\ challenges' = RemoveAt(challenges, i)
      /\ UNCHANGED <<begun, signed, device, counter, accepted, asks>>
  BY DEF ConsumeChallenge, Left
<1>2. /\ challenges \in Seq(Ceremonies)
      /\ \A j, k \in DOMAIN challenges : challenges[j] = challenges[k] => j = k
  OBVIOUS
<1>3. /\ challenges' \in Seq(Ceremonies)
      /\ \A j, k \in DOMAIN challenges' : challenges'[j] = challenges'[k] => j = k
      /\ \A j \in DOMAIN challenges' :
            /\ challenges'[j] # challenges[i]
            /\ \E k \in DOMAIN challenges : challenges'[j] = challenges[k]
  <2> HIDE DEF LiveInv
  <2>1. /\ RemoveAt(challenges, i) \in Seq(Ceremonies)
        /\ \A j, k \in DOMAIN RemoveAt(challenges, i) :
              RemoveAt(challenges, i)[j] = RemoveAt(challenges, i)[k] => j = k
        /\ \A j \in DOMAIN RemoveAt(challenges, i) :
              /\ RemoveAt(challenges, i)[j] # challenges[i]
              /\ \E k \in DOMAIN challenges : RemoveAt(challenges, i)[j] = challenges[k]
    BY <1>2, RemovedFrom
  <2>2. QED
    BY <1>1, <2>1
<1>4. \A j \in DOMAIN challenges' : challenges'[j] # challenges[i] /\ challenges'[j] \in begun
  BY <1>3
<1>5. challenges[i] \in begun /\ challenges[i] \in Ceremonies /\ challenges[i] # NoCeremony
  BY LiveGateConstants DEF Ceremonies
<1>6. CASE UNCHANGED <<verifying, step>>
  <2>1. OnceInv'
    BY <1>1, <1>3, <1>6
  <2>2. LiveTypeOK'
    BY <1>1, <1>4, <1>6
  <2>3. QED
    BY <2>1, <2>2
<1>7. CASE /\ challenges[i] = x /\ verifying' = [verifying EXCEPT ![c] = x]
            /\ step' = [step EXCEPT ![c] = "read"]
  <2>1. /\ \A d \in Posts : verifying'[d] = IF d = c THEN x ELSE verifying[d]
        /\ \A d \in Posts : verifying[d] # x
    BY <1>7
  <2>2. accepted[x] = 0
    BY <1>7
  <2>3. \A j \in DOMAIN challenges', d \in Posts : challenges'[j] # verifying'[d]
    BY <1>3, <1>7, <2>1
  <2>4. \A d, e \in Posts : verifying'[d] = verifying'[e] /\ verifying'[d] # NoCeremony => d = e
    BY <2>1, ZenonT(40)
  <2>5. OnceInv'
    BY <1>1, <1>3, <1>5, <1>7, <2>1, <2>2, <2>3, <2>4
  <2>6. LiveTypeOK'
    BY <1>1, <1>4, <1>5, <1>7, <2>1
  <2>7. QED
    BY <2>5, <2>6
<1>8. QED
  BY <1>6, <1>7 DEF ConsumeChallenge

LEMMA AcceptStep ==
  ASSUME LiveInv, Flags', NEW c \in Posts,
         RegisterVerify(c) \/ ReadCounter(c) \/ AssertVerify(c)
  PROVE  LiveInv'
<1> USE DEF LiveInv, LiveTypeOK, OnceInv, Flags, ceremonyVars, passkeyVars, paperVars
<1>1. ASSUME Answered(c), UNCHANGED <<ceremonyVars, asks>>, verifying[c] # NoCeremony,
             counter' \in 0 .. device,
             \/ accepted' = accepted
             \/ accepted' = [accepted EXCEPT ![verifying[c]] = @ + 1]
      PROVE  LiveInv'
  <2> DEFINE x == verifying[c]
  <2>1. /\ x \in Ceremonies /\ x \in begun /\ accepted[x] = 0
        /\ \A i \in DOMAIN challenges : challenges[i] # x
        /\ \A d \in Posts : d # c => verifying[d] # x
    BY <1>1
  <2>2. /\ verifying' \in [Posts -> Ceremonies \cup {NoCeremony}]
        /\ step' \in [Posts -> {"none", "read", "write"}]
        /\ \A d \in Posts : step'[d] = "none" <=> verifying'[d] = NoCeremony
        /\ \A d \in Posts : verifying'[d] = IF d = c THEN NoCeremony ELSE verifying[d]
    BY <1>1 DEF Answered
  <2>3. /\ accepted' \in [Ceremonies -> Nat] /\ accepted'[x] <= 1
        /\ \A y \in Ceremonies : y # x => accepted'[y] = accepted[y]
    BY <1>1, <2>1
  <2>4. NoCeremony \notin Ceremonies
    BY LiveGateConstants DEF Ceremonies
  <2>5. LiveTypeOK'
    BY <1>1, <2>2, <2>3
  <2>6. \A d \in Posts : verifying'[d] # x
    BY <2>1, <2>2, <2>4
  <2>7. OnceInv'
    <3>1. \A i \in DOMAIN challenges, d \in Posts : challenges[i] # verifying'[d]
      BY <2>2, <2>4
    <3>2. \A d, e \in Posts : verifying'[d] = verifying'[e] /\ verifying'[d] # NoCeremony => d = e
      BY <2>2
    <3>3. ASSUME NEW y \in Ceremonies
          PROVE  /\ accepted'[y] <= 1
                 /\ accepted'[y] # 0 => /\ y \in begun /\ \A d \in Posts : verifying'[d] # y
                                        /\ \A i \in DOMAIN challenges : challenges[i] # y
      <4>1. CASE y = x
        BY <2>1, <2>3, <2>6, <4>1
      <4>2. CASE y # x
        BY <2>2, <2>3, <2>4, <4>2
      <4>3. QED
        BY <4>1, <4>2
    <3>4. UNCHANGED <<challenges, begun>>
      BY <1>1
    <3>5. QED
      BY <2>2, <3>1, <3>2, <3>3, <3>4
  <2>8. QED
    BY <2>5, <2>7
<1>2. CASE RegisterVerify(c)
  <2>1. verifying[c] # NoCeremony
    BY <1>2, LiveGateConstants DEF RegisterVerify
  <2>2. QED
    BY <1>1, <1>2, <2>1 DEF RegisterVerify
<1>3. CASE AssertVerify(c)
  <2>1. verifying[c] # NoCeremony /\ signed[verifying[c]] \in 0 .. device
    BY <1>3 DEF AssertVerify
  <2>2. QED
    BY <1>1, <1>3, <2>1 DEF AssertVerify
<1>4. CASE ReadCounter(c)
  <2>1. verifying[c] # NoCeremony
    BY <1>4, LiveGateConstants DEF ReadCounter
  <2>2. CASE Answered(c)
    BY <1>1, <1>4, <2>1, <2>2 DEF ReadCounter
  <2>3. CASE step' = [step EXCEPT ![c] = "write"] /\ UNCHANGED verifying
    BY <1>4, <2>1, <2>3 DEF ReadCounter
  <2>4. QED
    BY <1>4, <2>2, <2>3 DEF ReadCounter
<1>5. QED
  BY <1>2, <1>3, <1>4

LEMMA LiveTypeStep == LiveInv /\ [LiveNext]_liveVars => LiveInv'
<1> SUFFICES ASSUME LiveInv, [LiveNext]_liveVars
             PROVE  LiveInv'
  OBVIOUS
<1>1. Flags'
  <2>1. Flags
    BY Zenon DEF Flags, LiveInv, LiveTypeOK
  <2>2. CASE UNCHANGED liveVars
    <3>1. UNCHANGED <<registered, unlocked, paper, paperOnly, braked>>
      BY <2>2 DEF liveVars, passkeyVars, paperVars
    <3>2. QED
      BY <2>1, <3>1, Zenon DEF Flags
  <2>3. QED
    BY <2>1, <2>2, FlagsStep
<1>2. CASE UnlockExpires
  <2>1. UNCHANGED <<ceremonyVars, requestVars, counter, accepted, asks>>
    BY <1>2 DEF UnlockExpires, passkeyVars, paperVars
  <2>2. QED
    BY <1>1, <2>1, PasskeyFrame DEF LiveInv, LiveTypeOK
<1>3. CASE PaperStep
  <2>1. UNCHANGED <<ceremonyVars, requestVars, counter, accepted>>
    BY <1>3 DEF PaperStep, SetPaperMode, CheckPaperMode, TierChanges, passkeyVars
  <2>2. asks' \in [Posts -> {"none", "live", "brake"}]
    BY <1>3 DEF PaperStep, SetPaperMode, CheckPaperMode, TierChanges, LiveInv, LiveTypeOK
  <2>3. QED
    BY <1>1, <2>1, <2>2, PasskeyFrame
<1>4. CASE UNCHANGED liveVars
  <2>1. UNCHANGED <<ceremonyVars, requestVars, counter, accepted, asks>>
    BY <1>4 DEF liveVars, passkeyVars, paperVars
  <2>2. QED
    BY <1>1, <2>1, PasskeyFrame DEF LiveInv, LiveTypeOK
<1>5. QED
  BY <1>1, <1>2, <1>3, <1>4, ChallengesStep, ConsumeStep, AcceptStep DEF LiveNext, VerifyStep

\* The passkeys, the requests and the switch keep their type; in particular the
\* counter the server stores never runs ahead of the authenticator's.
THEOREM LiveTypeCorrect == LiveSpec => []LiveTypeOK
<1>1. LiveInv => LiveTypeOK
  BY DEF LiveInv
<1>2. QED
  BY LiveTypeInit, LiveTypeStep, <1>1, PTL DEF LiveSpec

(***************************************************************************)
(* Brakes.  While they are on no request to go live is in flight.          *)
(***************************************************************************)
BrakesInv == braked => paper /\ \A c \in Posts : asks[c] # "live"

LEMMA BrakesStep == LiveInv /\ BrakesInv /\ [LiveNext]_liveVars => BrakesInv'
<1> SUFFICES ASSUME LiveInv, BrakesInv, [LiveNext]_liveVars, braked'
             PROVE  paper' /\ \A c \in Posts : asks'[c] # "live"
  BY DEF BrakesInv
<1>1. ASSUME NEW c \in Posts, NEW want \in {"live", "brake"}, CheckPaperMode(c, want)
      PROVE  paper' /\ \A d \in Posts : asks'[d] # "live"
  <2>1. /\ braked /\ ~(want = "live" /\ unlocked /\ ~paperOnly)
        /\ GoesLive(want) => ~paperOnly /\ unlocked
    BY <1>1, Zenon DEF CheckPaperMode
  <2>2. paper /\ \A d \in Posts : asks[d] # "live"
    BY <2>1, Zenon DEF BrakesInv
  <2>3. want # "live"
    BY <2>1, <2>2, Zenon DEF GoesLive
  <2>4. paper' = paper /\ asks' = [asks EXCEPT ![c] = want]
    BY <1>1, Zenon DEF CheckPaperMode
  <2>5. \A d \in Posts : asks'[d] # "live"
    BY <2>2, <2>3, <2>4 DEF LiveInv, LiveTypeOK
  <2>6. QED
    BY <2>2, <2>4, <2>5, Zenon
<1>2. ASSUME NEW c \in Posts, SetPaperMode(c)
      PROVE  paper' /\ \A d \in Posts : asks'[d] # "live"
  <2>1. \A d \in Posts : asks[d] # "live"
    <3>1. CASE asks[c] = "brake"
      BY <1>2, <3>1, Zenon DEF SetPaperMode, BrakesInv
    <3>2. CASE asks[c] # "brake"
      BY <1>2, <3>2, Zenon DEF SetPaperMode, BrakesInv
    <3>3. QED
      BY <3>1, <3>2
  <2>2. asks[c] = "brake"
    BY <1>2, <2>1 DEF SetPaperMode, LiveInv, LiveTypeOK
  <2>3. paper'
    BY <1>2, <2>2, Zenon DEF SetPaperMode
  <2>4. \A d \in Posts : asks'[d] # "live"
    BY <1>2, <2>1 DEF SetPaperMode, LiveInv, LiveTypeOK
  <2>5. QED
    BY <2>3, <2>4
<1>3. ASSUME UNCHANGED <<braked, paper, asks>>
      PROVE  paper' /\ \A d \in Posts : asks'[d] # "live"
  BY <1>3, Zenon DEF BrakesInv
<1>4. CASE TierChanges
  BY <1>3, <1>4, Zenon DEF TierChanges
<1>5. CASE CeremonyStep \/ UnlockExpires \/ UNCHANGED liveVars
  <2>1. UNCHANGED paperVars
    BY <1>5 DEF CeremonyStep, BeginCeremony, Sign, ChallengeExpires, UnlockExpires, liveVars
  <2>2. QED
    BY <1>3, <2>1 DEF paperVars
<1>6. ASSUME NEW c \in Posts, VerifyStep(c)
      PROVE  paper' /\ \A d \in Posts : asks'[d] # "live"
  <2>1. UNCHANGED paperVars
    BY <1>6 DEF VerifyStep, ConsumeChallenge, RegisterVerify, ReadCounter, AssertVerify
  <2>2. QED
    BY <1>3, <2>1 DEF paperVars
<1>7. QED
  BY <1>1, <1>2, <1>4, <1>5, <1>6 DEF LiveNext, PaperStep

\* However often a signature is posted and whichever requests interleave it opens the
\* gate once; and brakes put on while no request to go live is in flight hold until
\* one passes the tier gate and the passkey.
THEOREM TheGateHolds == LiveSpec => []LiveTakesASignature
<1> DEFINE Inv == LiveInv /\ BrakesInv
<1>1. LiveInit => Inv
  <2>1. LiveInit => BrakesInv
    <3> SUFFICES ASSUME LiveInit
                 PROVE  BrakesInv
      OBVIOUS
    <3>1. paper
      BY Zenon DEF LiveInit
    <3>2. \A c \in Posts : asks[c] # "live"
      BY DEF LiveInit
    <3>3. QED
      BY <3>1, <3>2, Zenon DEF BrakesInv
  <2>2. QED
    BY <2>1, LiveTypeInit
<1>2. Inv /\ [LiveNext]_liveVars => Inv'
  BY LiveTypeStep, BrakesStep
<1>3. Inv => LiveTakesASignature
  <2> SUFFICES ASSUME LiveInv, BrakesInv
               PROVE  LiveTakesASignature
    OBVIOUS
  <2>1. AcceptedOnce
    BY DEF LiveInv, OnceInv, AcceptedOnce
  <2>2. BrakesHold
    BY Zenon DEF BrakesInv, BrakesHold
  <2>3. QED
    BY <2>1, <2>2 DEF LiveTakesASignature
<1>4. QED
  BY <1>1, <1>2, <1>3, PTL DEF LiveSpec

(***************************************************************************)
(* AgentDesk.  A request between its gate and its write carries a value    *)
(* that was legal when it was checked.                                     *)
(***************************************************************************)
PairChanges == {"provider", "model"}

RequestsInv ==
    \A c \in Requests :
        /\ pending[c] \in {"create", "forecaster"} =>
              value[c] \in Forecasters /\ \E t \in held : value[c] \in Allowed[t]
        /\ pending[c] = "provider" => value[c] \in Providers
        /\ pending[c] = "model" => value[c] \in Models
        /\ subject[c] # NoAgent => subject[c] \in employees

AgentInv == AgentTypeOK /\ RequestsInv

LEMMA SomePair == DefaultPair \in Registry /\ DefaultPair \in Providers \X Models
  BY AgentDeskConstants DEF DefaultPair

LEMMA FreeForecaster ==
  ASSUME NEW t \in TierNames
  PROVE  "ttm" \in Allowed[t] /\ "ttm" \in Forecasters
<1>1. "ttm" \in Allowed[t]
  BY AgentDeskConstants
<1>2. QED
  BY <1>1 DEF Forecasters

LEMMA AgentTypeInit == AgentInit => AgentInv
<1> SUFFICES ASSUME AgentInit
             PROVE  AgentInv
  OBVIOUS
<1>1. tierName \in TierNames /\ "ttm" \in Forecasters
  BY FreeForecaster DEF AgentInit
<1>2. QED
  BY <1>1, SomePair, AgentDeskConstants
  DEF AgentInit, AgentInv, AgentTypeOK, RequestsInv, Changes

LEMMA DecideType ==
  ASSUME AgentInv, NEW c \in Requests, NEW what \in Changes,
         NEW a \in employees \cup {NoAgent}, NEW v,
         Decides(c, what, a, v),
         what \in {"create", "forecaster"} => v \in Forecasters /\ v \in Allowed[tierName],
         what = "provider" => v \in Providers,
         what = "model" => v \in Models,
         UNCHANGED <<tierName, held, employees, forecaster, pair>>, raced' \subseteq Agents
  PROVE  AgentInv'
<1> USE DEF AgentInv, AgentTypeOK, RequestsInv, Decides, Changes
<1>1. AgentTypeOK'
  OBVIOUS
<1>2. \A d \in Requests : /\ pending'[d] = IF d = c THEN what ELSE pending[d]
                          /\ subject'[d] = IF d = c THEN a ELSE subject[d]
                          /\ value'[d] = IF d = c THEN v ELSE value[d]
  OBVIOUS
<1>3. what \in {"create", "forecaster"} => \E t \in held : v \in Allowed[t]
  OBVIOUS
<1>4. RequestsInv'
  BY <1>2, <1>3
<1>5. QED
  BY <1>1, <1>4

LEMMA AnswerType ==
  ASSUME AgentInv, NEW c \in Requests, Answers(c), UNCHANGED <<tierName, held>>,
         employees \subseteq employees', employees' \subseteq Agents,
         forecaster' \in [Agents -> Forecasters], pair' \in [Agents -> Providers \X Models],
         UNCHANGED raced
  PROVE  AgentInv'
<1> USE DEF AgentInv, AgentTypeOK, RequestsInv, Answers, Changes
<1>1. AgentTypeOK'
  OBVIOUS
<1>2. \A d \in Requests : /\ pending'[d] = IF d = c THEN "none" ELSE pending[d]
                          /\ subject'[d] = IF d = c THEN NoAgent ELSE subject[d]
                          /\ value'[d] = IF d = c THEN NoAgent ELSE value[d]
  OBVIOUS
<1>3. RequestsInv'
  BY <1>2
<1>4. QED
  BY <1>1, <1>3

LEMMA AgentTypeStep == AgentInv /\ [AgentNext]_agentVars => AgentInv'
<1> SUFFICES ASSUME AgentInv, [AgentNext]_agentVars
             PROVE  AgentInv'
  OBVIOUS
<1>1. ASSUME NEW t \in TierNames, TierMoves(t)
      PROVE  AgentInv'
  BY <1>1 DEF TierMoves, rows, desk, AgentInv, AgentTypeOK, RequestsInv
<1>2. ASSUME NEW c \in Requests, NEW f \in Forecasters, GateCreate(c, f)
      PROVE  AgentInv'
  <2>1. /\ Decides(c, "create", NoAgent, f) /\ f \in Allowed[tierName] /\ raced' = raced
        /\ UNCHANGED <<tierName, held, employees, forecaster, pair>>
    BY <1>2 DEF GateCreate, TierAllows, rows
  <2>2. raced' \subseteq Agents
    BY <2>1 DEF AgentInv, AgentTypeOK
  <2>3. QED
    BY <2>1, <2>2, DecideType DEF Changes
<1>3. ASSUME NEW c \in Requests, NEW a \in Agents, InsertAgent(c, a)
      PROVE  AgentInv'
  <2>1. /\ Answers(c) /\ UNCHANGED <<tierName, held, raced>> /\ employees' = employees \cup {a}
        /\ value[c] \in Forecasters /\ forecaster' = [forecaster EXCEPT ![a] = value[c]]
        /\ pair' = pair
    BY <1>3 DEF InsertAgent, AgentInv, RequestsInv
  <2>2. /\ employees \subseteq employees' /\ employees' \subseteq Agents
        /\ forecaster' \in [Agents -> Forecasters] /\ pair' \in [Agents -> Providers \X Models]
    BY <2>1 DEF AgentInv, AgentTypeOK
  <2>3. QED
    BY <2>1, <2>2, AnswerType
<1>4. ASSUME NEW c \in Requests, NEW a \in Agents, NEW f \in Forecasters, GateForecaster(c, a, f)
      PROVE  AgentInv'
  <2>1. /\ Decides(c, "forecaster", a, f) /\ f \in Allowed[tierName] /\ raced' = raced
        /\ a \in employees /\ UNCHANGED <<tierName, held, employees, forecaster, pair>>
    BY <1>4 DEF GateForecaster, TierAllows, rows
  <2>2. raced' \subseteq Agents
    BY <2>1 DEF AgentInv, AgentTypeOK
  <2>3. QED
    BY <2>1, <2>2, DecideType DEF Changes
<1>5. ASSUME NEW c \in Requests, NEW a \in Agents, NEW what \in PairChanges,
             NEW v \in Providers \cup Models, CheckPair(c, a, what, v)
      PROVE  AgentInv'
  <2>1. /\ Decides(c, what, a, v) /\ v \in (IF what = "provider" THEN Providers ELSE Models)
        /\ a \in employees /\ UNCHANGED <<tierName, held, employees, forecaster, pair>>
        /\ raced' \in {raced, raced \cup {a}}
    BY <1>5 DEF CheckPair
  <2>2. raced' \subseteq Agents
    BY <2>1 DEF AgentInv, AgentTypeOK
  <2>3. QED
    BY <2>1, <2>2, DecideType DEF Changes, PairChanges
<1>6. ASSUME NEW c \in Requests, UpdateAgent(c)
      PROVE  AgentInv'
  <2> DEFINE a == subject[c]
  <2>1. /\ Answers(c) /\ UNCHANGED <<tierName, held, employees, raced>>
        /\ pending[c] \in {"forecaster", "provider", "model"}
    BY <1>6 DEF UpdateAgent, Changes
  <2>2. \/ UNCHANGED <<forecaster, pair>>
        \/ /\ pending[c] = "forecaster" /\ a \in employees /\ pair' = pair
           /\ forecaster' = [forecaster EXCEPT ![a] = value[c]]
        \/ /\ pending[c] = "provider" /\ a \in employees /\ forecaster' = forecaster
           /\ pair' = [pair EXCEPT ![a] = <<value[c], @[2]>>]
        \/ /\ pending[c] = "model" /\ a \in employees /\ forecaster' = forecaster
           /\ pair' = [pair EXCEPT ![a] = <<@[1], value[c]>>]
    BY <1>6, <2>1 DEF UpdateAgent
  <2>3. /\ forecaster' \in [Agents -> Forecasters] /\ pair' \in [Agents -> Providers \X Models]
        /\ employees \subseteq employees' /\ employees' \subseteq Agents
    BY <2>1, <2>2 DEF AgentInv, AgentTypeOK, RequestsInv
  <2>4. QED
    BY <2>1, <2>3, AnswerType
<1>7. ASSUME NEW a \in Agents, DeleteAgent(a)
      PROVE  AgentInv'
  <2>1. "ttm" \in Forecasters
    BY FreeForecaster DEF AgentInv, AgentTypeOK
  <2>2. AgentTypeOK'
    BY <1>7, <2>1, SomePair DEF DeleteAgent, AgentInv, AgentTypeOK, Changes
  <2>3. RequestsInv'
    BY <1>7 DEF DeleteAgent, AgentInv, RequestsInv
  <2>4. QED
    BY <2>2, <2>3 DEF AgentInv
<1>8. CASE UNCHANGED agentVars
  BY <1>8 DEF agentVars, rows, desk, AgentInv, AgentTypeOK, RequestsInv
<1>9. QED
  BY <1>1, <1>2, <1>3, <1>4, <1>5, <1>6, <1>7, <1>8
  DEF AgentNext, CreateStep, UpdateStep, PairChanges

\* The agents' rows and the requests keep their type.
THEOREM AgentTypeCorrect == AgentSpec => []AgentTypeOK
<1>1. AgentInv => AgentTypeOK
  BY DEF AgentInv
<1>2. QED
  BY AgentTypeInit, AgentTypeStep, <1>1, PTL DEF AgentSpec

(***************************************************************************)
(* Forecasters and pairs.                                                  *)
(***************************************************************************)
Changing(c, a) == subject[c] = a /\ pending[c] \in PairChanges

PairsInv ==
    /\ \A a \in Agents \ raced, c, d \in Requests : Changing(c, a) /\ Changing(d, a) => c = d
    /\ \A a \in employees \ raced :
          /\ pair[a] \in Registry
          /\ \A c \in Requests : subject[c] = a =>
                /\ pending[c] = "provider" => <<value[c], pair[a][2]>> \in Registry
                /\ pending[c] = "model" => <<pair[a][1], value[c]>> \in Registry
    /\ \A a \in Agents \ employees : pair[a] = DefaultPair

LEMMA PaidStep == AgentInv /\ ForecastersPaid /\ [AgentNext]_agentVars => ForecastersPaid'
<1> SUFFICES ASSUME AgentInv, ForecastersPaid, [AgentNext]_agentVars
             PROVE  ForecastersPaid'
  OBVIOUS
<1>1. held \subseteq held'
  BY
  DEF agentVars, rows, desk, AgentNext, CreateStep, UpdateStep, TierMoves, GateCreate,
      InsertAgent, GateForecaster, CheckPair, UpdateAgent, DeleteAgent
<1>2. ASSUME NEW b \in employees'
      PROVE  \/ b \in employees /\ forecaster'[b] = forecaster[b]
             \/ \E c \in Requests : /\ pending[c] \in {"create", "forecaster"}
                                    /\ forecaster'[b] = value[c]
  <2>1. ASSUME NEW c \in Requests, NEW a \in Agents, InsertAgent(c, a)
        PROVE  \/ b \in employees /\ forecaster'[b] = forecaster[b]
               \/ pending[c] = "create" /\ forecaster'[b] = value[c]
    BY <1>2, <2>1 DEF InsertAgent, AgentInv, AgentTypeOK
  <2>2. ASSUME NEW c \in Requests, UpdateAgent(c)
        PROVE  \/ b \in employees /\ forecaster'[b] = forecaster[b]
               \/ pending[c] = "forecaster" /\ forecaster'[b] = value[c]
    <3>1. b \in employees /\ pending[c] \in {"forecaster", "provider", "model"}
      BY <1>2, <2>2 DEF UpdateAgent, Changes
    <3>2. \/ forecaster' = forecaster
          \/ /\ pending[c] = "forecaster" /\ subject[c] \in employees
             /\ forecaster' = [forecaster EXCEPT ![subject[c]] = value[c]]
      BY <2>2, <3>1 DEF UpdateAgent
    <3>3. QED
      BY <3>1, <3>2 DEF AgentInv, AgentTypeOK
  <2>3. ASSUME NEW a \in Agents, DeleteAgent(a)
        PROVE  b \in employees /\ forecaster'[b] = forecaster[b]
    BY <1>2, <2>3 DEF DeleteAgent, AgentInv, AgentTypeOK
  <2>4. CASE UNCHANGED <<employees, forecaster>>
    BY <1>2, <2>4
  <2>5. CASE UNCHANGED agentVars \/ \E t \in TierNames : TierMoves(t)
    BY <2>4, <2>5 DEF agentVars, rows, TierMoves
  <2>6. CASE \E c \in Requests : \/ \E f \in Forecasters : GateCreate(c, f)
                                 \/ \E a \in Agents, f \in Forecasters : GateForecaster(c, a, f)
                                 \/ \E a \in Agents, what \in {"provider", "model"},
                                       v \in Providers \cup Models : CheckPair(c, a, what, v)
    BY <2>4, <2>6 DEF rows, GateCreate, GateForecaster, CheckPair
  <2>7. QED
    BY <2>1, <2>2, <2>3, <2>5, <2>6 DEF AgentNext, CreateStep, UpdateStep
<1>3. QED
  BY <1>1, <1>2 DEF ForecastersPaid, AgentInv, RequestsInv

LEMMA PairsStep == AgentInv /\ PairsInv /\ [AgentNext]_agentVars => PairsInv'
<1> SUFFICES ASSUME AgentInv, PairsInv, [AgentNext]_agentVars
             PROVE  PairsInv'
  OBVIOUS
<1>0. NoAgent \notin Agents /\ employees \subseteq Agents /\ raced \subseteq Agents
  BY AgentDeskConstants DEF AgentInv, AgentTypeOK
\* A request that is checked, for something else than a pair ...
<1>1. ASSUME NEW c \in Requests, NEW what \in {"create", "forecaster"},
             NEW a \in Agents \cup {NoAgent}, NEW v, Decides(c, what, a, v),
             UNCHANGED <<employees, pair, raced>>
      PROVE  PairsInv'
  <2>1. \A d \in Requests : /\ pending'[d] = IF d = c THEN what ELSE pending[d]
                            /\ subject'[d] = IF d = c THEN a ELSE subject[d]
                            /\ value'[d] = IF d = c THEN v ELSE value[d]
    BY <1>1 DEF Decides, AgentInv, AgentTypeOK
  <2>2. \A d \in Requests, b \in Agents : Changing(d, b)' => Changing(d, b)
    BY <2>1 DEF Changing, PairChanges
  <2>3. QED
    BY <1>1, <2>1, <2>2 DEF PairsInv
\* ... and for one.
<1>2. ASSUME NEW c \in Requests, NEW a \in Agents, NEW what \in PairChanges,
             NEW v \in Providers \cup Models, CheckPair(c, a, what, v)
      PROVE  PairsInv'
  <2>1. /\ a \in employees /\ UNCHANGED <<employees, pair>> /\ raced \subseteq raced'
        /\ \A d \in Requests : /\ pending'[d] = IF d = c THEN what ELSE pending[d]
                               /\ subject'[d] = IF d = c THEN a ELSE subject[d]
                               /\ value'[d] = IF d = c THEN v ELSE value[d]
    BY <1>2 DEF CheckPair, Decides, AgentInv, AgentTypeOK
  <2>2. /\ what = "provider" => <<v, pair[a][2]>> \in Registry
        /\ what = "model" => <<pair[a][1], v>> \in Registry
    BY <1>2 DEF CheckPair, KnownModel
  <2>3. ASSUME a \notin raced', NEW d \in Requests \ {c}
        PROVE  ~Changing(d, a)
    BY <1>2, <2>3 DEF CheckPair, Changing, PairChanges
  <2>4. ASSUME NEW b \in Agents \ raced', NEW d \in Requests, NEW e \in Requests,
               Changing(d, b)', Changing(e, b)'
        PROVE  d = e
    <3>1. CASE b = a
      <4>1. \A f \in Requests : f # c /\ Changing(f, a)' => Changing(f, a)
        BY <2>1 DEF Changing
      <4>2. QED
        BY <2>3, <2>4, <3>1, <4>1
    <3>2. CASE b # a
      <4>1. \A f \in Requests : Changing(f, b)' => Changing(f, b)
        BY <2>1, <3>2 DEF Changing
      <4>2. QED
        BY <2>1, <2>4, <4>1 DEF PairsInv
    <3>3. QED
      BY <3>1, <3>2
  <2>5. ASSUME NEW b \in employees' \ raced'
        PROVE  /\ pair'[b] \in Registry
               /\ \A d \in Requests : subject'[d] = b =>
                     /\ pending'[d] = "provider" => <<value'[d], pair'[b][2]>> \in Registry
                     /\ pending'[d] = "model" => <<pair'[b][1], value'[d]>> \in Registry
    BY <2>1, <2>2 DEF PairsInv
  <2>6. QED
    BY <2>1, <2>4, <2>5 DEF PairsInv
\* The writes.
<1>3. ASSUME NEW c \in Requests, NEW a \in Agents, InsertAgent(c, a)
      PROVE  PairsInv'
  <2>1. /\ a \notin employees /\ employees' = employees \cup {a} /\ UNCHANGED <<pair, raced>>
        /\ \A d \in Requests : /\ pending'[d] = IF d = c THEN "none" ELSE pending[d]
                               /\ subject'[d] = IF d = c THEN NoAgent ELSE subject[d]
                               /\ value'[d] = IF d = c THEN NoAgent ELSE value[d]
    BY <1>3 DEF InsertAgent, Answers, AgentInv, AgentTypeOK
  <2>2. \A d \in Requests, b \in Agents : Changing(d, b)' => Changing(d, b)
    BY <2>1 DEF Changing, PairChanges
  <2>3. pair[a] \in Registry
    BY <2>1, SomePair DEF PairsInv
  <2>4. \A d \in Requests : subject'[d] # a
    BY <1>0, <2>1 DEF AgentInv, RequestsInv
  <2>5. ASSUME NEW b \in employees' \ raced'
        PROVE  /\ pair'[b] \in Registry
               /\ \A d \in Requests : subject'[d] = b =>
                     /\ pending'[d] = "provider" => <<value'[d], pair'[b][2]>> \in Registry
                     /\ pending'[d] = "model" => <<pair'[b][1], value'[d]>> \in Registry
    BY <2>1, <2>3, <2>4 DEF PairsInv
  <2>6. QED
    BY <2>1, <2>2, <2>5 DEF PairsInv
<1>4. ASSUME NEW c \in Requests, UpdateAgent(c)
      PROVE  PairsInv'
  <2>0. PICK a : a = subject[c]
    OBVIOUS
  <2>1. /\ UNCHANGED <<employees, raced>>
        /\ \A d \in Requests : /\ pending'[d] = IF d = c THEN "none" ELSE pending[d]
                               /\ subject'[d] = IF d = c THEN NoAgent ELSE subject[d]
                               /\ value'[d] = IF d = c THEN NoAgent ELSE value[d]
    BY <1>4 DEF UpdateAgent, Answers, AgentInv, AgentTypeOK
  <2>2. \A d \in Requests, b \in Agents : Changing(d, b)' => Changing(d, b) /\ d # c
    BY <1>0, <2>1 DEF Changing, PairChanges
  <2>3. CASE pair' = pair
    BY <2>1, <2>2, <2>3 DEF PairsInv, Changing
  <2>4. CASE /\ pending[c] \in PairChanges /\ a \in employees
             /\ pair' = [pair EXCEPT ![a] = IF pending[c] = "provider" THEN <<value[c], @[2]>>
                                                                       ELSE <<@[1], value[c]>>]
    <3>1. a \in Agents /\ Changing(c, a)
      BY <1>0, <2>0, <2>4 DEF Changing
    <3>2. ASSUME a \notin raced, NEW d \in Requests
          PROVE  ~Changing(d, a)'
      BY <2>2, <3>1, <3>2 DEF PairsInv
    <3>3. \A b \in Agents : b # a => pair'[b] = pair[b]
      BY <2>4 DEF AgentInv, AgentTypeOK
    <3>4. a \notin raced => pair'[a] \in Registry
      BY <2>0, <2>4, <3>1 DEF PairsInv, PairChanges, AgentInv, AgentTypeOK
    <3>5. ASSUME NEW b \in employees' \ raced'
          PROVE  /\ pair'[b] \in Registry
                 /\ \A d \in Requests : subject'[d] = b =>
                       /\ pending'[d] = "provider" => <<value'[d], pair'[b][2]>> \in Registry
                       /\ pending'[d] = "model" => <<pair'[b][1], value'[d]>> \in Registry
      <4>1. CASE b = a
        <5>1. \A d \in Requests : subject'[d] = b => pending'[d] \notin PairChanges
          BY <2>1, <3>2, <4>1 DEF Changing
        <5>2. QED
          BY <2>1, <3>4, <4>1, <5>1 DEF PairChanges
      <4>2. CASE b # a
        BY <1>0, <2>1, <3>3, <4>2 DEF PairsInv
      <4>3. QED
        BY <4>1, <4>2
    <3>6. QED
      BY <2>1, <2>2, <2>4, <3>3, <3>5 DEF PairsInv
  <2>5. QED
    <3>1. pending[c] \in {"forecaster", "provider", "model"}
      BY <1>4 DEF UpdateAgent, Changes
    <3>2. \/ pair' = pair
          \/ /\ pending[c] = "provider" /\ a \in employees
             /\ pair' = [pair EXCEPT ![a] = <<value[c], @[2]>>]
          \/ /\ pending[c] = "model" /\ a \in employees
             /\ pair' = [pair EXCEPT ![a] = <<@[1], value[c]>>]
      BY <1>4, <2>0, <3>1 DEF UpdateAgent
    <3>3. QED
      BY <2>3, <2>4, <3>2 DEF PairChanges
<1>5. ASSUME NEW a \in Agents, DeleteAgent(a)
      PROVE  PairsInv'
  <2>1. /\ employees' = employees \ {a} /\ raced' = raced \ {a}
        /\ pair' = [pair EXCEPT ![a] = DefaultPair]
        /\ \A d \in Requests : subject'[d] = IF subject[d] = a THEN NoAgent ELSE subject[d]
        /\ UNCHANGED <<pending, value>>
    BY <1>5 DEF DeleteAgent
  <2>2. \A d \in Requests, b \in Agents : Changing(d, b)' => Changing(d, b) /\ b # a
    BY <1>0, <2>1 DEF Changing
  <2>3. \A b \in Agents : pair'[b] = IF b = a THEN DefaultPair ELSE pair[b]
    BY <2>1 DEF AgentInv, AgentTypeOK
  <2>4. \A b \in Agents \ raced', c, d \in Requests : Changing(c, b)' /\ Changing(d, b)' => c = d
    BY <2>1, <2>2 DEF PairsInv
  <2>5. \A b \in Agents \ employees' : pair'[b] = DefaultPair
    BY <2>1, <2>3 DEF PairsInv
  <2>6. ASSUME NEW b \in employees' \ raced'
        PROVE  /\ pair'[b] \in Registry
               /\ \A d \in Requests : subject'[d] = b =>
                     /\ pending'[d] = "provider" => <<value'[d], pair'[b][2]>> \in Registry
                     /\ pending'[d] = "model" => <<pair'[b][1], value'[d]>> \in Registry
    <3>1. b \in employees \ raced /\ b # a /\ b # NoAgent /\ pair'[b] = pair[b]
      BY <1>0, <2>1, <2>3
    <3>2. QED
      BY <2>1, <3>1 DEF PairsInv
  <2>7. QED
    BY <2>4, <2>5, <2>6 DEF PairsInv
<1>6. CASE UNCHANGED agentVars \/ \E t \in TierNames : TierMoves(t)
  <2>1. UNCHANGED <<employees, pair, raced, pending, subject, value>>
    BY <1>6 DEF agentVars, rows, desk, TierMoves
  <2>2. QED
    BY <2>1 DEF PairsInv, Changing
<1>7. CASE \E c \in Requests : \/ \E f \in Forecasters : GateCreate(c, f)
                               \/ \E a \in Agents, f \in Forecasters : GateForecaster(c, a, f)
  BY <1>1, <1>7 DEF GateCreate, GateForecaster, rows
<1>8. QED
  BY <1>2, <1>3, <1>4, <1>5, <1>6, <1>7 DEF AgentNext, CreateStep, UpdateStep, PairChanges

(***************************************************************************)
(* Headcount.  A request past the gate holds the place it may still take;  *)
(* the largest tier held so far only grows.                                *)
(***************************************************************************)

Creating == {c \in Requests : pending[c] = "create"}
Caps == {MaxEmployees[t] : t \in held} \cup {Cardinality(Seeded)}

HeadcountInv ==
    Cardinality(employees) + Cardinality(Creating) <= Max(Caps) + Cardinality(Requests) - 1

DeskCounts ==
    /\ IsFiniteSet(employees) /\ Cardinality(employees) \in Nat
    /\ IsFiniteSet(Creating) /\ Cardinality(Creating) \in Nat
    /\ Cardinality(Creating) <= Cardinality(Requests) /\ Cardinality(Requests) \in Nat \ {0}
    /\ IsFiniteSet(Caps) /\ Caps \subseteq Nat /\ Caps # {}
    /\ Max(Caps) \in Nat /\ \A n \in Caps : n <= Max(Caps)

LEMMA CapsFinite ==
  ASSUME AgentTypeOK
  PROVE  IsFiniteSet(Caps) /\ Caps \subseteq Nat /\ Caps # {}
<1> DEFINE caps == {MaxEmployees[t] : t \in held}
           g == [t \in held |-> MaxEmployees[t]]
<1>1. IsFiniteSet(held) /\ held \subseteq TierNames
  BY AgentDeskConstants, FS_Subset DEF AgentTypeOK
<1>2. g \in Surjection(held, caps)
  BY DEF Surjection
<1>3. IsFiniteSet(caps)
  BY <1>1, <1>2, FS_Surjection
<1>4. Cardinality(Seeded) \in Nat
  BY AgentDeskConstants, FS_Subset, FS_CardinalityType
<1>5. caps \subseteq Nat
  BY <1>1, AgentDeskConstants
<1>6. Caps = caps \cup {Cardinality(Seeded)}
  BY DEF Caps
<1> HIDE DEF caps
<1>7. IsFiniteSet(caps \cup {Cardinality(Seeded)})
  BY <1>3, FS_AddElement
<1>8. QED
  BY <1>4, <1>5, <1>6, <1>7

LEMMA DeskCount == AgentInv => DeskCounts
<1> SUFFICES ASSUME AgentInv
             PROVE  DeskCounts
  OBVIOUS
<1>1. Cardinality(Requests) \in Nat \ {0}
  BY AgentDeskConstants, FS_CardinalityType, FS_EmptySet
<1>2. employees \in SUBSET Agents /\ Creating \in SUBSET Requests
  BY DEF AgentInv, AgentTypeOK, Creating
<1>3. IsFiniteSet(employees) /\ Cardinality(employees) \in Nat
  BY <1>2, CountNat, AgentDeskConstants
<1>4. /\ IsFiniteSet(Creating) /\ Cardinality(Creating) \in Nat
      /\ Cardinality(Creating) <= Cardinality(Requests)
  BY <1>2, CountNat, AgentDeskConstants
<1>5. IsFiniteSet(Caps) /\ Caps \subseteq Nat /\ Caps # {}
  BY CapsFinite DEF AgentInv
<1>51. Caps \subseteq Int
  BY <1>5
<1>6. Max(Caps) \in Caps /\ \A n \in Caps : Max(Caps) >= n
  BY <1>5, <1>51, MaxIsMax
<1>7. Max(Caps) \in Nat /\ \A n \in Caps : n <= Max(Caps)
  BY <1>5, <1>6
<1>8. QED
  BY <1>1, <1>3, <1>4, <1>5, <1>7 DEF DeskCounts

LEMMA HeadcountInit == AgentInit => HeadcountInv
<1> SUFFICES ASSUME AgentInit
             PROVE  HeadcountInv
  OBVIOUS
<1>1. DeskCounts
  BY AgentTypeInit, DeskCount
<1>2. employees = Seeded /\ Creating = {} /\ Cardinality(Seeded) \in Caps
  BY DEF AgentInit, Creating, Caps
<1>3. Cardinality(employees) <= Max(Caps)
  BY <1>1, <1>2 DEF DeskCounts
<1>4. Cardinality(Creating) = 0
  BY <1>2, FS_EmptySet
<1>5. QED
  BY <1>1, <1>3, <1>4 DEF DeskCounts, HeadcountInv

LEMMA HeadcountFrame ==
  ASSUME DeskCounts, DeskCounts', HeadcountInv,
         employees' \subseteq employees, Creating' \subseteq Creating, held \subseteq held'
  PROVE  HeadcountInv'
<1>1. /\ Cardinality(employees') <= Cardinality(employees)
      /\ Cardinality(Creating') <= Cardinality(Creating)
  BY CountNat DEF DeskCounts
<1>2. Caps \subseteq Caps' /\ Max(Caps) \in Nat
  BY DEF Caps, DeskCounts
<1>21. IsFiniteSet(Caps) /\ Caps # {} /\ Caps \subseteq Int
  BY DEF DeskCounts
<1>3. Max(Caps) \in Caps
  BY <1>21, MaxIsMax
<1>4. Max(Caps) <= Max(Caps')
  BY <1>2, <1>3 DEF DeskCounts
<1>5. QED
  BY <1>1, <1>4 DEF DeskCounts, HeadcountInv

LEMMA HeadcountStep ==
  AgentInv /\ AgentInv' /\ HeadcountInv /\ [AgentNext]_agentVars => HeadcountInv'
<1> SUFFICES ASSUME AgentInv, AgentInv', HeadcountInv, [AgentNext]_agentVars
             PROVE  HeadcountInv'
  OBVIOUS
<1>0. DeskCounts /\ DeskCounts'
  BY DeskCount, PTL
<1>1. ASSUME NEW c \in Requests, NEW f \in Forecasters, GateCreate(c, f)
      PROVE  HeadcountInv'
  <2>1. /\ Cardinality(employees) < MaxEmployees[tierName] /\ employees' = employees
        /\ Caps' = Caps
    BY <1>1 DEF GateCreate, HasRoom, rows, Caps
  <2>2. MaxEmployees[tierName] \in Caps
    BY DEF Caps, AgentInv, AgentTypeOK
  <2>3. MaxEmployees[tierName] \in Nat /\ MaxEmployees[tierName] <= Max(Caps)
    BY <1>0, <2>2 DEF DeskCounts
  <2>4. Max(Caps') = Max(Caps)
    BY <2>1
  <2>5. QED
    BY <1>0, <2>1, <2>3, <2>4 DEF DeskCounts, HeadcountInv
<1>2. ASSUME NEW c \in Requests, NEW a \in Agents, InsertAgent(c, a)
      PROVE  HeadcountInv'
  <2>1. /\ c \in Creating /\ Creating' = Creating \ {c} /\ Caps' = Caps
        /\ a \notin employees /\ employees' = employees \cup {a}
    BY <1>2 DEF InsertAgent, Answers, Creating, Caps, AgentInv, AgentTypeOK
  <2>2. Cardinality(employees') = Cardinality(employees) + 1
    BY <1>0, <2>1, FS_AddElement DEF DeskCounts
  <2>3. Cardinality(Creating') = Cardinality(Creating) - 1
    BY <1>0, <2>1, CountLess DEF DeskCounts
  <2>4. Max(Caps') = Max(Caps)
    BY <2>1
  <2>5. QED
    BY <1>0, <2>2, <2>3, <2>4 DEF DeskCounts, HeadcountInv
<1>3. ASSUME \/ UNCHANGED agentVars \/ \E t \in TierNames : TierMoves(t)
             \/ \E a \in Agents : DeleteAgent(a)
      PROVE  HeadcountInv'
  <2>1. employees' \subseteq employees /\ pending' = pending /\ held \subseteq held'
    BY <1>3 DEF agentVars, rows, desk, TierMoves, DeleteAgent
  <2>2. Creating' = Creating
    BY <2>1 DEF Creating
  <2>3. QED
    BY <1>0, <2>1, <2>2, HeadcountFrame
<1>4. ASSUME NEW c \in Requests, UpdateStep(c)
      PROVE  HeadcountInv'
  <2>1. employees' = employees /\ held' = held
    BY <1>4 DEF UpdateStep, GateForecaster, CheckPair, UpdateAgent, rows
  <2>2. \A d \in Requests : pending'[d] = "create" => pending[d] = "create"
    BY <1>4
    DEF UpdateStep, GateForecaster, CheckPair, UpdateAgent, Decides, Answers, AgentInv,
        AgentTypeOK
  <2>3. Creating' \subseteq Creating
    BY <2>2 DEF Creating
  <2>4. QED
    BY <1>0, <2>1, <2>3, HeadcountFrame
<1>5. QED
  BY <1>1, <1>2, <1>3, <1>4 DEF AgentNext, CreateStep

\* Whatever requests, downgrades and deletions interleave, the agents of a company are
\* ones its gates could have let in: in number, up to one per further request in
\* flight; in forecaster, among those of a tier it held; in model, among the known
\* pairs, unless two requests that change one agent's pair overlap.
THEOREM TheDeskIsLegal == AgentSpec => []AgentsAreLegal
<1> DEFINE Inv == AgentInv /\ ForecastersPaid /\ PairsInv /\ HeadcountInv
<1>1. AgentInit => Inv
  <2> SUFFICES ASSUME AgentInit
               PROVE  Inv
    OBVIOUS
  <2>1. ForecastersPaid
    <3>1. tierName \in TierNames /\ held = {tierName}
      BY DEF AgentInit
    <3>2. "ttm" \in Allowed[tierName]
      BY <3>1, FreeForecaster
    <3>3. QED
      BY <3>1, <3>2, AgentDeskConstants DEF AgentInit, ForecastersPaid
  <2>2. PairsInv
    BY SomePair, AgentDeskConstants DEF AgentInit, PairsInv, Changing, PairChanges
  <2>3. QED
    BY <2>1, <2>2, AgentTypeInit, HeadcountInit
<1>2. Inv /\ [AgentNext]_agentVars => Inv'
  BY AgentTypeStep, PaidStep, PairsStep, HeadcountStep
<1>3. Inv => AgentsAreLegal
  <2> SUFFICES ASSUME AgentInv, ForecastersPaid, PairsInv, HeadcountInv
               PROVE  AgentsAreLegal
    OBVIOUS
  <2>1. HeadcountBounded
    BY DeskCount DEF DeskCounts, HeadcountInv, HeadcountBounded, Caps
  <2>2. PairsRegistered
    BY DEF PairsInv, PairsRegistered
  <2>3. QED
    BY <2>1, <2>2 DEF AgentsAreLegal
<1>4. QED
  BY <1>1, <1>2, <1>3, PTL DEF AgentSpec

-----------------------------------------------------------------------------
(***************************************************************************)
(* The components beside each other, as they are checked.                  *)
(***************************************************************************)
LEMMA PartsRun == MCSpec => MembersSpec /\ BillingSpec /\ LiveSpec /\ AgentSpec
<1>1. MCInit => MembersInit /\ BillingInit /\ LiveInit /\ AgentInit
  BY DEF MCInit
<1>2. [MCNext]_mcVars => [MembersNext]_membersVars
  BY DEF MCNext, mcVars
<1>3. [MCNext]_mcVars => [BillingNext]_billingVars
  BY DEF MCNext, mcVars
<1>4. [MCNext]_mcVars => [LiveNext]_liveVars
  BY DEF MCNext, mcVars
<1>5. [MCNext]_mcVars => [AgentNext]_agentVars
  BY DEF MCNext, mcVars
<1> QED
  BY <1>1, <1>2, <1>3, <1>4, <1>5, PTL DEF MCSpec, MembersSpec, BillingSpec, LiveSpec, AgentSpec

\* Whichever component runs, the rows of all of them keep their type.
THEOREM AllTypesCorrect == MCSpec => []TypesOK
<1>1. MembersTypeOK /\ BillingTypeOK /\ LiveTypeOK /\ AgentTypeOK => TypesOK
  BY DEF TypesOK
<1> QED
  BY <1>1, PartsRun, MembersTypeCorrect, BillingTypeCorrect, LiveTypeCorrect, AgentTypeCorrect, PTL
=============================================================================
