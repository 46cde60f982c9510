------------------------------ MODULE LiveGate ------------------------------
(***************************************************************************)
(* What stands between a company and real money: passkey ceremonies        *)
(* (routes/passkey.py), and the paper-mode switch (routes/companies.py)    *)
(* with the tier gate (tiers.py), all of services/api/app.  One company    *)
(* and one admin with one authenticator, in as many browser tabs as there  *)
(* are ceremonies.                                                         *)
(*                                                                         *)
(* A ceremony is named by its challenge.  The server keeps no link between *)
(* the two: verifying consumes the newest challenge of the account.        *)
(***************************************************************************)
EXTENDS Integers, FiniteSets, Sequences, SequencesExt

CONSTANTS Registrations, Assertions,    \* ceremonies (bound)
          Posts,                        \* requests served at one time (bound)
          NoCeremony                          \* no ceremony

ASSUME LiveGateConstants ==
    Registrations \cap Assertions = {} /\ NoCeremony \notin Registrations \cup Assertions

Ceremonies == Registrations \cup Assertions

VARIABLES
    begun, challenges,       \* ceremonies begun; webauthn_challenges, oldest first
    signed, device,          \* the counter in each signature, the authenticator's
    registered, counter,     \* webauthn_credentials: there is one, its sign_count
    verifying, step,         \* requests: the ceremony, its next statement
    accepted, unlocked,      \* how often each ceremony was accepted; the unlock cookie
    paper, paperOnly, asks,  \* paper_mode, tier.paper_only, PATCH requests in flight
    braked                   \* paper since a brake that no request in flight can undo

ceremonyVars == <<begun, challenges, signed, device>>
requestVars == <<verifying, step>>
passkeyVars == <<registered, counter, accepted>>
paperVars == <<paper, paperOnly, asks, braked>>
liveVars == <<ceremonyVars, requestVars, passkeyVars, unlocked, paperVars>>

LiveTypeOK ==
    /\ begun \subseteq Ceremonies /\ Range(challenges) \subseteq begun
    /\ device \in Nat /\ signed \in [Ceremonies -> 0..device]
    /\ registered \in BOOLEAN /\ counter \in 0..device
    /\ verifying \in [Posts -> Ceremonies \cup {NoCeremony}]
    /\ step \in [Posts -> {"none", "read", "write"}]
    /\ \A c \in Posts : step[c] = "none" <=> verifying[c] = NoCeremony
    /\ accepted \in [Ceremonies -> Nat]
    /\ unlocked \in BOOLEAN /\ paper \in BOOLEAN /\ paperOnly \in BOOLEAN
    /\ asks \in [Posts -> {"none", "live", "brake"}] /\ braked \in BOOLEAN

LiveInit ==
    /\ begun = {} /\ challenges = <<>>
    /\ signed = [x \in Ceremonies |-> 0] /\ device = 0
    /\ registered = FALSE /\ counter = 0
    /\ verifying = [c \in Posts |-> NoCeremony] /\ step = [c \in Posts |-> "none"]
    /\ accepted = [x \in Ceremonies |-> 0]
    /\ unlocked = FALSE
    /\ paper = TRUE /\ paperOnly \in BOOLEAN /\ braked = TRUE
    /\ asks = [c \in Posts |-> "none"]

-----------------------------------------------------------------------------
(* Passkeys.                                                               *)

\* register_options and assert_options, the latter for an account with a passkey;
\* _store_challenge.
BeginCeremony(x) ==
    /\ x \notin begun /\ begun' = begun \cup {x}
    /\ x \in Assertions => registered
    /\ challenges' = Append(challenges, x)
    /\ UNCHANGED <<signed, device, requestVars, passkeyVars, unlocked, paperVars>>

ChallengeExpires ==
    /\ challenges # <<>> /\ challenges' = Tail(challenges)
    /\ UNCHANGED <<begun, signed, device, requestVars, passkeyVars, unlocked, paperVars>>

\* The authenticator signs the challenge its tab holds; its counter grows.
Sign(x) ==
    /\ x \in begun /\ signed[x] = 0
    /\ device' = device + 1 /\ signed' = [signed EXCEPT ![x] = device + 1]
    /\ UNCHANGED <<begun, challenges, requestVars, passkeyVars, unlocked, paperVars>>

SamePurpose(x, y) == x \in Registrations <=> y \in Registrations

\* The newest live challenge for the purpose of x.
Newest(i, x) ==
    /\ SamePurpose(x, challenges[i])
    /\ \A j \in DOMAIN challenges : SamePurpose(x, challenges[j]) => j <= i

\* _consume_challenge deletes what it returns.  The mutant only reads it.
MutantLeft(q, i) == q
Left(q, i) == RemoveAt(q, i)

\* A tab posts its signature, perhaps not for the first time.  register_verify and
\* assert_verify consume a challenge; if it is another's the signature does not
\* verify, and the challenge is gone.
ConsumeChallenge(c, x, i) ==
    /\ signed[x] # 0 /\ verifying[c] = NoCeremony /\ Newest(i, x)
    /\ challenges' = Left(challenges, i)
    /\ IF challenges[i] = x
       THEN verifying' = [verifying EXCEPT ![c] = x] /\ step' = [step EXCEPT ![c] = "read"]
       ELSE UNCHANGED <<verifying, step>>
    /\ UNCHANGED <<begun, signed, device, passkeyVars, unlocked, paperVars>>

\* The request is over.
Answered(c) ==
    /\ verifying' = [verifying EXCEPT ![c] = NoCeremony] /\ step' = [step EXCEPT ![c] = "none"]

\* register_verify, its upsert.
RegisterVerify(c) ==
    /\ verifying[c] \in Registrations /\ Answered(c)
    /\ registered' = TRUE /\ counter' = 0
    /\ accepted' = [accepted EXCEPT ![verifying[c]] = @ + 1]
    /\ UNCHANGED <<ceremonyVars, unlocked, paperVars>>

\* assert_verify: read the stored counter; the signature's must be greater ...
ReadCounter(c) ==
    /\ verifying[c] \in Assertions /\ step[c] = "read"
    /\ IF signed[verifying[c]] > counter
       THEN step' = [step EXCEPT ![c] = "write"] /\ UNCHANGED verifying
       ELSE Answered(c)
    /\ UNCHANGED <<ceremonyVars, passkeyVars, unlocked, paperVars>>

\* ... then store it, and set the unlock cookie.
AssertVerify(c) ==
    /\ step[c] = "write" /\ Answered(c)
    /\ counter' = signed[verifying[c]] /\ unlocked' = TRUE
    /\ accepted' = [accepted EXCEPT ![verifying[c]] = @ + 1]
    /\ UNCHANGED <<ceremonyVars, registered, paperVars>>

\* Five minutes pass.
UnlockExpires ==
    /\ unlocked /\ unlocked' = FALSE
    /\ UNCHANGED <<ceremonyVars, requestVars, passkeyVars, paperVars>>

-----------------------------------------------------------------------------
(* The paper-mode switch.                                                  *)

TierChanges ==
    /\ paperOnly' = ~paperOnly
    /\ UNCHANGED <<ceremonyVars, requestVars, passkeyVars, unlocked, paper, asks, braked>>

\* set_paper_mode asks for the tier and the passkey when the row it read is on paper
\* and the body is not.
GoesLive(want) == paper /\ want = "live"

\* set_paper_mode up to its UPDATE ...
CheckPaperMode(c, want) ==
    /\ asks[c] = "none" /\ asks' = [asks EXCEPT ![c] = want]
    /\ GoesLive(want) => ~paperOnly /\ unlocked
    /\ braked' = (braked /\ ~(want = "live" /\ unlocked /\ ~paperOnly))
    /\ UNCHANGED <<ceremonyVars, requestVars, passkeyVars, unlocked, paper, paperOnly>>

\* ... and its UPDATE, which does not look again.
SetPaperMode(c) ==
    /\ asks[c] # "none" /\ asks' = [asks EXCEPT ![c] = "none"]
    /\ paper' = (asks[c] = "brake")
    /\ braked' = IF asks[c] = "brake"
                 THEN braked \/ \A d \in Posts : asks[d] # "live"
                 ELSE braked
    /\ UNCHANGED <<ceremonyVars, requestVars, passkeyVars, unlocked, paperOnly>>

-----------------------------------------------------------------------------
CeremonyStep ==
    \/ \E x \in Ceremonies : BeginCeremony(x) \/ Sign(x)
    \/ ChallengeExpires

VerifyStep(c) ==
    \/ \E x \in Ceremonies, i \in DOMAIN challenges : ConsumeChallenge(c, x, i)
    \/ RegisterVerify(c) \/ ReadCounter(c) \/ AssertVerify(c)

PaperStep ==
    \/ \E c \in Posts : SetPaperMode(c) \/ \E w \in {"live", "brake"} : CheckPaperMode(c, w)
    \/ TierChanges

LiveNext ==
    \/ CeremonyStep \/ UnlockExpires
    \/ \E c \in Posts : VerifyStep(c)
    \/ PaperStep

LiveSpec == LiveInit /\ [][LiveNext]_liveVars

-----------------------------------------------------------------------------
(* Properties.                                                             *)

\* A signature opens the gate once, however often it is posted and however the
\* requests interleave: _consume_challenge deletes the challenge it returns.
AcceptedOnce == \A x \in Ceremonies : accepted[x] <= 1

\* Brakes put on while no request to go live is in flight hold until one passes the
\* tier gate and the passkey: set_paper_mode decides on the row it read, which a
\* brake in between makes obsolete.
BrakesHold == braked => paper

\* Going live takes a signature of its own, each time: none opens the gate twice,
\* and after a brake nobody trades live who did not pass the gate again.
LiveTakesASignature == AcceptedOnce /\ BrakesHold
=============================================================================
