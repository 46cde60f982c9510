------------------------------ MODULE TraderPool ------------------------------
(***************************************************************************)
(* The gateway's pool of authorized broker clients, for one company        *)
(* (services/gateway/internal/trader/pool.go and the connection half of    *)
(* client.go).                                                             *)
(*                                                                         *)
(* Every order, statement, sale and warm-up runs in a goroutine of its own *)
(* and calls Pool.Get first.  The mutex covers the look-up and the         *)
(* installation of a client, not the token request between them, nor the   *)
(* wait for the authorization after them.  Tokens are numbered; the api    *)
(* may store a new one at any time and then sends deriv.warm.<company>,    *)
(* which is one more call of Get.                                          *)
(***************************************************************************)
EXTENDS Naturals, FiniteSets

CONSTANTS Callers,      \* goroutines that call Get
          Clients,      \* clients New may create (bound)
          Nil,
          MaxToken,     \* tokens stored after the first (bound)
          BadTokens     \* tokens the broker does not accept

ASSUME PoolConstants ==
    /\ Nil \notin Clients
    /\ MaxToken \in Nat /\ BadTokens \subseteq 0 .. MaxToken

VARIABLES
    token,              \* what deriv.token.req answers now
    warm,               \* a deriv.warm message is on its way
    pool,               \* p.clients[company]
    conn, clientToken,  \* per client: its Run loop, the token it was made with
    pc, mine, got       \* per caller: place in Get, its client, its token

clientVars == <<conn, clientToken>>
callerVars == <<pc, mine, got>>
vars == <<token, warm, pool, clientVars, callerVars>>

\* "lost" is a connection that fell and was not redialled, "stopped" one whose
\* Run was cancelled after the authorization: authed is still set in both.
ConnState == {"unused", "dialing", "authed", "lost", "cancelled", "stopped"}
Place == {"idle", "lookup", "install", "await_own", "yank", "cancel",
          "await_shared", "have"}

TypeOK ==
    /\ token \in 0 .. MaxToken /\ warm \in BOOLEAN
    /\ pool \in Clients \cup {Nil}
    /\ conn \in [Clients -> ConnState]
    /\ clientToken \in [Clients -> 0 .. MaxToken]
    /\ pc \in [Callers -> Place]
    /\ mine \in [Callers -> Clients \cup {Nil}]
    /\ \A g \in Callers : (mine[g] = Nil) <=> pc[g] \in {"idle", "lookup", "install"}
    /\ got \in [Callers -> 0 .. MaxToken]

Init ==
    /\ token = 0 /\ warm = FALSE
    /\ pool = Nil
    /\ conn = [c \in Clients |-> "unused"]
    /\ clientToken = [c \in Clients |-> 0]
    /\ pc = [g \in Callers |-> "idle"]
    /\ mine = [g \in Callers |-> Nil]
    /\ got = [g \in Callers |-> 0]

Goto(g, place) == pc' = [pc EXCEPT ![g] = place]
Return(g) == Goto(g, "idle") /\ mine' = [mine EXCEPT ![g] = Nil]

\* authed is set and there is a connection: nothing says that it still works.
Ready(c) == conn[c] \in {"authed", "lost", "stopped"}

-----------------------------------------------------------------------------
(* Pool.Get.                                                               *)

\* The map has a client: use it if it is ready, wait for it otherwise.
GetExisting(g) ==
    /\ pc[g] = "idle" /\ pool # Nil
    /\ mine' = [mine EXCEPT ![g] = pool]
    /\ Goto(g, IF Ready(pool) THEN "have" ELSE "await_shared")
    /\ UNCHANGED <<token, warm, pool, clientVars, got>>

\* It has none: unlock, request the token.
GetMissing(g) ==
    /\ pc[g] = "idle" /\ pool = Nil
    /\ Goto(g, "lookup")
    /\ UNCHANGED <<token, warm, pool, clientVars, mine, got>>

\* The warm-up subscription's callback is such a call.
HandleWarm(g) ==
    /\ warm /\ pc[g] = "idle" /\ warm' = FALSE
    /\ IF pool = Nil
       THEN Goto(g, "lookup") /\ UNCHANGED mine
       ELSE /\ Goto(g, IF Ready(pool) THEN "have" ELSE "await_shared")
            /\ mine' = [mine EXCEPT ![g] = pool]
    /\ UNCHANGED <<token, pool, clientVars, got>>

TokenReply(g) ==
    /\ pc[g] = "lookup"
    /\ Goto(g, "install") /\ got' = [got EXCEPT ![g] = token]
    /\ UNCHANGED <<token, warm, pool, clientVars, mine>>

\* No responder, an error reply, or no token configured.
TokenFails(g) ==
    /\ pc[g] = "lookup" /\ Return(g)
    /\ UNCHANGED <<token, warm, pool, clientVars, got>>

\* Re-check under the lock: another caller may have installed a client.  The
\* mutant leaves the re-check out.
MutantMustCreate == TRUE
MustCreate == pool = Nil

\* Use the one another caller installed (without waiting for it).
InstallFindsClient(g) ==
    /\ pc[g] = "install" /\ ~MustCreate
    /\ mine' = [mine EXCEPT ![g] = pool] /\ Goto(g, "have")
    /\ UNCHANGED <<token, warm, pool, clientVars, got>>

\* New, store in the map, go Run, wait.
InstallClient(g, c) ==
    /\ pc[g] = "install" /\ MustCreate /\ conn[c] = "unused"
    /\ conn' = [conn EXCEPT ![c] = "dialing"]
    /\ clientToken' = [clientToken EXCEPT ![c] = got[g]]
    /\ pool' = c
    /\ mine' = [mine EXCEPT ![g] = c] /\ Goto(g, "await_own")
    /\ UNCHANGED <<token, warm, got>>

\* waitReady returns nil.
WaitSucceeds(g) ==
    /\ pc[g] \in {"await_own", "await_shared"} /\ Ready(mine[g])
    /\ Goto(g, "have")
    /\ UNCHANGED <<token, warm, pool, clientVars, mine, got>>

\* waitReady saw the client not ready, and its deadline or the caller's context
\* passed.  Only the caller that created the client goes on to remove it.  The
\* mutant lets none.
MutantNoneYank(g) == "idle"
AfterTimeout(g) == IF pc[g] = "await_own" THEN "yank" ELSE "idle"

WaitTimesOut(g) ==
    /\ pc[g] \in {"await_own", "await_shared"} /\ ~Ready(mine[g])
    /\ IF AfterTimeout(g) = "idle" THEN Return(g)
       ELSE Goto(g, AfterTimeout(g)) /\ UNCHANGED mine
    /\ UNCHANGED <<token, warm, pool, clientVars, got>>

\* delete(p.clients, company) under the lock, then cancel() outside it.
Yank(g) ==
    /\ pc[g] = "yank" /\ pool' = Nil /\ Goto(g, "cancel")
    /\ UNCHANGED <<token, warm, clientVars, mine, got>>

\* The client stops; a reply of the broker that is there already may still set
\* authed, which a caller waiting for this client then takes for ready.
AfterCancel(c) ==
    IF Ready(c) THEN {"stopped"}
    ELSE {"cancelled"} \cup {s \in {"stopped"} : clientToken[c] \notin BadTokens}

Cancel(g) ==
    /\ pc[g] = "cancel"
    /\ \E s \in AfterCancel(mine[g]) : conn' = [conn EXCEPT ![mine[g]] = s]
    /\ Return(g)
    /\ UNCHANGED <<token, warm, pool, clientToken, got>>

\* The caller's request on the client ends, with a result or an error.
RequestEnds(g) ==
    /\ pc[g] = "have" /\ Return(g)
    /\ UNCHANGED <<token, warm, pool, clientVars, got>>

-----------------------------------------------------------------------------
(* Client.Run, the broker, and the api.                                    *)

\* connectAndServe dials and authorizes; with a bad token it returns an error
\* and the loop tries again, which changes nothing here.
Authorize(c) ==
    /\ conn[c] = "dialing" /\ clientToken[c] \notin BadTokens
    /\ conn' = [conn EXCEPT ![c] = "authed"]
    /\ UNCHANGED <<token, warm, pool, clientToken, callerVars>>

ConnectionDrops(c) ==
    /\ conn[c] = "authed" /\ conn' = [conn EXCEPT ![c] = "lost"]
    /\ UNCHANGED <<token, warm, pool, clientToken, callerVars>>

\* The next successful dial clears authed.
Redial(c) ==
    /\ conn[c] = "lost" /\ conn' = [conn EXCEPT ![c] = "dialing"]
    /\ UNCHANGED <<token, warm, pool, clientToken, callerVars>>

\* patch_credentials: store the token, publish deriv.warm (fire and forget).
StoreToken ==
    /\ token < MaxToken /\ token' = token + 1
    /\ warm' \in {TRUE, warm}
    /\ UNCHANGED <<pool, clientVars, callerVars>>

-----------------------------------------------------------------------------
CallerStep(g) ==
    \/ GetExisting(g) \/ GetMissing(g) \/ HandleWarm(g)
    \/ TokenReply(g) \/ TokenFails(g)
    \/ InstallFindsClient(g) \/ (\E c \in Clients : InstallClient(g, c))
    \/ WaitSucceeds(g) \/ WaitTimesOut(g) \/ Yank(g) \/ Cancel(g) \/ RequestEnds(g)

ClientStep(c) == Authorize(c) \/ ConnectionDrops(c) \/ Redial(c)

Next == StoreToken \/ (\E g \in Callers : CallerStep(g))
                   \/ (\E c \in Clients : ClientStep(c))

Spec == Init /\ [][Next]_vars

\* Waits have deadlines, the client's loop reconnects, the warm-up message is
\* handled.  Nobody has to call Get, and the connection need not drop.
Fairness ==
    /\ \A g \in Callers :
         /\ WF_vars(TokenReply(g) \/ TokenFails(g))
         /\ WF_vars(InstallFindsClient(g) \/ \E c \in Clients : InstallClient(g, c))
         /\ WF_vars(WaitSucceeds(g) \/ WaitTimesOut(g))
         /\ WF_vars(Yank(g)) /\ WF_vars(Cancel(g)) /\ WF_vars(RequestEnds(g))
    /\ \A c \in Clients : WF_vars(Authorize(c)) /\ WF_vars(Redial(c))
    /\ WF_vars(\E g \in Callers : HandleWarm(g))

FairSpec == Spec /\ Fairness

-----------------------------------------------------------------------------
Running(c) == conn[c] \in {"dialing", "authed", "lost"}

\* However many callers race, the company has one running client, the one in the
\* map; any other is about to be cancelled by the caller that created it.
OneRunningClient ==
    \A c \in Clients : Running(c) =>
        c = pool \/ \E g \in Callers : pc[g] = "cancel" /\ mine[g] = c

\* A caller that gives up on its client removes that client and no later one:
\* nobody replaces the entry while its creator waits, and no two callers think
\* they created the same client.
CreatorsOwnTheEntry ==
    \A g \in Callers :
        /\ pc[g] \in {"await_own", "yank"} => pool = mine[g]
        /\ \A h \in Callers :
             (pc[g] \in {"await_own", "yank", "cancel"} /\ g # h
                /\ pc[h] \in {"await_own", "yank", "cancel"}) => mine[g] # mine[h]

\* Pool.Get unlocks while it asks for the token and again while it waits: racing
\* callers share one client all the same, and clean up after themselves only.
OneClientPerCompany == OneRunningClient /\ CreatorsOwnTheEntry

\* A client whose token the broker refuses does not stay in the map, so that a
\* later call can fetch a refreshed token.
RefusedTokensAreRetried ==
    \A c \in Clients :
        (pool = c /\ clientToken[c] \in BadTokens) ~> (pool # c)

\* credentials.py: "ping the gateway to rebuild its client for this company ... if
\* the gateway misses it, the next trade will lazy-create".  In the end the pool
\* holds no client made with a token that is no longer the company's.
PoolFollowsCredentials ==
    (pool # Nil /\ clientToken[pool] # token)
        ~> (pool = Nil \/ clientToken[pool] = token)
=============================================================================
