----------------------------- MODULE BrokerClient -----------------------------
(***************************************************************************)
(* One authorized connection to the broker and the requests that share it  *)
(* (services/gateway/internal/trader/client.go).                           *)
(*                                                                         *)
(* A request asks Ready, registers a channel or a handler under a fresh    *)
(* id, writes, and waits; the reader goroutine of each connection matches  *)
(* the answers by that id.  The lock covers single map operations: between *)
(* them the connection may fall, be failed over and be dialled again, and  *)
(* Ready keeps saying yes from the fall to the next dial.                  *)
(***************************************************************************)
EXTENDS Naturals, FiniteSets

CONSTANTS Buys, Sells, Tracks,  \* the requests made, by kind (bound)
          MaxConns,             \* connections dialled (bound)
          Auth,                 \* the requester of an authorize
          Nobody

Calls == Buys \cup Sells \cup Tracks
Parties == Calls \cup {Auth}
MaxReqID == MaxConns + Cardinality(Calls)
ReqIDs == 1 .. MaxReqID

ASSUME BrokerConstants ==
    /\ MaxConns \in Nat \ {0} /\ IsFiniteSet(Calls)
    /\ {Auth, Nobody} \cap Calls = {} /\ Auth # Nobody

VARIABLES
    link,         \* the serving loop: connectAndServe and Run
    served,       \* connections dialled; the last is c.conn
    authed,
    reqIDSeq,
    pending,      \* id -> who waits on the channel registered under it
    subs,         \* id -> whose handler is registered under it
    wire,         \* answers that may still come on the current connection
    handed,       \* per connection: what its reader is about to put on a channel
    closedFor,    \* requests whose channel was closed
    stage,        \* per request: place in Buy, Sell or TrackContract
    reqID,        \* per request: its id, from registering it to writing it
    sentOn,       \* per track: connection it was written to, 0 for none
    early,        \* history: tracks written before the authorization
    answer,       \* per request: the request the answer it read belongs to
    settled,      \* <<track, contract>> published as closed
    repeated,     \* history: a contract was published twice
    clientDown    \* a send on a closed channel ended the process

linkVars == <<link, served, authed>>
mapVars == <<reqIDSeq, pending, subs>>
callVars == <<stage, reqID, sentOn, early, answer>>
outVars == <<settled, repeated, clientDown>>
brokerVars == <<linkVars, mapVars, wire, handed, closedFor, callVars, outVars>>

Answers == [id : ReqIDs, to : Parties, sold : BOOLEAN]
Hand == [to : Parties, from : Parties]

BrokerTypeOK ==
    /\ link \in {"down", "authorizing", "serving", "broken"}
    /\ served \in 0 .. MaxConns /\ authed \in BOOLEAN
    /\ reqIDSeq \in 0 .. MaxReqID
    /\ pending \in [ReqIDs -> Parties \cup {Nobody}]
    /\ subs \in [ReqIDs -> Tracks \cup {Nobody}]
    /\ wire \subseteq Answers
    /\ \A k \in 1 .. MaxConns : handed[k] \in {Nobody} \cup Hand
    /\ closedFor \subseteq Calls /\ early \subseteq Tracks
    /\ stage \in [Calls -> {"idle", "ready", "registered", "waiting", "ended"}]
    /\ reqID \in [Calls -> 0 .. MaxReqID]
    /\ sentOn \in [Tracks -> 0 .. MaxConns]
    /\ answer \in [Calls -> Parties \cup {Nobody}]
    /\ settled \subseteq Tracks \X Parties
    /\ {repeated, clientDown} \subseteq BOOLEAN
    /\ (link = "serving") => authed
    /\ \A n \in ReqIDs : n > reqIDSeq => pending[n] = Nobody /\ subs[n] = Nobody

BrokerInit ==
    /\ link = "down" /\ served = 0 /\ authed = FALSE
    /\ reqIDSeq = 0
    /\ pending = [n \in ReqIDs |-> Nobody] /\ subs = [n \in ReqIDs |-> Nobody]
    /\ wire = {} /\ handed = [k \in 1 .. MaxConns |-> Nobody] /\ closedFor = {}
    /\ stage = [r \in Calls |-> "idle"] /\ reqID = [r \in Calls |-> 0]
    /\ sentOn = [t \in Tracks |-> 0] /\ early = {}
    /\ answer = [r \in Calls |-> Nobody]
    /\ settled = {} /\ repeated = FALSE /\ clientDown = FALSE

At(r, place) == stage' = [stage EXCEPT ![r] = place]
Cleared(m, n) == [m EXCEPT ![n] = Nobody]

\* The counter outlives the connection; the mutant restarts it with each.
MutantFirstID == 1
FirstID == reqIDSeq + 1

-----------------------------------------------------------------------------
(* The loop.                                                               *)

\* Dial, clear authed, register and send the authorize.
DialBroker ==
    /\ link = "down" /\ served < MaxConns
    /\ served' = served + 1 /\ authed' = FALSE /\ link' = "authorizing"
    /\ reqIDSeq' = FirstID /\ pending' = [pending EXCEPT ![FirstID] = Auth]
    /\ wire' = {[id |-> FirstID, to |-> Auth, sold |-> FALSE]}
    /\ UNCHANGED <<subs, handed, closedFor, callVars, outVars>>

\* An error, or 15 s without an answer: close the connection and leave, without
\* failPending.
AuthorizeFails ==
    /\ link = "authorizing" /\ link' = "down" /\ wire' = {}
    /\ UNCHANGED <<served, authed, mapVars, handed, closedFor, callVars, outVars>>

\* The reader's Read fails, after whatever it was handing over.
ReadFails ==
    /\ link = "serving" /\ handed[served] = Nobody
    /\ link' = "broken" /\ wire' = {}
    /\ UNCHANGED <<served, authed, mapVars, handed, closedFor, callVars, outVars>>

\* Those who wait read the closed channel.  The mutant forgets the handlers.
MutantSubsAfterFall == subs
SubsAfterFall == [n \in ReqIDs |-> Nobody]

FailPending ==
    LET waiters == {r \in Calls : \E n \in ReqIDs : pending[n] = r}
    IN /\ link = "broken" /\ link' = "down"
       /\ closedFor' = closedFor \cup waiters
       /\ pending' = [n \in ReqIDs |-> Nobody] /\ subs' = SubsAfterFall
       /\ stage' = [r \in Calls |->
                      IF r \in waiters /\ stage[r] = "waiting" THEN "ended" ELSE stage[r]]
       /\ UNCHANGED <<served, authed, reqIDSeq, wire, handed, reqID, sentOn, early,
                      answer, outVars>>

-----------------------------------------------------------------------------
(* The reader.                                                             *)

\* The entry is deleted under the lock, before the answer is put on the channel.
PendingAfterMatch(n) == Cleared(pending, n)

Dispatch(m) ==
    /\ m \in wire
    /\ handed[served] = Nobody /\ pending[m.id] # Nobody
    /\ pending' = PendingAfterMatch(m.id) /\ wire' = wire \ {m}
    /\ handed' = [handed EXCEPT ![served] = [to |-> pending[m.id], from |-> m.to]]
    /\ UNCHANGED <<linkVars, reqIDSeq, subs, closedFor, callVars, outVars>>

\* A handler that sees is_sold publishes and unregisters itself; the broker may
\* repeat the last update of a contract.
SubsAfterSold(n) == Cleared(subs, n)

DispatchToHandler(m) ==
    LET t == subs[m.id]
    IN /\ m \in wire
       /\ handed[served] = Nobody /\ pending[m.id] = Nobody /\ t # Nobody
       /\ IF m.sold
          THEN /\ settled' = settled \cup {<<t, m.to>>}
               /\ repeated' = (repeated \/ <<t, m.to>> \in settled)
               /\ subs' = SubsAfterSold(m.id)
               /\ wire' \in {wire, wire \ {m}}
          ELSE UNCHANGED <<settled, repeated, subs>> /\ wire' = wire \ {m}
       /\ UNCHANGED <<linkVars, reqIDSeq, pending, handed, closedFor, callVars, clientDown>>

DispatchToNobody(m) ==
    /\ m \in wire
    /\ handed[served] = Nobody /\ pending[m.id] = Nobody /\ subs[m.id] = Nobody
    /\ wire' = wire \ {m}
    /\ UNCHANGED <<linkVars, mapVars, handed, closedFor, callVars, outVars>>

\* ch <- raw, outside the lock, even if the connection has been left meanwhile.
\* The authorize of the current connection decides what becomes of it.
HandOver(k) ==
    LET h == handed[k]
    IN /\ h # Nobody /\ handed' = [handed EXCEPT ![k] = Nobody]
       /\ clientDown' = (clientDown \/ h.to \in closedFor)
       /\ IF h.to = Auth
          THEN /\ IF k = served /\ link = "authorizing"
                  THEN \/ link' = "serving" /\ authed' = TRUE /\ UNCHANGED wire
                       \/ link' = "down" /\ wire' = {} /\ UNCHANGED authed
                  ELSE UNCHANGED <<link, authed, wire>>
               /\ UNCHANGED <<stage, answer>>
          ELSE /\ IF stage[h.to] = "waiting"
                  THEN At(h.to, "ended") /\ answer' = [answer EXCEPT ![h.to] = h.from]
                  ELSE UNCHANGED <<stage, answer>>
               /\ UNCHANGED <<link, authed, wire>>
       /\ UNCHANGED <<served, mapVars, closedFor, reqID, sentOn, early, settled, repeated>>

-----------------------------------------------------------------------------
(* Buy, Sell (as Statement and GetBalance do), TrackContract.              *)

AskReady(r) ==
    /\ stage[r] = "idle" /\ authed /\ served > 0 /\ At(r, "ready")
    /\ UNCHANGED <<linkVars, mapVars, wire, handed, closedFor, reqID, sentOn, early, answer, outVars>>

Register(r) ==
    LET n == reqIDSeq + 1
    IN /\ stage[r] = "ready" /\ At(r, "registered")
       /\ reqIDSeq' = n /\ reqID' = [reqID EXCEPT ![r] = n]
       /\ IF r \in Tracks
          THEN subs' = [subs EXCEPT ![n] = r] /\ UNCHANGED pending
          ELSE pending' = [pending EXCEPT ![n] = r] /\ UNCHANGED subs
       /\ UNCHANGED <<linkVars, wire, handed, closedFor, sentOn, early, answer, outVars>>

\* The write succeeds on an open connection, and may on one that has just
\* fallen.  Before the authorization the broker answers with an error, which
\* a handler ignores; afterwards what it tells a handler in the end is the sale.
SendRequest(r) ==
    /\ stage[r] = "registered" /\ link # "down"
    /\ At(r, IF r \in Tracks THEN "ended" ELSE "waiting")
    /\ sentOn' = [t \in Tracks |-> IF t = r THEN served ELSE sentOn[t]]
    /\ reqID' = [reqID EXCEPT ![r] = 0]
    /\ early' = early \cup {t \in Tracks : t = r /\ link = "authorizing"}
    /\ wire' = IF link = "broken" THEN wire
               ELSE wire \cup {[id |-> reqID[r], to |-> r,
                                sold |-> r \in Tracks /\ link = "serving"]}
    /\ UNCHANGED <<linkVars, mapVars, handed, closedFor, answer, outVars>>

\* The write fails: a buy leaves its entry behind, the others remove theirs.
SendFails(r) ==
    /\ stage[r] = "registered" /\ At(r, "ended")
    /\ pending' = IF r \in Sells THEN Cleared(pending, reqID[r]) ELSE pending
    /\ subs' = IF r \in Tracks THEN Cleared(subs, reqID[r]) ELSE subs
    /\ reqID' = [reqID EXCEPT ![r] = 0]
    /\ UNCHANGED <<linkVars, reqIDSeq, wire, handed, closedFor, sentOn, early, answer, outVars>>

\* The channel was closed before the wait began, or 20 s pass.
StopsWaiting(r) ==
    /\ stage[r] = "waiting" /\ At(r, "ended")
    /\ UNCHANGED <<linkVars, mapVars, wire, handed, closedFor, reqID, sentOn, early,
                   answer, outVars>>

-----------------------------------------------------------------------------
CallStep(r) ==
    AskReady(r) \/ Register(r) \/ SendRequest(r) \/ SendFails(r) \/ StopsWaiting(r)

BrokerNext ==
    /\ ~clientDown
    /\ \/ DialBroker \/ AuthorizeFails \/ ReadFails \/ FailPending
       \/ \E m \in wire : Dispatch(m) \/ DispatchToHandler(m) \/ DispatchToNobody(m)
       \/ \E k \in 1 .. MaxConns : HandOver(k)
       \/ \E r \in Calls : CallStep(r)

BrokerSpec == BrokerInit /\ [][BrokerNext]_brokerVars

-----------------------------------------------------------------------------
\* Across reconnections, timeouts and late answers, what a request reads is the
\* answer to itself, and what is published for a contract is its own end.
AnswersReachTheirCall ==
    /\ \A r \in Calls : answer[r] \in {r, Nobody}
    /\ \A p \in settled : p[1] = p[2]

\* The closing of a contract is published once by the request that tracks it.
SettledOnce == ~repeated

\* No reader sends on a channel failPending has closed.
NoSendOnClosed == ~clientDown

\* Ids, maps and channels outlive the connections they were used on: no answer is
\* misread, none is published twice, and none brings the client down.
AnswersAreSafe == AnswersReachTheirCall /\ SettledOnce /\ NoSendOnClosed

\* While the client serves, a contract it believes to track is one the broker
\* reports on: only a tracking request that asked Ready before the dial and was
\* written before the authorization leaves a handler that hears nothing.
DeafOnlyIfEarly ==
    \A t \in Tracks :
        (link = "serving" /\ stage[t] = "ended" /\ \E n \in ReqIDs : subs[n] = t)
            => sentOn[t] = served \/ t \in early
=============================================================================
