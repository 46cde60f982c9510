-------------------------------- MODULE WsHub --------------------------------
(***************************************************************************)
(* The gateway's hub of browser connections (services/gateway/internal/ws).*)
(*                                                                         *)
(* Two subscriptions broadcast, each one message at a time.  A broadcast   *)
(* holds the read lock while it offers the message to every browser's      *)
(* queue; joining and leaving take the write lock.  The handler of a       *)
(* browser drains its queue at the browser's pace.                         *)
(***************************************************************************)
EXTENDS Naturals, Sequences, SequencesExt

CONSTANTS Browsers,     \* connections that are ever made (bound)
          MaxMessages,  \* messages per subscription (bound)
          QueueCap      \* capacity of a browser's channel

ASSUME HubConstants == MaxMessages \in Nat /\ QueueCap \in Nat \ {0}

VARIABLES
    seq,          \* h.seq
    msg,          \* per subscription: the message it broadcasts
    todoConns,    \* per subscription: browsers not yet offered it
    casting,      \* per subscription: place in the callback
    casts,        \* per subscription: messages it has taken
    joined,       \* per browser: its handler
    queue,        \* per browser: c.out
    shown,        \* per browser: what was written to it
    gone,         \* browsers whose channel is closed
    hubDown       \* a send on a closed channel ended the process

castVars == <<seq, msg, todoConns, casting, casts>>
hubVars == <<castVars, joined, queue, shown, gone, hubDown>>

Sources == {"tick", "forecast"}
Message == [type : Sources, seq : 1 .. 2 * MaxMessages]
Hello == [type |-> "hello", seq |-> 0]

HubTypeOK ==
    /\ seq \in 0 .. 2 * MaxMessages
    /\ casting \in [Sources -> {"off", "idle", "numbered", "sending"}]
    /\ casts \in [Sources -> 0 .. MaxMessages]
    /\ \A p \in Sources : casting[p] \in {"numbered", "sending"} => msg[p] \in Message
    /\ todoConns \in [Sources -> SUBSET Browsers]
    /\ joined \in [Browsers -> {"no", "added", "serving", "left"}]
    /\ gone \subseteq {b \in Browsers : joined[b] = "left"}
    /\ \A b \in Browsers :
         /\ Range(queue[b]) \subseteq Message /\ Len(queue[b]) =< QueueCap
         /\ Range(shown[b]) \subseteq Message \cup {Hello}
    /\ hubDown \in BOOLEAN

HubInit ==
    /\ seq = 0 /\ msg = [p \in Sources |-> Hello]
    /\ todoConns = [p \in Sources |-> {}]
    /\ casting = [p \in Sources |-> "off"] /\ casts = [p \in Sources |-> 0]
    /\ joined = [b \in Browsers |-> "no"]
    /\ queue = [b \in Browsers |-> <<>>] /\ shown = [b \in Browsers |-> <<>>]
    /\ gone = {} /\ hubDown = FALSE

conns == {b \in Browsers : joined[b] \in {"added", "serving"}}
ReadLocked == \E p \in Sources : casting[p] = "sending"

-----------------------------------------------------------------------------
(* A subscription's callback.                                              *)

\* Start subscribes to the ticks, then to the signals.
Subscribe(p) ==
    /\ casting[p] = "off" /\ (p = "forecast" => casting["tick"] # "off")
    /\ casting' = [casting EXCEPT ![p] = "idle"]
    /\ UNCHANGED <<seq, msg, todoConns, casts, joined, queue, shown, gone, hubDown>>

\* The number is taken before the lock.
TakeNumber(p) ==
    /\ casting[p] = "idle" /\ casts[p] < MaxMessages
    /\ seq' = seq + 1 /\ msg' = [msg EXCEPT ![p] = [type |-> p, seq |-> seq + 1]]
    /\ casts' = [casts EXCEPT ![p] = @ + 1]
    /\ casting' = [casting EXCEPT ![p] = "numbered"]
    /\ UNCHANGED <<todoConns, joined, queue, shown, gone, hubDown>>

RLock(p) ==
    /\ casting[p] = "numbered" /\ casting' = [casting EXCEPT ![p] = "sending"]
    /\ todoConns' = [todoConns EXCEPT ![p] = conns]
    /\ UNCHANGED <<seq, msg, casts, joined, queue, shown, gone, hubDown>>

\* A full queue loses the message; the mutant waits for room.
MutantMayOffer(b) == Len(queue[b]) < QueueCap
MayOffer(b) == TRUE
Offered(b, m) == IF Len(queue[b]) < QueueCap THEN Append(queue[b], m) ELSE queue[b]

OfferTo(p, b) ==
    /\ casting[p] = "sending" /\ b \in todoConns[p] /\ MayOffer(b)
    /\ todoConns' = [todoConns EXCEPT ![p] = @ \ {b}]
    /\ IF b \in gone
       THEN hubDown' = TRUE /\ UNCHANGED queue
       ELSE queue' = [queue EXCEPT ![b] = Offered(b, msg[p])] /\ UNCHANGED hubDown
    /\ UNCHANGED <<seq, msg, casting, casts, joined, shown, gone>>

RUnlock(p) ==
    /\ casting[p] = "sending" /\ todoConns[p] = {}
    /\ casting' = [casting EXCEPT ![p] = "idle"] /\ msg' = [msg EXCEPT ![p] = Hello]
    /\ UNCHANGED <<seq, todoConns, casts, joined, queue, shown, gone, hubDown>>

-----------------------------------------------------------------------------
(* A browser's handler.                                                    *)

\* add, under the write lock.
Join(b) ==
    /\ joined[b] = "no" /\ ~ReadLocked /\ joined' = [joined EXCEPT ![b] = "added"]
    /\ UNCHANGED <<castVars, queue, shown, gone, hubDown>>

\* The greeting does not go through the queue.
SayHello(b) ==
    /\ joined[b] = "added" /\ joined' = [joined EXCEPT ![b] = "serving"]
    /\ shown' = [shown EXCEPT ![b] = Append(@, Hello)]
    /\ UNCHANGED <<castVars, queue, gone, hubDown>>

\* The queue is drained once the greeting is written.
MayWrite(b) == joined[b] = "serving"

WriteNext(b) ==
    /\ MayWrite(b) /\ queue[b] # <<>>
    /\ queue' = [queue EXCEPT ![b] = Tail(@)]
    /\ shown' = [shown EXCEPT ![b] = Append(@, Head(queue[b]))]
    /\ UNCHANGED <<castVars, joined, gone, hubDown>>

\* remove: delete from the map and close the channel under the write lock.  The
\* mutant does without the lock.
MutantMayRemove == TRUE
MayRemove == ~ReadLocked

\* A write failed or took 5 s, or the browser closed the connection.
Leave(b) ==
    /\ joined[b] \in {"added", "serving"} /\ MayRemove
    /\ joined' = [joined EXCEPT ![b] = "left"] /\ gone' = gone \cup {b}
    /\ queue' = [queue EXCEPT ![b] = <<>>]
    /\ UNCHANGED <<castVars, shown, hubDown>>

-----------------------------------------------------------------------------
CastStep(p) == TakeNumber(p) \/ RLock(p) \/ RUnlock(p) \/ \E b \in Browsers : OfferTo(p, b)
BrowserStep(b) == Join(b) \/ SayHello(b) \/ WriteNext(b) \/ Leave(b)

HubNext ==
    ~hubDown /\ ((\E p \in Sources : Subscribe(p) \/ CastStep(p)) \/ (\E b \in Browsers : BrowserStep(b)))

HubSpec == HubInit /\ [][HubNext]_hubVars

\* Once subscribed the callbacks run on; a browser may be as slow as it likes.
HubFairness == \A p \in Sources : WF_hubVars(~hubDown /\ CastStep(p))

-----------------------------------------------------------------------------
\* A browser leaves while messages are on their way to it: none of them is sent
\* on the channel its handler has closed.
NoSendAfterClose == ~hubDown

\* The greeting comes first, and of each subscription a browser sees the messages
\* in the order they came, whatever it misses.  Between the two subscriptions the
\* numbers may go backwards: they are taken before the lock.
EachFeedInOrder ==
    \A b \in Browsers : \A i, j \in DOMAIN shown[b] :
        i < j => /\ shown[b][j] # Hello
                 /\ shown[b][i].type = shown[b][j].type =>
                      shown[b][i].seq < shown[b][j].seq

\* Browsers come and go and read slowly while broadcasts are sent to them: the hub
\* neither panics on a closed channel nor turns a feed back.
CleanBroadcasts == NoSendAfterClose /\ EachFeedInOrder

\* No browser holds up the others: the broadcast of a tick ends even if one of
\* them never reads.
BroadcastsEnd == (casting["tick"] = "sending") ~> (casting["tick"] = "idle")
=============================================================================
