----------------------------- MODULE GatewayProofs -----------------------------
(***************************************************************************)
(* Machine-checked proofs about the gateway: TraderPool, for any set of    *)
(* concurrent callers, any number of clients and tokens, and any tokens    *)
(* refused; WsHub, for any browsers, any number of messages and any        *)
(* capacity of their queues; Reconnect, for any number of connections;     *)
(* TickWriter, for any number of ticks, size of a batch and of a write.    *)
(***************************************************************************)
EXTENDS TraderPool, Reconnect, TickWriter, WsHub, SequenceTheorems, FiniteSetTheorems,
        WellFoundedInduction, TLAPS

(***************************************************************************)
(* TraderPool.                                                             *)
(***************************************************************************)
(***************************************************************************)
(* Type correctness, action by action.                                     *)
(***************************************************************************)
LEMMA TypeInit == Init => TypeOK
<1> SUFFICES ASSUME Init
             PROVE  TypeOK
  OBVIOUS
<1>1. warm \in BOOLEAN
  BY Zenon DEF Init
<1>2. QED
  BY <1>1, PoolConstants DEF Init, TypeOK, ConnState, Place

LEMMA TypeCallerStep ==
  ASSUME TypeOK, NEW g \in Callers, CallerStep(g)
  PROVE  TypeOK'
<1> USE PoolConstants DEF TypeOK, ConnState, Place, clientVars, Goto, Return
<1>1. CASE GetExisting(g)
  BY <1>1 DEF GetExisting
<1>2. CASE GetMissing(g)
  BY <1>2 DEF GetMissing
<1>3. CASE HandleWarm(g)
  <2>1. CASE pool = Nil
    BY <1>3, <2>1 DEF HandleWarm
  <2>2. CASE pool # Nil
    BY <1>3, <2>2, ZenonT(40) DEF HandleWarm
  <2>3. QED
    BY <2>1, <2>2
<1>4. CASE TokenReply(g)
  BY <1>4 DEF TokenReply
<1>5. CASE TokenFails(g)
  BY <1>5 DEF TokenFails
<1>6. CASE InstallFindsClient(g)
  BY <1>6 DEF InstallFindsClient, MustCreate
<1>7. ASSUME NEW c \in Clients, InstallClient(g, c)
      PROVE  TypeOK'
  BY <1>7 DEF InstallClient
<1>8. CASE WaitSucceeds(g)
  BY <1>8 DEF WaitSucceeds
<1>9. CASE WaitTimesOut(g)
  BY <1>9 DEF WaitTimesOut, AfterTimeout
<1>10. CASE Yank(g)
  BY <1>10 DEF Yank
<1>11. CASE Cancel(g)
  <2>1. AfterCancel(mine[g]) \subseteq ConnState
    BY DEF AfterCancel
  <2>2. QED
    BY <1>11, <2>1 DEF Cancel
<1>12. CASE RequestEnds(g)
  BY <1>12 DEF RequestEnds
<1>13. QED
  BY <1>1, <1>2, <1>3, <1>4, <1>5, <1>6, <1>7, <1>8, <1>9, <1>10, <1>11, <1>12
  DEF CallerStep

LEMMA TypeStep == TypeOK /\ [Next]_vars => TypeOK'
<1> SUFFICES ASSUME TypeOK, [Next]_vars
             PROVE  TypeOK'
  OBVIOUS
<1>1. CASE StoreToken
  <2>1. warm' \in BOOLEAN
    BY <1>1, Zenon DEF StoreToken, TypeOK
  <2>2. QED
    BY <1>1, <2>1, PoolConstants
    DEF StoreToken, TypeOK, clientVars, callerVars
<1>2. ASSUME NEW c \in Clients, ClientStep(c)
      PROVE  TypeOK'
  BY <1>2
  DEF ClientStep, Authorize, ConnectionDrops, Redial, TypeOK, ConnState, callerVars
<1>3. CASE UNCHANGED vars
  BY <1>3 DEF vars, clientVars, callerVars, TypeOK
<1>4. QED
  BY <1>1, <1>2, <1>3, TypeCallerStep DEF Next

\* Every reachable state is well typed.
THEOREM PoolTypeCorrect == Spec => []TypeOK
  BY TypeInit, TypeStep, PTL DEF Spec

(***************************************************************************)
(* The inductive invariant.  Neither property is inductive: that a caller  *)
(* never removes a later client needs that a new client is nobody's yet,   *)
(* and that the client in the map runs needs that it is not being          *)
(* cancelled.                                                              *)
(***************************************************************************)
Creating == {"await_own", "yank", "cancel"}

\* The entry of the map is a client whose Run loop was started and not stopped.
EntryRuns == pool # Nil => Running(pool)

\* A client a caller has was created.
HeldWereCreated == \A g \in Callers : mine[g] # Nil => conn[mine[g]] # "unused"

\* A client about to be cancelled is out of the map already.
CancelledIsOut == \A g \in Callers : pc[g] = "cancel" => pool # mine[g]

PoolInv ==
    /\ TypeOK /\ OneRunningClient /\ CreatorsOwnTheEntry
    /\ EntryRuns /\ HeldWereCreated /\ CancelledIsOut

LEMMA PoolInit == Init => PoolInv
  BY TypeInit
  DEF Init, PoolInv, OneRunningClient, CreatorsOwnTheEntry, EntryRuns, HeldWereCreated,
      CancelledIsOut, Running

\* Between "lookup" and the request's end a caller that did not create its client
\* only reads the map: the invariant sees its client and nothing else.
LEMMA BorrowerStep ==
  ASSUME PoolInv, TypeOK', NEW g \in Callers,
         UNCHANGED <<pool, conn>>,
         pc[g] # "cancel", pc'[g] \notin Creating,
         mine'[g] \in {Nil, pool, mine[g]},
         \A h \in Callers \ {g} : pc'[h] = pc[h] /\ mine'[h] = mine[h]
  PROVE  PoolInv'
<1> USE DEF PoolInv, Creating, Running
<1>1. OneRunningClient'
  BY DEF OneRunningClient
<1>2. CreatorsOwnTheEntry'
  BY DEF CreatorsOwnTheEntry
<1>3. EntryRuns' /\ HeldWereCreated' /\ CancelledIsOut'
  BY DEF EntryRuns, HeldWereCreated, CancelledIsOut
<1>4. QED
  BY <1>1, <1>2, <1>3

LEMMA PoolCallerStep ==
  ASSUME PoolInv, NEW g \in Callers, CallerStep(g)
  PROVE  PoolInv'
<1>0. TypeOK /\ TypeOK'
  BY TypeCallerStep DEF PoolInv
<1>1. CASE \/ GetExisting(g) \/ GetMissing(g) \/ HandleWarm(g) \/ TokenReply(g)
           \/ TokenFails(g) \/ InstallFindsClient(g) \/ WaitSucceeds(g)
           \/ RequestEnds(g)
  <2>1. UNCHANGED <<pool, conn>> /\ pc[g] # "cancel" /\ pc'[g] \notin Creating
    BY <1>0, <1>1
    DEF GetExisting, GetMissing, HandleWarm, TokenReply, TokenFails, InstallFindsClient,
        WaitSucceeds, RequestEnds, Goto, Return, clientVars, Creating, TypeOK
  <2>2. mine'[g] \in {Nil, pool, mine[g]}
    BY <1>0, <1>1
    DEF GetExisting, GetMissing, HandleWarm, TokenReply, TokenFails, InstallFindsClient,
        WaitSucceeds, RequestEnds, Return, TypeOK
  <2>3. \A h \in Callers \ {g} : pc'[h] = pc[h] /\ mine'[h] = mine[h]
    BY <1>0, <1>1
    DEF GetExisting, GetMissing, HandleWarm, TokenReply, TokenFails, InstallFindsClient,
        WaitSucceeds, RequestEnds, Goto, Return, TypeOK
  <2>4. QED
    BY <1>0, <2>1, <2>2, <2>3, BorrowerStep
<1>2. ASSUME NEW c \in Clients, InstallClient(g, c)
      PROVE  PoolInv'
  <2>1. /\ pool = Nil /\ pool' = c /\ conn[c] = "unused" /\ c # Nil
        /\ conn' = [conn EXCEPT ![c] = "dialing"]
        /\ mine' = [mine EXCEPT ![g] = c] /\ pc' = [pc EXCEPT ![g] = "await_own"]
        /\ pc[g] = "install"
    BY <1>2, PoolConstants DEF InstallClient, MustCreate, Goto
  <2>2. \A h \in Callers : mine[h] # c
    BY <2>1 DEF PoolInv, HeldWereCreated
  <2>3. OneRunningClient'
    <3>1. SUFFICES ASSUME NEW d \in Clients, Running(d)', d # c
                   PROVE  \E h \in Callers : pc'[h] = "cancel" /\ mine'[h] = d
      BY <2>1 DEF OneRunningClient
    <3>2. Running(d) /\ d # pool
      BY <1>0, <2>1, <3>1, PoolConstants DEF Running, TypeOK
    <3>3. PICK h \in Callers : pc[h] = "cancel" /\ mine[h] = d
      BY <3>2 DEF PoolInv, OneRunningClient
    <3>4. QED
      BY <1>0, <2>1, <3>3 DEF TypeOK
  <2>4. CreatorsOwnTheEntry'
    <3>1. \A h \in Callers : pc[h] \notin {"await_own", "yank"}
      BY <1>0, <2>1 DEF PoolInv, CreatorsOwnTheEntry, TypeOK
    <3>2. QED
      BY <1>0, <2>1, <2>2, <3>1 DEF PoolInv, CreatorsOwnTheEntry, TypeOK
  <2>5. EntryRuns' /\ HeldWereCreated' /\ CancelledIsOut'
    BY <1>0, <2>1, <2>2
    DEF PoolInv, EntryRuns, HeldWereCreated, CancelledIsOut, Running, TypeOK
  <2>6. QED
    BY <1>0, <2>3, <2>4, <2>5 DEF PoolInv
<1>3. CASE WaitTimesOut(g)
  <2>1. CASE pc[g] = "await_own"
    <3>1. /\ UNCHANGED <<pool, conn, mine>>
          /\ pc' = [pc EXCEPT ![g] = "yank"]
      BY <1>3, <2>1 DEF WaitTimesOut, AfterTimeout, Goto, clientVars
    <3>2. QED
      BY <1>0, <2>1, <3>1
      DEF PoolInv, OneRunningClient, CreatorsOwnTheEntry, EntryRuns, HeldWereCreated,
          CancelledIsOut, Running, TypeOK
  <2>2. CASE pc[g] = "await_shared"
    <3>1. /\ UNCHANGED <<pool, conn>>
          /\ mine' = [mine EXCEPT ![g] = Nil] /\ pc' = [pc EXCEPT ![g] = "idle"]
      BY <1>3, <2>2 DEF WaitTimesOut, AfterTimeout, Goto, Return, clientVars
    <3>2. QED
      BY <1>0, <2>2, <3>1, BorrowerStep DEF Creating, TypeOK
  <2>3. QED
    BY <1>3, <2>1, <2>2 DEF WaitTimesOut
<1>4. CASE Yank(g)
  <2>1. /\ pc[g] = "yank" /\ pool = mine[g] /\ pool' = Nil
        /\ UNCHANGED <<conn, mine>> /\ pc' = [pc EXCEPT ![g] = "cancel"]
    BY <1>4 DEF Yank, Goto, clientVars, PoolInv, CreatorsOwnTheEntry
  <2>2. OneRunningClient'
    BY <1>0, <2>1 DEF PoolInv, OneRunningClient, Running, TypeOK
  <2>3. CreatorsOwnTheEntry'
    BY <1>0, <2>1 DEF PoolInv, CreatorsOwnTheEntry, TypeOK
  <2>4. EntryRuns' /\ HeldWereCreated'
    BY <1>0, <2>1 DEF PoolInv, EntryRuns, HeldWereCreated
  <2>5. CancelledIsOut'
    BY <1>0, <2>1, PoolConstants DEF CancelledIsOut, TypeOK
  <2>6. QED
    BY <1>0, <2>2, <2>3, <2>4, <2>5 DEF PoolInv
<1>5. CASE Cancel(g)
  <2>1. PICK s \in AfterCancel(mine[g]) : conn' = [conn EXCEPT ![mine[g]] = s]
    BY <1>5 DEF Cancel
  <2>2. s \in {"cancelled", "stopped"}
    BY <2>1 DEF AfterCancel
  <2>3. /\ pc[g] = "cancel" /\ UNCHANGED pool /\ pool # mine[g]
        /\ mine' = [mine EXCEPT ![g] = Nil] /\ pc' = [pc EXCEPT ![g] = "idle"]
    BY <1>5 DEF Cancel, Return, Goto, PoolInv, CancelledIsOut
  <2>4. OneRunningClient'
    BY <1>0, <2>1, <2>2, <2>3 DEF PoolInv, OneRunningClient, Running, TypeOK
  <2>5. CreatorsOwnTheEntry'
    BY <1>0, <2>3 DEF PoolInv, CreatorsOwnTheEntry, TypeOK
  <2>6. EntryRuns' /\ HeldWereCreated' /\ CancelledIsOut'
    BY <1>0, <2>1, <2>2, <2>3
    DEF PoolInv, EntryRuns, HeldWereCreated, CancelledIsOut, Running, TypeOK
  <2>7. QED
    BY <1>0, <2>4, <2>5, <2>6 DEF PoolInv
<1>6. QED
  BY <1>1, <1>2, <1>3, <1>4, <1>5 DEF CallerStep

LEMMA PoolStep == PoolInv /\ [Next]_vars => PoolInv'
<1> SUFFICES ASSUME PoolInv, [Next]_vars
             PROVE  PoolInv'
  OBVIOUS
<1>0. TypeOK /\ TypeOK'
  BY TypeStep DEF PoolInv
<1> USE DEF PoolInv, OneRunningClient, CreatorsOwnTheEntry, EntryRuns, HeldWereCreated,
            CancelledIsOut, Running
<1>1. CASE StoreToken
  BY <1>0, <1>1 DEF StoreToken, clientVars, callerVars
<1>2. ASSUME NEW c \in Clients, ClientStep(c)
      PROVE  PoolInv'
  BY <1>0, <1>2
  DEF ClientStep, Authorize, ConnectionDrops, Redial, callerVars, TypeOK
<1>3. CASE UNCHANGED vars
  BY <1>0, <1>3 DEF vars, clientVars, callerVars
<1>4. QED
  BY <1>1, <1>2, <1>3, PoolCallerStep DEF Next

\* The pool never has two running clients of a company, except one that its
\* creator is about to cancel.
THEOREM OnlyOneRuns == Spec => []OneRunningClient
<1>1. PoolInv => OneRunningClient
  BY DEF PoolInv
<1>2. QED
  BY PoolInit, PoolStep, <1>1, PTL DEF Spec

\* A caller whose client was not authorized in time removes that client from the
\* map and never one that another caller installed.
THEOREM GivingUpRemovesOwn == Spec => []CreatorsOwnTheEntry
<1>1. PoolInv => CreatorsOwnTheEntry
  BY DEF PoolInv
<1>2. QED
  BY PoolInit, PoolStep, <1>1, PTL DEF Spec

\* Both together: the company has one client, and it is the one the map names.
THEOREM TheCompanyHasOneClient == Spec => []OneClientPerCompany
  BY OnlyOneRuns, GivingUpRemovesOwn, PTL DEF OneClientPerCompany

(***************************************************************************)
(* WsHub.                                                                  *)
(***************************************************************************)
Casting == {"numbered", "sending"}
Item == Message \cup {Hello}

(***************************************************************************)
(* The inductive invariant.  Its types are finer than those of HubTypeOK:  *)
(* the numbers given out are those of the messages taken.                  *)
(***************************************************************************)
HubShape ==
    /\ seq \in Nat /\ seq = casts["tick"] + casts["forecast"]
    /\ casting \in [Sources -> {"off", "idle", "numbered", "sending"}]
    /\ casts \in [Sources -> 0 .. MaxMessages]
    /\ msg \in [Sources -> Item]
    /\ todoConns \in [Sources -> SUBSET Browsers]
    /\ joined \in [Browsers -> {"no", "added", "serving", "left"}]
    /\ gone \subseteq {b \in Browsers : joined[b] = "left"}
    /\ queue \in [Browsers -> Seq(Message)]
    /\ shown \in [Browsers -> Seq(Item)]
    /\ hubDown \in BOOLEAN

QueuesBounded == \A b \in Browsers : Len(queue[b]) =< QueueCap

\* What a subscription broadcasts is its own, with a number given out.
OwnMessage ==
    \A p \in Sources : casting[p] \in Casting =>
        msg[p] \in Message /\ msg[p].type = p /\ msg[p].seq =< seq

\* A browser still to be offered a message has not left.
TodoAreHere ==
    \A p \in Sources : /\ todoConns[p] # {} => casting[p] = "sending"
                       /\ todoConns[p] \cap gone = {}

Before(m, n) == m.type = n.type => m.seq < n.seq

\* A browser is greeted before it is shown anything else.
GreetedFirst ==
    \A b \in Browsers :
        /\ joined[b] \in {"no", "added"} => shown[b] = <<>>
        /\ joined[b] = "serving" => shown[b] # <<>>
        /\ \A j \in 2 .. Len(shown[b]) : shown[b][j] \in Message

\* What was shown and what waits in the queue are in order ...
InOrder ==
    \A b \in Browsers :
        /\ \A i, j \in 1 .. Len(shown[b]) : i < j => Before(shown[b][i], shown[b][j])
        /\ \A i, j \in 1 .. Len(queue[b]) : i < j => Before(queue[b][i], queue[b][j])
        /\ \A i \in 1 .. Len(shown[b]), j \in 1 .. Len(queue[b]) :
              Before(shown[b][i], queue[b][j])

\* ... and come before what a subscription is about to offer.
Older(b, m) ==
    /\ m.seq =< seq
    /\ \A p \in Sources :
          (m.type = p /\ (casting[p] = "numbered" \/ b \in todoConns[p]))
              => m.seq < msg[p].seq

OfferedIsNewer ==
    \A b \in Browsers :
        /\ \A i \in 1 .. Len(shown[b]) : Older(b, shown[b][i])
        /\ \A i \in 1 .. Len(queue[b]) : Older(b, queue[b][i])

HubInv ==
    /\ HubShape /\ QueuesBounded /\ OwnMessage /\ TodoAreHere /\ ~hubDown
    /\ GreetedFirst /\ InOrder /\ OfferedIsNewer

(***************************************************************************)
(* Types.                                                                  *)
(***************************************************************************)
LEMMA Items ==
    /\ \A m \in Message : m.type \in Sources /\ m.seq \in Nat /\ m # Hello /\ m \in Item
    /\ Hello.type = "hello" /\ Hello.seq = 0 /\ Hello \in Item
    /\ "hello" \notin Sources
    /\ \A m \in Item : m.seq \in Nat
  BY HubConstants DEF Message, Item, Hello, Sources

LEMMA HubInitInv == HubInit => HubInv
<1> SUFFICES ASSUME HubInit
             PROVE  HubInv
  OBVIOUS
<1>1. ~hubDown /\ hubDown \in BOOLEAN
  BY Zenon DEF HubInit
<1>2. seq = 0 /\ casts["tick"] = 0 /\ casts["forecast"] = 0 /\ 0 \in 0 .. MaxMessages
  BY HubConstants DEF HubInit, Sources
<1>3. msg \in [Sources -> Item] /\ todoConns \in [Sources -> SUBSET Browsers]
  BY DEF HubInit, Item
<1>4. queue \in [Browsers -> Seq(Message)] /\ shown \in [Browsers -> Seq(Item)]
  BY DEF HubInit
<1>5. HubShape
  <2>1. /\ casting \in [Sources -> {"off", "idle", "numbered", "sending"}]
        /\ casts \in [Sources -> 0 .. MaxMessages]
        /\ joined \in [Browsers -> {"no", "added", "serving", "left"}]
        /\ gone \subseteq {b \in Browsers : joined[b] = "left"}
    BY <1>2 DEF HubInit
  <2>2. QED
    BY <1>1, <1>2, <1>3, <1>4, <2>1 DEF HubShape
<1>6. QED
  BY <1>1, <1>5, HubConstants
  DEF HubInit, HubInv, QueuesBounded, OwnMessage, TodoAreHere, GreetedFirst, InOrder,
      OfferedIsNewer, Casting

(***************************************************************************)
(* The steps of a subscription.                                            *)
(***************************************************************************)
LEMMA SubscribeStep ==
  ASSUME HubInv, NEW p \in Sources, Subscribe(p)
  PROVE  HubInv'
<1> USE DEF HubInv
<1>1. HubShape'
  BY DEF Subscribe, HubShape
<1>2. \A s \in Sources : casting'[s] \in Casting <=> casting[s] \in Casting
  BY DEF Subscribe, HubShape, Casting
<1>3. \A s \in Sources : casting'[s] # casting[s] => casting'[s] = "idle" /\ casting[s] = "off"
  BY DEF Subscribe, HubShape
<1>4. OwnMessage' /\ TodoAreHere' /\ QueuesBounded' /\ GreetedFirst' /\ InOrder' /\ ~hubDown'
  BY <1>2, <1>3
  DEF Subscribe, OwnMessage, TodoAreHere, QueuesBounded, GreetedFirst, InOrder, Before
<1>5. OfferedIsNewer'
  BY <1>3 DEF Subscribe, OfferedIsNewer, Older
<1>6. QED
  BY <1>1, <1>4, <1>5

LEMMA TakeNumberStep ==
  ASSUME HubInv, NEW p \in Sources, TakeNumber(p)
  PROVE  HubInv'
<1> USE DEF HubInv
<1> DEFINE m == [type |-> p, seq |-> seq + 1]
<1>1. seq + 1 \in 1 .. 2 * MaxMessages /\ seq' = casts'["tick"] + casts'["forecast"]
      /\ seq' \in Nat
  BY HubConstants DEF TakeNumber, HubShape, Sources
<1>2. m \in Message
  BY <1>1 DEF Message
<1>3. HubShape'
  BY <1>1, <1>2, Items, HubConstants DEF TakeNumber, HubShape
<1>4. todoConns[p] = {}
  BY DEF TakeNumber, TodoAreHere
<1>5. \A s \in Sources : s # p => casting'[s] = casting[s] /\ msg'[s] = msg[s]
  BY DEF TakeNumber, HubShape
<1>6. casting'[p] = "numbered" /\ msg'[p] = m /\ seq' = seq + 1 /\ todoConns' = todoConns
  BY DEF TakeNumber, HubShape
<1>7. OwnMessage'
  <2>1. m.type = p /\ m.seq = seq + 1
    OBVIOUS
  <2>2. ASSUME NEW s \in Sources, casting'[s] \in Casting
        PROVE  msg'[s] \in Message /\ msg'[s].type = s /\ msg'[s].seq =< seq'
    <3>1. CASE s = p
      BY <1>1, <1>2, <1>6, <2>1, <3>1
    <3>2. CASE s # p
      <4>1. msg[s] \in Message /\ msg[s].type = s /\ msg[s].seq =< seq /\ msg[s].seq \in Nat
        BY <1>5, <2>2, <3>2, Items DEF OwnMessage
      <4>2. seq \in Nat
        BY DEF HubShape
      <4>3. QED
        BY <1>5, <1>6, <3>2, <4>1, <4>2
    <3>3. QED
      BY <3>1, <3>2
  <2>3. QED
    BY <2>2 DEF OwnMessage
<1>8. TodoAreHere' /\ QueuesBounded' /\ GreetedFirst' /\ InOrder' /\ ~hubDown'
  <2>1. UNCHANGED <<todoConns, joined, queue, shown, gone, hubDown>>
    BY DEF TakeNumber
  <2>2. TodoAreHere' /\ QueuesBounded' /\ ~hubDown'
    BY <1>4, <1>5, <1>6, <2>1 DEF TodoAreHere, QueuesBounded
  <2>3. GreetedFirst'
    BY <2>1 DEF GreetedFirst
  <2>4. InOrder'
    BY <2>1 DEF InOrder, Before
  <2>5. QED
    BY <2>2, <2>3, <2>4
<1>9. ASSUME NEW b \in Browsers, NEW n \in Item, Older(b, n)
      PROVE  Older(b, n)'
  <2>1. n.seq \in Nat /\ seq \in Nat
    BY Items DEF HubShape
  <2>2. n.seq =< seq'
    BY <1>6, <1>9, <2>1 DEF Older
  <2>3. ASSUME NEW s \in Sources, n.type = s,
               casting'[s] = "numbered" \/ b \in todoConns'[s]
        PROVE  n.seq < msg'[s].seq
    <3>1. CASE s = p
      BY <1>6, <1>9, <2>1, <3>1 DEF Older
    <3>2. CASE s # p
      BY <1>5, <1>6, <1>9, <2>3, <3>2 DEF Older
    <3>3. QED
      BY <3>1, <3>2
  <2>4. QED
    BY <2>2, <2>3 DEF Older
<1>10. OfferedIsNewer'
  <2>1. shown' = shown /\ queue' = queue
    BY DEF TakeNumber
  <2>2. ASSUME NEW b \in Browsers, NEW i \in 1 .. Len(shown[b])
        PROVE  Older(b, shown[b][i])'
    <3>1. shown[b][i] \in Item /\ Older(b, shown[b][i])
      BY DEF HubShape, OfferedIsNewer
    <3>2. QED
      BY <1>9, <2>1, <3>1
  <2>3. ASSUME NEW b \in Browsers, NEW i \in 1 .. Len(queue[b])
        PROVE  Older(b, queue[b][i])'
    <3>1. queue[b][i] \in Item /\ Older(b, queue[b][i])
      BY Items DEF HubShape, OfferedIsNewer
    <3>2. QED
      BY <1>9, <2>1, <3>1
  <2>4. QED
    BY <2>1, <2>2, <2>3 DEF OfferedIsNewer
<1>11. QED
  BY <1>3, <1>7, <1>8, <1>10

LEMMA RLockStep ==
  ASSUME HubInv, NEW p \in Sources, RLock(p)
  PROVE  HubInv'
<1> USE DEF HubInv
<1>1. HubShape'
  BY DEF RLock, HubShape, conns
<1>2. conns \cap gone = {}
  BY DEF HubShape, conns
<1>3. \A s \in Sources : s # p => casting'[s] = casting[s] /\ todoConns'[s] = todoConns[s]
  BY DEF RLock, HubShape
<1>4. casting[p] = "numbered" /\ casting'[p] = "sending" /\ todoConns'[p] = conns
      /\ msg' = msg /\ seq' = seq /\ gone' = gone
  BY DEF RLock, HubShape
<1>5. OwnMessage' /\ TodoAreHere'
  BY <1>2, <1>3, <1>4 DEF OwnMessage, TodoAreHere, Casting
<1>6. QueuesBounded' /\ GreetedFirst' /\ InOrder' /\ ~hubDown'
  BY DEF RLock, QueuesBounded, GreetedFirst, InOrder, Before
<1>7. \A b \in Browsers, n \in Item : Older(b, n) => Older(b, n)'
  BY <1>3, <1>4 DEF Older
<1>8. OfferedIsNewer'
  BY <1>7, Items DEF RLock, OfferedIsNewer, HubShape
<1>9. QED
  BY <1>1, <1>5, <1>6, <1>8

\* The browser is here, and the message goes behind what waits for it, or is lost.
LEMMA OfferStep ==
  ASSUME HubInv, NEW p \in Sources, NEW b \in Browsers, OfferTo(p, b)
  PROVE  HubInv'
<1> USE DEF HubInv
<1> DEFINE m == msg[p]
           q == queue[b]
<1>1. b \notin gone /\ b \in todoConns[p] /\ casting[p] = "sending"
  BY DEF OfferTo, TodoAreHere
<1>2. m \in Message /\ m.type = p /\ m.seq =< seq /\ m.seq \in Nat
  BY <1>1, Items DEF OwnMessage, Casting
<1>3. queue' = [queue EXCEPT ![b] = Offered(b, m)] /\ hubDown' = hubDown
      /\ seq' = seq /\ casting' = casting /\ msg' = msg /\ shown' = shown
      /\ joined' = joined /\ gone' = gone /\ casts' = casts
      /\ todoConns' = [todoConns EXCEPT ![p] = @ \ {b}]
  BY <1>1 DEF OfferTo
<1>4. q \in Seq(Message) /\ shown[b] \in Seq(Item)
  BY DEF HubShape
<1>5. /\ Offered(b, m) \in Seq(Message) /\ Len(Offered(b, m)) =< QueueCap
      /\ Len(Offered(b, m)) \in {Len(q), Len(q) + 1}
      /\ \A i \in 1 .. Len(q) : Offered(b, m)[i] = q[i]
      /\ Len(Offered(b, m)) = Len(q) + 1 => Offered(b, m)[Len(q) + 1] = m
  BY <1>2, <1>4, HubConstants DEF Offered, QueuesBounded
<1>6. HubShape'
  BY <1>3, <1>5 DEF HubShape
<1>7. \A c \in Browsers : c # b => queue'[c] = queue[c]
  BY <1>3 DEF HubShape
<1>8. queue'[b] = Offered(b, m)
  BY <1>3 DEF HubShape
<1>9. QueuesBounded' /\ OwnMessage' /\ GreetedFirst' /\ ~hubDown'
  BY <1>3, <1>5, <1>7, <1>8 DEF QueuesBounded, OwnMessage, GreetedFirst
<1>10. \A s \in Sources : todoConns'[s] \subseteq todoConns[s]
  BY <1>3 DEF HubShape
<1>11. b \notin todoConns'[p]
  BY <1>3 DEF HubShape
<1>12. TodoAreHere'
  BY <1>3, <1>10 DEF TodoAreHere
<1>13. ASSUME NEW n \in Item, Older(b, n)
       PROVE  Before(n, m)
  BY <1>1, <1>2, <1>13 DEF Older, Before
<1>14. InOrder'
  <2>1. ASSUME NEW i \in 1 .. Len(queue'[b]), NEW j \in 1 .. Len(queue'[b]), i < j
        PROVE  Before(queue'[b][i], queue'[b][j])
    <3>1. i \in 1 .. Len(q) /\ q[i] \in Item
      BY <1>4, <1>5, <1>8, <2>1, Items
    <3>2. CASE j \in 1 .. Len(q)
      BY <1>5, <1>8, <2>1, <3>1, <3>2 DEF InOrder
    <3>3. CASE j \notin 1 .. Len(q)
      <4>1. j = Len(q) + 1 /\ Len(queue'[b]) = Len(q) + 1
        BY <1>4, <1>5, <1>8, <3>3
      <4>2. Before(q[i], m)
        BY <1>13, <3>1 DEF OfferedIsNewer
      <4>3. QED
        BY <1>5, <1>8, <3>1, <4>1, <4>2
    <3>4. QED
      BY <3>2, <3>3
  <2>2. ASSUME NEW i \in 1 .. Len(shown[b]), NEW j \in 1 .. Len(queue'[b])
        PROVE  Before(shown[b][i], queue'[b][j])
    <3>1. CASE j \in 1 .. Len(q)
      BY <1>5, <1>8, <3>1 DEF InOrder
    <3>2. CASE j \notin 1 .. Len(q)
      <4>1. j = Len(q) + 1 /\ Len(queue'[b]) = Len(q) + 1
        BY <1>4, <1>5, <1>8, <3>2
      <4>2. Before(shown[b][i], m)
        BY <1>4, <1>13 DEF OfferedIsNewer
      <4>3. QED
        BY <1>5, <1>8, <4>1, <4>2
    <3>3. QED
      BY <3>1, <3>2
  <2>3. \A c \in Browsers : shown'[c] = shown[c]
    BY <1>3 DEF HubShape
  <2>4. \A c \in Browsers : \A i, j \in 1 .. Len(shown'[c]) :
           i < j => Before(shown'[c][i], shown'[c][j])
    BY <2>3 DEF InOrder
  <2>5. ASSUME NEW c \in Browsers, c # b
        PROVE  /\ \A i, j \in 1 .. Len(queue'[c]) :
                    i < j => Before(queue'[c][i], queue'[c][j])
               /\ \A i \in 1 .. Len(shown'[c]), j \in 1 .. Len(queue'[c]) :
                    Before(shown'[c][i], queue'[c][j])
    BY <1>7, <2>3, <2>5 DEF InOrder
  <2>6. /\ \A i, j \in 1 .. Len(queue'[b]) : i < j => Before(queue'[b][i], queue'[b][j])
        /\ \A i \in 1 .. Len(shown'[b]), j \in 1 .. Len(queue'[b]) :
             Before(shown'[b][i], queue'[b][j])
    BY <2>1, <2>2, <2>3
  <2>7. ASSUME NEW c \in Browsers
        PROVE  /\ \A i, j \in 1 .. Len(shown'[c]) :
                    i < j => Before(shown'[c][i], shown'[c][j])
               /\ \A i, j \in 1 .. Len(queue'[c]) :
                    i < j => Before(queue'[c][i], queue'[c][j])
               /\ \A i \in 1 .. Len(shown'[c]), j \in 1 .. Len(queue'[c]) :
                    Before(shown'[c][i], queue'[c][j])
    BY <2>4, <2>5, <2>6
  <2>8. QED
    BY <2>7 DEF InOrder, Before
<1>15. OfferedIsNewer'
  <2>1. \A c \in Browsers, n \in Item : Older(c, n) => Older(c, n)'
    BY <1>3, <1>10 DEF Older
  <2>2. Older(b, m)'
    BY <1>1, <1>2, <1>3, <1>11 DEF Older
  <2>3. ASSUME NEW c \in Browsers, NEW i \in 1 .. Len(queue'[c])
        PROVE  Older(c, queue[c][i])'
    <3>1. CASE c # b
      BY <1>7, <2>1, <2>3, <3>1, Items DEF HubShape, OfferedIsNewer
    <3>2. CASE c = b /\ i \in 1 .. Len(q)
      BY <1>4, <1>5, <1>8, <2>1, <3>2, Items DEF OfferedIsNewer
    <3>3. CASE c = b /\ i \notin 1 .. Len(q)
      BY <1>3, <1>4, <1>5, <1>8, <2>2, <2>3, <3>3
    <3>4. QED
      BY <3>1, <3>2, <3>3
  <2>4. ASSUME NEW c \in Browsers, NEW i \in 1 .. Len(shown'[c])
        PROVE  Older(c, shown[c][i])'
    BY <1>3, <2>1 DEF HubShape, OfferedIsNewer
  <2>5. QED
    BY <2>3, <2>4 DEF OfferedIsNewer
<1>16. QED
  BY <1>6, <1>9, <1>12, <1>14, <1>15

LEMMA RUnlockStep ==
  ASSUME HubInv, NEW p \in Sources, RUnlock(p)
  PROVE  HubInv'
<1> USE DEF HubInv
<1>1. HubShape'
  BY Items DEF RUnlock, HubShape
<1>2. \A s \in Sources : s # p => casting'[s] = casting[s] /\ msg'[s] = msg[s]
  BY DEF RUnlock, HubShape
<1>3. casting'[p] = "idle" /\ todoConns' = todoConns /\ todoConns[p] = {} /\ seq' = seq
  BY DEF RUnlock, HubShape
<1>4. OwnMessage' /\ TodoAreHere' /\ QueuesBounded' /\ GreetedFirst' /\ InOrder' /\ ~hubDown'
  BY <1>2, <1>3
  DEF RUnlock, OwnMessage, TodoAreHere, QueuesBounded, GreetedFirst, InOrder, Before, Casting
<1>5. \A b \in Browsers, n \in Item : Older(b, n) => Older(b, n)'
  BY <1>2, <1>3 DEF Older
<1>6. OfferedIsNewer'
  BY <1>5, Items DEF RUnlock, OfferedIsNewer, HubShape
<1>7. QED
  BY <1>1, <1>4, <1>6

(***************************************************************************)
(* The steps of a browser's handler.                                       *)
(***************************************************************************)
LEMMA JoinStep ==
  ASSUME HubInv, NEW b \in Browsers, Join(b)
  PROVE  HubInv'
<1> USE DEF HubInv
<1>1. HubShape'
  BY DEF Join, HubShape, castVars
<1>2. \A c \in Browsers : joined'[c] # joined[c] => joined[c] = "no" /\ joined'[c] = "added"
  BY DEF Join, HubShape
<1>3. GreetedFirst'
  BY <1>2 DEF Join, GreetedFirst
<1>4. OwnMessage' /\ TodoAreHere' /\ QueuesBounded' /\ InOrder' /\ OfferedIsNewer' /\ ~hubDown'
  BY DEF Join, castVars, OwnMessage, TodoAreHere, QueuesBounded, InOrder, OfferedIsNewer,
         Before, Older
<1>5. QED
  BY <1>1, <1>3, <1>4

LEMMA SayHelloStep ==
  ASSUME HubInv, NEW b \in Browsers, SayHello(b)
  PROVE  HubInv'
<1> USE DEF HubInv
<1>1. shown[b] = <<>>
  BY DEF SayHello, GreetedFirst
<1>2. shown'[b] = <<Hello>> /\ \A c \in Browsers : c # b => shown'[c] = shown[c]
  BY <1>1 DEF SayHello, HubShape
<1>3. HubShape'
  BY <1>1, Items DEF SayHello, HubShape, castVars
<1>4. \A c \in Browsers : c # b => joined'[c] = joined[c]
  BY DEF SayHello, HubShape
<1>5. joined'[b] = "serving"
  BY DEF SayHello, HubShape
<1>6. GreetedFirst'
  <2>1. 2 .. Len(<<Hello>>) = {} /\ <<Hello>> # <<>>
    OBVIOUS
  <2>2. ASSUME NEW c \in Browsers
        PROVE  /\ joined'[c] \in {"no", "added"} => shown'[c] = <<>>
               /\ joined'[c] = "serving" => shown'[c] # <<>>
               /\ \A j \in 2 .. Len(shown'[c]) : shown'[c][j] \in Message
    <3>1. CASE c = b
      BY <1>2, <1>5, <2>1, <3>1
    <3>2. CASE c # b
      BY <1>2, <1>4, <3>2 DEF GreetedFirst
    <3>3. QED
      BY <3>1, <3>2
  <2>3. QED
    BY <2>2 DEF GreetedFirst
<1>7. \A m \in Message : Before(Hello, m)
  BY Items DEF Before
<1>8. InOrder'
  <2>1. Len(<<Hello>>) = 1 /\ <<Hello>>[1] = Hello /\ queue' = queue
    BY DEF SayHello
  <2>2. \A j \in 1 .. Len(queue[b]) : queue[b][j] \in Message
    BY DEF HubShape
  <2>3. ASSUME NEW c \in Browsers
        PROVE  /\ \A i, j \in 1 .. Len(shown'[c]) :
                     i < j => Before(shown'[c][i], shown'[c][j])
               /\ \A i, j \in 1 .. Len(queue'[c]) :
                     i < j => Before(queue'[c][i], queue'[c][j])
               /\ \A i \in 1 .. Len(shown'[c]), j \in 1 .. Len(queue'[c]) :
                     Before(shown'[c][i], queue'[c][j])
    <3>1. CASE c = b
      BY <1>2, <1>7, <2>1, <2>2, <3>1 DEF InOrder
    <3>2. CASE c # b
      BY <1>2, <2>1, <3>2 DEF InOrder
    <3>3. QED
      BY <3>1, <3>2
  <2>4. QED
    BY <2>3 DEF InOrder, Before
<1>9. Older(b, Hello)
  BY Items DEF Older, HubShape
<1>10. OfferedIsNewer'
  <2>1. Len(<<Hello>>) = 1 /\ <<Hello>>[1] = Hello /\ queue' = queue
    BY DEF SayHello
  <2>2. \A c \in Browsers, n \in Item : Older(c, n) => Older(c, n)'
    BY DEF SayHello, castVars, Older
  <2>3. ASSUME NEW c \in Browsers, NEW i \in 1 .. Len(shown'[c])
        PROVE  Older(c, shown[c][i])'
    <3>1. CASE c = b
      BY <1>2, <1>9, <2>1, <2>2, <3>1, Items
    <3>2. CASE c # b
      BY <1>2, <2>2, <3>2 DEF OfferedIsNewer, HubShape
    <3>3. QED
      BY <3>1, <3>2
  <2>4. ASSUME NEW c \in Browsers, NEW i \in 1 .. Len(queue'[c])
        PROVE  Older(c, queue[c][i])'
    BY <2>1, <2>2, Items DEF OfferedIsNewer, HubShape
  <2>5. QED
    BY <2>3, <2>4 DEF OfferedIsNewer
<1>11. OwnMessage' /\ TodoAreHere' /\ QueuesBounded' /\ ~hubDown'
  BY DEF SayHello, castVars, OwnMessage, TodoAreHere, QueuesBounded
<1>12. QED
  BY <1>3, <1>6, <1>8, <1>10, <1>11

LEMMA WriteStep ==
  ASSUME HubInv, NEW b \in Browsers, WriteNext(b)
  PROVE  HubInv'
<1> USE DEF HubInv
<1> DEFINE q == queue[b]
           s == shown[b]
<1>1. q \in Seq(Message) /\ s \in Seq(Item) /\ q # <<>> /\ s # <<>>
      /\ joined' = joined
  BY DEF WriteNext, MayWrite, HubShape, GreetedFirst
<1>2. /\ queue'[b] = Tail(q) /\ shown'[b] = Append(s, q[1])
      /\ \A c \in Browsers : c # b => queue'[c] = queue[c] /\ shown'[c] = shown[c]
  BY <1>1 DEF WriteNext, HubShape
<1>3. /\ q[1] \in Message /\ q[1] \in Item
      /\ Len(Tail(q)) = Len(q) - 1 /\ Tail(q) \in Seq(Message)
      /\ \A i \in 1 .. Len(Tail(q)) : Tail(q)[i] = q[i + 1] /\ i + 1 \in 1 .. Len(q)
  BY <1>1, Items
<1>4. /\ Len(Append(s, q[1])) = Len(s) + 1 /\ Append(s, q[1]) \in Seq(Item)
      /\ \A i \in 1 .. Len(s) : Append(s, q[1])[i] = s[i]
      /\ Append(s, q[1])[Len(s) + 1] = q[1]
  BY <1>1, <1>3
<1>5. Len(q) \in Nat \ {0} /\ Len(s) \in Nat \ {0}
  BY <1>1
<1>6. HubShape'
  BY <1>1, <1>3, <1>4 DEF WriteNext, HubShape, castVars
<1>7. QueuesBounded'
  <2>1. Len(Tail(q)) =< QueueCap
    BY <1>3, <1>5, HubConstants DEF QueuesBounded
  <2>2. QED
    BY <1>2, <2>1 DEF QueuesBounded
<1>8. GreetedFirst'
  <2>1. \A j \in 2 .. Len(shown'[b]) : shown'[b][j] \in Message
    BY <1>2, <1>3, <1>4, <1>5 DEF GreetedFirst
  <2>2. shown'[b] # <<>> /\ joined[b] = "serving"
    BY <1>1, <1>2, <1>4, <1>5 DEF WriteNext, MayWrite
  <2>3. QED
    BY <1>1, <1>2, <2>1, <2>2 DEF GreetedFirst
<1>9. InOrder'
  <2>1. ASSUME NEW i \in 1 .. Len(shown'[b]), NEW j \in 1 .. Len(shown'[b]), i < j
        PROVE  Before(shown'[b][i], shown'[b][j])
    <3>1. i \in 1 .. Len(s)
      BY <1>2, <1>4, <1>5, <2>1
    <3>2. CASE j \in 1 .. Len(s)
      BY <1>2, <1>4, <2>1, <3>1, <3>2 DEF InOrder
    <3>3. CASE j = Len(s) + 1
      <4>1. Before(s[i], q[1])
        BY <1>5, <3>1 DEF InOrder
      <4>2. QED
        BY <1>2, <1>4, <3>1, <3>3, <4>1
    <3>4. QED
      BY <1>2, <1>4, <1>5, <3>2, <3>3
  <2>2. ASSUME NEW i \in 1 .. Len(queue'[b]), NEW j \in 1 .. Len(queue'[b]), i < j
        PROVE  Before(queue'[b][i], queue'[b][j])
    <3>1. i + 1 \in 1 .. Len(q) /\ j + 1 \in 1 .. Len(q) /\ i + 1 < j + 1
      BY <1>2, <1>3, <2>2
    <3>2. Before(q[i + 1], q[j + 1])
      BY <3>1 DEF InOrder
    <3>3. QED
      BY <1>2, <1>3, <3>2
  <2>3. ASSUME NEW i \in 1 .. Len(shown'[b]), NEW j \in 1 .. Len(queue'[b])
        PROVE  Before(shown'[b][i], queue'[b][j])
    <3>1. j + 1 \in 1 .. Len(q) /\ 1 \in 1 .. Len(q) /\ 1 < j + 1 /\ queue'[b][j] = q[j + 1]
      BY <1>2, <1>3, <1>5
    <3>2. CASE i \in 1 .. Len(s)
      BY <1>2, <1>4, <3>1, <3>2 DEF InOrder
    <3>3. CASE i = Len(s) + 1
      <4>1. Before(q[1], q[j + 1])
        BY <3>1 DEF InOrder
      <4>2. QED
        BY <1>2, <1>4, <3>1, <3>3, <4>1
    <3>4. QED
      BY <1>2, <1>4, <1>5, <3>2, <3>3
  <2>4. ASSUME NEW c \in Browsers
        PROVE  /\ \A i, j \in 1 .. Len(shown'[c]) :
                     i < j => Before(shown'[c][i], shown'[c][j])
               /\ \A i, j \in 1 .. Len(queue'[c]) :
                     i < j => Before(queue'[c][i], queue'[c][j])
               /\ \A i \in 1 .. Len(shown'[c]), j \in 1 .. Len(queue'[c]) :
                     Before(shown'[c][i], queue'[c][j])
    <3>1. CASE c = b
      BY <2>1, <2>2, <2>3, <3>1
    <3>2. CASE c # b
      BY <1>2, <3>2 DEF InOrder
    <3>3. QED
      BY <3>1, <3>2
  <2>5. QED
    BY <2>4 DEF InOrder, Before
<1>10. OfferedIsNewer'
  <2>1. \A c \in Browsers, n \in Item : Older(c, n) <=> Older(c, n)'
    BY DEF WriteNext, castVars, Older
  <2>2. Older(b, q[1])
    BY <1>5 DEF OfferedIsNewer
  <2>3. \A i \in 1 .. Len(shown'[b]) : shown'[b][i] \in Item /\ Older(b, shown'[b][i])
    BY <1>1, <1>2, <1>3, <1>4, <1>5, <2>2 DEF OfferedIsNewer
  <2>4. \A i \in 1 .. Len(queue'[b]) : queue'[b][i] \in Item /\ Older(b, queue'[b][i])
    BY <1>1, <1>2, <1>3, Items DEF OfferedIsNewer
  <2>5. ASSUME NEW c \in Browsers
        PROVE  /\ \A i \in 1 .. Len(shown'[c]) : Older(c, shown[c][i])'
               /\ \A i \in 1 .. Len(queue'[c]) : Older(c, queue[c][i])'
    <3>1. CASE c = b
      BY <2>1, <2>3, <2>4, <3>1
    <3>2. CASE c # b
      BY <1>2, <2>1, <3>2, Items, SMTT(20) DEF OfferedIsNewer, HubShape
    <3>3. QED
      BY <3>1, <3>2
  <2>6. QED
    BY <2>5 DEF OfferedIsNewer
<1>11. OwnMessage' /\ TodoAreHere' /\ ~hubDown'
  BY DEF WriteNext, castVars, OwnMessage, TodoAreHere
<1>12. QED
  BY <1>6, <1>7, <1>8, <1>9, <1>10, <1>11

\* The write lock: nobody is being offered anything.
LEMMA LeaveStep ==
  ASSUME HubInv, NEW b \in Browsers, Leave(b)
  PROVE  HubInv'
<1> USE DEF HubInv
<1>1. HubShape'
  BY DEF Leave, HubShape, castVars
<1>2. \A p \in Sources : todoConns[p] = {}
  BY DEF Leave, MayRemove, ReadLocked, TodoAreHere
<1>3. TodoAreHere'
  BY <1>2 DEF Leave, castVars, TodoAreHere
<1>4. \A c \in Browsers : c # b => queue'[c] = queue[c] /\ joined'[c] = joined[c]
  BY DEF Leave, HubShape
<1>5. queue'[b] = <<>> /\ joined'[b] = "left" /\ shown' = shown
  BY DEF Leave, HubShape
<1>6. QueuesBounded' /\ GreetedFirst'
  BY <1>4, <1>5, HubConstants DEF QueuesBounded, GreetedFirst
<1>7. InOrder'
  <2>1. ASSUME NEW c \in Browsers
        PROVE  /\ \A i, j \in 1 .. Len(shown'[c]) :
                     i < j => Before(shown'[c][i], shown'[c][j])
               /\ \A i, j \in 1 .. Len(queue'[c]) :
                     i < j => Before(queue'[c][i], queue'[c][j])
               /\ \A i \in 1 .. Len(shown'[c]), j \in 1 .. Len(queue'[c]) :
                     Before(shown'[c][i], queue'[c][j])
    <3>1. CASE c = b
      BY <1>5, <3>1 DEF InOrder
    <3>2. CASE c # b
      BY <1>4, <1>5, <3>2 DEF InOrder
    <3>3. QED
      BY <3>1, <3>2
  <2>2. QED
    BY <2>1 DEF InOrder, Before
<1>8. OfferedIsNewer'
  BY <1>4, <1>5 DEF Leave, castVars, OfferedIsNewer, Older
<1>9. OwnMessage' /\ ~hubDown'
  BY DEF Leave, castVars, OwnMessage
<1>10. QED
  BY <1>1, <1>3, <1>6, <1>7, <1>9, <1>8

-----------------------------------------------------------------------------
LEMMA HubStepInv == HubInv /\ [HubNext]_hubVars => HubInv'
<1> SUFFICES ASSUME HubInv, [HubNext]_hubVars
             PROVE  HubInv'
  OBVIOUS
<1>1. ASSUME NEW p \in Sources, Subscribe(p) \/ CastStep(p)
      PROVE  HubInv'
  BY <1>1, SubscribeStep, TakeNumberStep, RLockStep, RUnlockStep, OfferStep DEF CastStep
<1>2. ASSUME NEW b \in Browsers, BrowserStep(b)
      PROVE  HubInv'
  BY <1>2, JoinStep, SayHelloStep, WriteStep, LeaveStep DEF BrowserStep
<1>3. CASE UNCHANGED hubVars
  BY <1>3
  DEF hubVars, castVars, HubInv, HubShape, QueuesBounded, OwnMessage, TodoAreHere,
      GreetedFirst, InOrder, OfferedIsNewer, Older, Before
<1>4. QED
  BY <1>1, <1>2, <1>3 DEF HubNext

LEMMA HubInvariant == HubSpec => []HubInv
  BY HubInitInv, HubStepInv, PTL DEF HubSpec

\* Every reachable state of the hub is well typed; in particular no queue exceeds
\* its capacity and no more numbers are given out than messages taken.
THEOREM HubTypeCorrect == HubSpec => []HubTypeOK
<1>1. HubInv => HubTypeOK
  <2> SUFFICES ASSUME HubInv
               PROVE  HubTypeOK
    OBVIOUS
  <2>1. seq \in 0 .. 2 * MaxMessages
    BY HubConstants DEF HubInv, HubShape, Sources
  <2>2. ASSUME NEW b \in Browsers
        PROVE  /\ Range(queue[b]) \subseteq Message /\ Len(queue[b]) =< QueueCap
               /\ Range(shown[b]) \subseteq Message \cup {Hello}
    BY DEF HubInv, HubShape, QueuesBounded, Range, Item
  <2>3. QED
    BY <2>1, <2>2 DEF HubInv, HubShape, OwnMessage, Casting, HubTypeOK
<1>2. QED
  BY <1>1, HubInvariant, PTL

\* Whoever leaves, and whatever is being broadcast: no message is sent on a channel
\* that its browser's handler has closed.
THEOREM ClosedChannelsAreLeftAlone == HubSpec => []NoSendAfterClose
<1>1. HubInv => NoSendAfterClose
  BY DEF HubInv, NoSendAfterClose
<1>2. QED
  BY <1>1, HubInvariant, PTL

\* Each browser sees the greeting first and each subscription in order, however
\* slow it is and however many messages it misses.
THEOREM FeedsArriveInOrder == HubSpec => []EachFeedInOrder
<1>1. HubInv => EachFeedInOrder
  <2> SUFFICES ASSUME HubInv, NEW b \in Browsers,
                      NEW i \in DOMAIN shown[b], NEW j \in DOMAIN shown[b], i < j
               PROVE  /\ shown[b][j] # Hello
                      /\ shown[b][i].type = shown[b][j].type =>
                           shown[b][i].seq < shown[b][j].seq
    BY DEF EachFeedInOrder
  <2>1. DOMAIN shown[b] = 1 .. Len(shown[b]) /\ Len(shown[b]) \in Nat
    BY DEF HubInv, HubShape
  <2>2. shown[b][j] \in Message
    BY <2>1 DEF HubInv, GreetedFirst
  <2>3. QED
    BY <2>1, <2>2, Items DEF HubInv, InOrder, Before
<1>2. QED
  BY <1>1, HubInvariant, PTL

\* Both together: a broadcast meets no closed channel and no message overtakes
\* another on the way to a browser.
THEOREM BroadcastsAreClean == HubSpec => []CleanBroadcasts
  BY ClosedChannelsAreLeftAlone, FeedsArriveInOrder, PTL DEF CleanBroadcasts

-----------------------------------------------------------------------------
(***************************************************************************)
(* Reconnect.  The wait is a function of the counter alone: what the shift *)
(* gives for each count up to the one that panics is computed once, limb   *)
(* by limb, and the invariant ties the wait to the counter.                *)
(***************************************************************************)

\* The recursion has a value: Shifted is what its equation says, for any bound.
LEMMA ShiftedIsDefined ==
    Shifted = [n \in 0 .. MaxAttempt |-> IF n = 0 THEN Second ELSE ShiftLeft(Shifted[n-1])]
<1> DEFINE Solves(f, k) == f = [n \in 0 .. k |-> IF n = 0 THEN Second ELSE ShiftLeft(f[n-1])]
           Unsolved == {k \in Nat : ~ \E f : Solves(f, k)}
<1>1. ASSUME NEW k \in Nat, NEW f, Solves(f, k)
      PROVE  \E g : Solves(g, k + 1)
  <2> DEFINE g == [n \in 0 .. k + 1 |-> IF n \in 0 .. k THEN f[n] ELSE ShiftLeft(f[k])]
  <2>1. ASSUME NEW n \in 0 .. k + 1
        PROVE  g[n] = IF n = 0 THEN Second ELSE ShiftLeft(g[n-1])
    <3>1. CASE n \in 0 .. k
      <4>1. g[n] = f[n]
        BY <3>1
      <4>2. n # 0 => g[n-1] = f[n-1]
        BY <3>1
      <4>3. f[n] = IF n = 0 THEN Second ELSE ShiftLeft(f[n-1])
        <5> HIDE DEF g
        <5> QED
          BY <1>1, <3>1
      <4> QED
        BY <4>1, <4>2, <4>3
    <3>2. CASE n = k + 1
      BY <3>2
    <3> QED
      BY <3>1, <3>2
  <2>2. g = [n \in 0 .. k + 1 |-> IF n = 0 THEN Second ELSE ShiftLeft(g[n-1])]
    BY <2>1
  <2>3. Solves(g, k + 1)
    BY <2>2
  <2> QED
    BY <2>3
<1>2. \E f : Solves(f, 0)
  <2> DEFINE f == [n \in 0 .. 0 |-> Second]
  <2>1. f = [n \in 0 .. 0 |-> IF n = 0 THEN Second ELSE ShiftLeft(f[n-1])]
    OBVIOUS
  <2> QED
    BY <2>1
<1>3. Unsolved = {}
  <2>1. SUFFICES ASSUME Unsolved # {}
                 PROVE  FALSE
    OBVIOUS
  <2>2. PICK k \in Unsolved : \A j \in Unsolved : <<j, k>> \notin OpToRel(<, Nat)
    <3> HIDE DEF Solves
    <3>1. Unsolved \subseteq Nat
      OBVIOUS
    <3> HIDE DEF Unsolved
    <3> QED
      BY <2>1, <3>1, WFMin, NatLessThanWellFounded
  <2>3. k # 0 /\ k \in Nat
    BY <1>2
  <2>4. k - 1 \in Nat /\ k - 1 \notin Unsolved
    <3>1. k - 1 \in Nat /\ k - 1 < k
      BY <2>3
    <3> HIDE DEF Unsolved
    <3> QED
      BY <2>2, <2>3, <3>1 DEF OpToRel
  <2>5. \E f : Solves(f, k - 1)
    BY <2>4
  <2>6. \E g : Solves(g, (k - 1) + 1)
    BY <1>1, <2>4, <2>5
  <2>7. (k - 1) + 1 = k
    BY <2>3
  <2> HIDE DEF Solves
  <2> QED
    BY <2>6, <2>7
<1>4. \E f : Solves(f, MaxAttempt)
  BY <1>3, ReconnectConstants
<1> QED
  BY <1>4 DEF Shifted

\* One doubling, with the carries between the limbs.
LEMMA ShiftOnce ==
    ASSUME NEW n \in 1 .. MaxAttempt, NEW a, NEW b, NEW c, NEW d,
           Shifted[n-1] = <<a, b, c, d>>
    PROVE  Shifted[n] = <<(2*a + b \div 32768) % 65536, (2*b + c \div 32768) % 65536,
                          (2*c + d \div 32768) % 65536, (2*d + 0) % 65536>>
<1>1. Shifted[n] = ShiftLeft(Shifted[n-1])
  <2>1. ASSUME NEW f, NEW g,
               f = [m \in 0 .. MaxAttempt |-> IF m = 0 THEN Second ELSE ShiftLeft(g[m-1])]
        PROVE  f[n] = ShiftLeft(g[n-1])
    BY <2>1, ReconnectConstants, SMTT(20)
  <2> QED
    BY <2>1, ShiftedIsDefined
<1> QED
  BY <1>1 DEF ShiftLeft, Limb

\* The operators on limbs, for numbers written out.
LEMMA LimbOrder ==
    ASSUME NEW x, NEW y
    PROVE  Above(x, y) <=> \/ x[1] > y[1]
                           \/ x[1] = y[1] /\ x[2] > y[2]
                           \/ x[1] = y[1] /\ x[2] = y[2] /\ x[3] > y[3]
                           \/ x[1] = y[1] /\ x[2] = y[2] /\ x[3] = y[3] /\ x[4] > y[4]
<1>1. /\ 1 .. 1 - 1 = {} /\ 1 .. 2 - 1 = {1}
      /\ 1 .. 3 - 1 = {1, 2} /\ 1 .. 4 - 1 = {1, 2, 3} /\ 1 .. 4 = {1, 2, 3, 4}
  OBVIOUS
<1>2. /\ (\A j \in 1 .. 1 - 1 : x[j] = y[j]) <=> TRUE
      /\ (\A j \in 1 .. 2 - 1 : x[j] = y[j]) <=> x[1] = y[1]
      /\ (\A j \in 1 .. 3 - 1 : x[j] = y[j]) <=> x[1] = y[1] /\ x[2] = y[2]
      /\ (\A j \in 1 .. 4 - 1 : x[j] = y[j]) <=> x[1] = y[1] /\ x[2] = y[2] /\ x[3] = y[3]
  BY <1>1
<1> QED
  BY <1>1, <1>2 DEF Above

LEMMA TooLong ==
    ASSUME NEW a \in Nat, NEW b \in Nat, NEW c \in Nat, NEW d \in Nat,
           a < 32768, a > 0 \/ b > 6
    PROVE  Exceeds(<<a, b, c, d>>, MaxWait)
<1>1. \A x : x = <<a, b, c, d>> => Above(x, MaxWait)
  BY LimbOrder, SMT DEF MaxWait
<1>2. Above(<<a, b, c, d>>, MaxWait)
  BY <1>1, SMT
<1>3. ~Negative(<<a, b, c, d>>)
  BY SMT DEF Negative, Limb
<1> QED
  BY <1>2, <1>3 DEF Exceeds

\* base << n up to the first n whose sign bit is set: four values below the
\* maximum, then values above it, then a negative one.
LEMMA ShiftedValues ==

    /\ 1 =< MaxAttempt => Shifted[1] = <<0, 0, 30517, 37888>>
    /\ 2 =< MaxAttempt => Shifted[2] = <<0, 0, 61035, 10240>>
    /\ 3 =< MaxAttempt => Shifted[3] = <<0, 1, 56534, 20480>>
    /\ 4 =< MaxAttempt => Shifted[4] = <<0, 3, 47532, 40960>>
    /\ \A n \in 5 .. 33 : n =< MaxAttempt => Exceeds(Shifted[n], MaxWait)
    /\ 34 =< MaxAttempt => Negative(Shifted[34])
<1>0. Shifted[0] = <<0, 0, 15258, 51712>>
  BY ShiftedIsDefined, ReconnectConstants DEF Second
<1>1. 1 =< MaxAttempt => Shifted[1] = <<0, 0, 30517, 37888>>
  BY <1>0, ShiftOnce, ReconnectConstants
<1>2. 2 =< MaxAttempt => Shifted[2] = <<0, 0, 61035, 10240>>
  BY <1>1, ShiftOnce, ReconnectConstants
<1>3. 3 =< MaxAttempt => Shifted[3] = <<0, 1, 56534, 20480>>
  BY <1>2, ShiftOnce, ReconnectConstants
<1>4. 4 =< MaxAttempt => Shifted[4] = <<0, 3, 47532, 40960>>
  BY <1>3, ShiftOnce, ReconnectConstants
<1>5. 5 =< MaxAttempt => Shifted[5] = <<0, 7, 29529, 16384>>
  BY <1>4, ShiftOnce, ReconnectConstants
<1>6. 6 =< MaxAttempt => Shifted[6] = <<0, 14, 59058, 32768>>
  BY <1>5, ShiftOnce, ReconnectConstants
<1>7. 7 =< MaxAttempt => Shifted[7] = <<0, 29, 52581, 0>>
  BY <1>6, ShiftOnce, ReconnectConstants
<1>8. 8 =< MaxAttempt => Shifted[8] = <<0, 59, 39626, 0>>
  BY <1>7, ShiftOnce, ReconnectConstants
<1>9. 9 =< MaxAttempt => Shifted[9] = <<0, 119, 13716, 0>>
  BY <1>8, ShiftOnce, ReconnectConstants
<1>10. 10 =< MaxAttempt => Shifted[10] = <<0, 238, 27432, 0>>
  BY <1>9, ShiftOnce, ReconnectConstants
<1>11. 11 =< MaxAttempt => Shifted[11] = <<0, 476, 54864, 0>>
  BY <1>10, ShiftOnce, ReconnectConstants
<1>12. 12 =< MaxAttempt => Shifted[12] = <<0, 953, 44192, 0>>
  BY <1>11, ShiftOnce, ReconnectConstants
<1>13. 13 =< MaxAttempt => Shifted[13] = <<0, 1907, 22848, 0>>
  BY <1>12, ShiftOnce, ReconnectConstants
<1>14. 14 =< MaxAttempt => Shifted[14] = <<0, 3814, 45696, 0>>
  BY <1>13, ShiftOnce, ReconnectConstants
<1>15. 15 =< MaxAttempt => Shifted[15] = <<0, 7629, 25856, 0>>
  BY <1>14, ShiftOnce, ReconnectConstants
<1>16. 16 =< MaxAttempt => Shifted[16] = <<0, 15258, 51712, 0>>
  BY <1>15, ShiftOnce, ReconnectConstants
<1>17. 17 =< MaxAttempt => Shifted[17] = <<0, 30517, 37888, 0>>
  BY <1>16, ShiftOnce, ReconnectConstants
<1>18. 18 =< MaxAttempt => Shifted[18] = <<0, 61035, 10240, 0>>
  BY <1>17, ShiftOnce, ReconnectConstants
<1>19. 19 =< MaxAttempt => Shifted[19] = <<1, 56534, 20480, 0>>
  BY <1>18, ShiftOnce, ReconnectConstants
<1>20. 20 =< MaxAttempt => Shifted[20] = <<3, 47532, 40960, 0>>
  BY <1>19, ShiftOnce, ReconnectConstants
<1>21. 21 =< MaxAttempt => Shifted[21] = <<7, 29529, 16384, 0>>
  BY <1>20, ShiftOnce, ReconnectConstants
<1>22. 22 =< MaxAttempt => Shifted[22] = <<14, 59058, 32768, 0>>
  BY <1>21, ShiftOnce, ReconnectConstants
<1>23. 23 =< MaxAttempt => Shifted[23] = <<29, 52581, 0, 0>>
  BY <1>22, ShiftOnce, ReconnectConstants
<1>24. 24 =< MaxAttempt => Shifted[24] = <<59, 39626, 0, 0>>
  BY <1>23, ShiftOnce, ReconnectConstants
<1>25. 25 =< MaxAttempt => Shifted[25] = <<119, 13716, 0, 0>>
  BY <1>24, ShiftOnce, ReconnectConstants
<1>26. 26 =< MaxAttempt => Shifted[26] = <<238, 27432, 0, 0>>
  BY <1>25, ShiftOnce, ReconnectConstants
<1>27. 27 =< MaxAttempt => Shifted[27] = <<476, 54864, 0, 0>>
  BY <1>26, ShiftOnce, ReconnectConstants
<1>28. 28 =< MaxAttempt => Shifted[28] = <<953, 44192, 0, 0>>
  BY <1>27, ShiftOnce, ReconnectConstants
<1>29. 29 =< MaxAttempt => Shifted[29] = <<1907, 22848, 0, 0>>
  BY <1>28, ShiftOnce, ReconnectConstants
<1>30. 30 =< MaxAttempt => Shifted[30] = <<3814, 45696, 0, 0>>
  BY <1>29, ShiftOnce, ReconnectConstants
<1>31. 31 =< MaxAttempt => Shifted[31] = <<7629, 25856, 0, 0>>
  BY <1>30, ShiftOnce, ReconnectConstants
<1>32. 32 =< MaxAttempt => Shifted[32] = <<15258, 51712, 0, 0>>
  BY <1>31, ShiftOnce, ReconnectConstants
<1>33. 33 =< MaxAttempt => Shifted[33] = <<30517, 37888, 0, 0>>
  BY <1>32, ShiftOnce, ReconnectConstants
<1>34. 34 =< MaxAttempt => Shifted[34] = <<61035, 10240, 0, 0>>
  BY <1>33, ShiftOnce, ReconnectConstants
<1>35. ASSUME NEW n \in 5 .. 33, n =< MaxAttempt
       PROVE  Exceeds(Shifted[n], MaxWait)
  <2>5. CASE n = 5
    BY <1>5, <1>35, <2>5, TooLong, SMTT(20)
  <2>6. CASE n = 6
    BY <1>6, <1>35, <2>6, TooLong
  <2>7. CASE n = 7
    BY <1>7, <1>35, <2>7, TooLong
  <2>8. CASE n = 8
    BY <1>8, <1>35, <2>8, TooLong
  <2>9. CASE n = 9
    BY <1>9, <1>35, <2>9, TooLong
  <2>10. CASE n = 10
    BY <1>10, <1>35, <2>10, TooLong
  <2>11. CASE n = 11
    BY <1>11, <1>35, <2>11, TooLong, SMTT(20)
  <2>12. CASE n = 12
    BY <1>12, <1>35, <2>12, TooLong
  <2>13. CASE n = 13
    BY <1>13, <1>35, <2>13, TooLong
  <2>14. CASE n = 14
    BY <1>14, <1>35, <2>14, TooLong
  <2>15. CASE n = 15
    BY <1>15, <1>35, <2>15, TooLong
  <2>16. CASE n = 16
    BY <1>16, <1>35, <2>16, TooLong
  <2>17. CASE n = 17
    BY <1>17, <1>35, <2>17, TooLong
  <2>18. CASE n = 18
    BY <1>18, <1>35, <2>18, TooLong
  <2>19. CASE n = 19
    BY <1>19, <1>35, <2>19, TooLong
  <2>20. CASE n = 20
    BY <1>20, <1>35, <2>20, TooLong
  <2>21. CASE n = 21
    BY <1>21, <1>35, <2>21, TooLong
  <2>22. CASE n = 22
    BY <1>22, <1>35, <2>22, TooLong
  <2>23. CASE n = 23
    BY <1>23, <1>35, <2>23, TooLong
  <2>24. CASE n = 24
    BY <1>24, <1>35, <2>24, TooLong
  <2>25. CASE n = 25
    BY <1>25, <1>35, <2>25, TooLong
  <2>26. CASE n = 26
    BY <1>26, <1>35, <2>26, TooLong
  <2>27. CASE n = 27
    BY <1>27, <1>35, <2>27, TooLong
  <2>28. CASE n = 28
    BY <1>28, <1>35, <2>28, TooLong
  <2>29. CASE n = 29
    BY <1>29, <1>35, <2>29, TooLong
  <2>30. CASE n = 30
    BY <1>30, <1>35, <2>30, TooLong
  <2>31. CASE n = 31
    BY <1>31, <1>35, <2>31, TooLong
  <2>32. CASE n = 32
    BY <1>32, <1>35, <2>32, TooLong
  <2>33. CASE n = 33
    BY <1>33, <1>35, <2>33, TooLong
  <2> QED
    BY <2>5, <2>6, <2>7, <2>8, <2>9, <2>10, <2>11, <2>12, <2>13, <2>14, <2>15, <2>16, <2>17, <2>18, <2>19, <2>20, <2>21, <2>22, <2>23, <2>24, <2>25, <2>26, <2>27, <2>28, <2>29, <2>30, <2>31, <2>32, <2>33
<1>36. 34 =< MaxAttempt => Negative(Shifted[34])
  BY <1>34 DEF Negative, Limb
<1> QED
  BY <1>1, <1>2, <1>3, <1>4, <1>35, <1>36

\* A wait is a positive number, of two seconds at least and MaxWait at most.
IsWait(w) ==
    \E b, c, d \in Nat :
        /\ w = <<0, b, c, d>> /\ b < 65536 /\ c < 65536 /\ d < 65536
        /\ b > 0 \/ c > 30517 \/ (c = 30517 /\ d >= 37888)
        /\ b < 6 \/ (b = 6 /\ (c < 64547 \/ (c = 64547 /\ d =< 44032)))

LEMMA CappedValues ==
    ASSUME NEW n \in 1 .. MaxAttempt, n =< 33
    PROVE  IsWait(Capped(n))
<1>1. IsWait(MaxWait)
  BY SMT DEF IsWait, MaxWait
<1>2. CASE n = 1
  <2>1. Shifted[n] = <<0, 0, 30517, 37888>>
    BY <1>2, ShiftedValues, SMT
  <2> QED
    BY <1>1, <2>1, SMT DEF Capped, Delay, IsWait
<1>3. CASE n = 2
  <2>1. Shifted[n] = <<0, 0, 61035, 10240>>
    BY <1>3, ShiftedValues, SMT
  <2> QED
    BY <1>1, <2>1, SMT DEF Capped, Delay, IsWait
<1>4. CASE n = 3
  <2>1. Shifted[n] = <<0, 1, 56534, 20480>>
    BY <1>4, ShiftedValues, SMT
  <2> QED
    BY <1>1, <2>1, SMT DEF Capped, Delay, IsWait
<1>5. CASE n = 4
  <2>1. Shifted[n] = <<0, 3, 47532, 40960>>
    BY <1>5, ShiftedValues, SMT
  <2> QED
    BY <1>1, <2>1, SMT DEF Capped, Delay, IsWait
<1>6. CASE n > 4
  <2>1. n \in 5 .. 33 /\ n =< MaxAttempt
    BY <1>6, ReconnectConstants, SMT
  <2>2. Exceeds(Shifted[n], MaxWait)
    BY <2>1, ShiftedValues, SMT
  <2> QED
    BY <1>1, <2>2, SMT DEF Capped, Delay
<1> QED
  BY <1>2, <1>3, <1>4, <1>5, <1>6, ReconnectConstants, SMT

LEMMA FourLimbs ==
    ASSUME NEW a \in Nat, NEW b \in Nat, NEW c \in Nat, NEW d \in Nat,
           a < 65536, b < 65536, c < 65536, d < 65536
    PROVE  <<a, b, c, d>> \in Limbs
<1>1. Limb \in Nat /\ a < Limb /\ b < Limb /\ c < Limb /\ d < Limb
  BY SMT DEF Limb
<1> HIDE DEF Limb
<1>2. a \in 0 .. Limb - 1 /\ b \in 0 .. Limb - 1 /\ c \in 0 .. Limb - 1 /\ d \in 0 .. Limb - 1
  BY <1>1, SMT
<1> QED
  BY <1>2, SMT DEF Limbs

\* Int63n takes half of such a wait, which is at least a second; what is slept is
\* between the half and the whole.
LEMMA WaitsAreSound ==
    ASSUME NEW w, IsWait(w)
    PROVE  /\ ~Negative(w) /\ HalfOf(w) # Zero /\ {w, HalfOf(w)} \subseteq Limbs
           /\ ~Above(Second, HalfOf(w)) /\ Above(w, HalfOf(w)) /\ ~Above(w, MaxWait)
<1> PICK b \in Nat, c \in Nat, d \in Nat :
        /\ w = <<0, b, c, d>> /\ b < 65536 /\ c < 65536 /\ d < 65536
        /\ b > 0 \/ c > 30517 \/ (c = 30517 /\ d >= 37888)
        /\ b < 6 \/ (b = 6 /\ (c < 64547 \/ (c = 64547 /\ d =< 44032)))
  BY SMT DEF IsWait
<1> DEFINE e == b \div 2
           f == c \div 2 + (b % 2) * 32768
           g == d \div 2 + (c % 2) * 32768
<1>1. e \in Nat /\ f \in Nat /\ g \in Nat /\ e < 32768 /\ f < 65536 /\ g < 65536
  BY SMT
<1>2. e > 0 \/ f > 15258 \/ (f = 15258 /\ g >= 51712)
  BY SMT
<1>3. b > e \/ (b = e /\ (c > f \/ (c = f /\ d > g)))
  BY SMT
<1>4. HalfOf(w) = <<0, e, f, g>>
  BY SMT DEF HalfOf, Limb
<1> HIDE DEF e, f, g
<1>5. ~Negative(w) /\ HalfOf(w) # Zero
  BY <1>1, <1>2, <1>4, SMT DEF Negative, Limb, Zero
<1>6. w \in Limbs /\ HalfOf(w) \in Limbs
  <2>1. <<0, b, c, d>> \in Limbs
    BY FourLimbs, SMT
  <2>2. <<0, e, f, g>> \in Limbs
    BY <1>1, FourLimbs, SMT
  <2> QED
    BY <1>4, <2>1, <2>2, SMT
<1>7. ~Above(Second, HalfOf(w))
  BY <1>1, <1>2, <1>4, LimbOrder, SMT DEF Second
<1>8. Above(w, HalfOf(w))
  BY <1>1, <1>3, <1>4, LimbOrder, SMT
<1>9. ~Above(w, MaxWait)
  BY LimbOrder, SMT DEF MaxWait
<1> QED
  BY <1>5, <1>6, <1>7, <1>8, <1>9

\* The 34th shift sets the sign bit, and the minimum lets it pass.
LEMMA PanicsAt34 == 34 =< MaxAttempt => Panics(34)
  BY ShiftedValues, SMT DEF Panics, Capped, Delay, Exceeds

-----------------------------------------------------------------------------
\* The wait follows from the counter, and the feed is gone when the counter is 34.
LoopsInv ==
    /\ attempt \in 0 .. MaxAttempt /\ feed \in {"running", "waiting", "panicked"}
    /\ IF feed = "panicked" THEN attempt = 34 ELSE attempt =< 33
    /\ {low, high} \subseteq Limbs
    /\ feed = "waiting" => IsWait(high) /\ low = HalfOf(high)
    /\ backoff \in {1, 2, 4, 8, 16, 32}

LEMMA LoopsInit == ReconnectInit => LoopsInv
<1>1. Zero \in Limbs
  BY FourLimbs, SMT DEF Zero
<1> QED
  BY <1>1, ReconnectConstants DEF ReconnectInit, LoopsInv

LEMMA LoopsStep == LoopsInv /\ [ReconnectNext]_reconnectVars => LoopsInv'
<1> SUFFICES ASSUME LoopsInv, [ReconnectNext]_reconnectVars
             PROVE  LoopsInv'
  OBVIOUS
<1>1. CASE FeedFalls
  <2>1. attempt + 1 \in 1 .. MaxAttempt /\ attempt + 1 =< 34
    BY <1>1, ReconnectConstants DEF FeedFalls, LoopsInv
  <2>2. CASE attempt + 1 =< 33
    <3>1. IsWait(Capped(attempt + 1))
      BY <2>1, <2>2, CappedValues
    <3>2. ~Panics(attempt + 1)
      BY <3>1, WaitsAreSound DEF Panics
    <3> QED
      BY <1>1, <2>1, <2>2, <3>1, <3>2, WaitsAreSound DEF FeedFalls, LoopsInv
  <2>3. CASE attempt + 1 = 34
    <3>1. Panics(attempt + 1)
      BY <2>1, <2>3, PanicsAt34
    <3> QED
      BY <1>1, <2>1, <2>3, <3>1 DEF FeedFalls, LoopsInv
  <2> QED
    BY <2>1, <2>2, <2>3
<1>2. CASE FeedRetries
  BY <1>2 DEF FeedRetries, LoopsInv
<1>3. CASE TraderFalls
  BY <1>3 DEF TraderFalls, Doubled, feedVars, LoopsInv
<1>4. CASE UNCHANGED reconnectVars
  BY <1>4 DEF reconnectVars, feedVars, LoopsInv
<1> QED
  BY <1>1, <1>2, <1>3, <1>4 DEF ReconnectNext

\* Over any number of connections that end: a wait is at least a second and less
\* than 30, the trading client's at most 32 seconds, and the feed lives through 33
\* failures and is ended by the 34th.
THEOREM TheWaitsAreBounded == ReconnectSpec => []BackoffIsSafe
<1>1. LoopsInv => BackoffIsSafe
  <2> SUFFICES ASSUME LoopsInv
               PROVE  BackoffIsSafe
    OBVIOUS
  <2>1. ReconnectTypeOK /\ FeedDiesAt34
    BY DEF LoopsInv, ReconnectTypeOK, FeedDiesAt34
  <2>2. WaitsBounded
    BY WaitsAreSound DEF LoopsInv, WaitsBounded
  <2> QED
    BY <2>1, <2>2 DEF BackoffIsSafe
<1> QED
  BY <1>1, LoopsInit, LoopsStep, PTL DEF ReconnectSpec

-----------------------------------------------------------------------------
(***************************************************************************)
(* TickWriter.  First the sequences: the halves of a batch, and what one   *)
(* write of the socket moves from the batch to the stream.                 *)
(***************************************************************************)

\* A second half comes right after the first half of its row.
RowsWhole(s) ==
    \A i \in 2 .. Len(s) : s[i][2] = 2 => s[i-1] = <<s[i][1], 1>>

\* What is left continues the stream: if it begins with a second half, the stream
\* ends in the first.
Continues(s, l) ==
    (l # <<>> /\ l[1][2] = 2) => (s # <<>> /\ s[Len(s)] = <<l[1][1], 1>>)

StartsWhole(l) == l # <<>> => l[1][2] # 2

LEMMA BatchInHalves ==
    ASSUME NEW rows \in Seq(Rows), IsInjective(rows)
    PROVE  /\ BothHalves(rows) \in Seq(Halves) /\ IsInjective(BothHalves(rows))
           /\ Range(BothHalves(rows)) = Range(rows) \X {1, 2}
           /\ RowsWhole(BothHalves(rows)) /\ StartsWhole(BothHalves(rows))
<1> DEFINE s == BothHalves(rows)
           n == Len(rows)
<1>1. /\ n \in Nat /\ DOMAIN rows = 1 .. n /\ 2 * n \in Nat
      /\ \A i \in 1 .. n : rows[i] \in Rows
  OBVIOUS
<1>2. s = [k \in 1 .. 2 * n |-> <<rows[(k + 1) \div 2], 2 - (k % 2)>>]
  BY DEF BothHalves
<1> HIDE DEF s, n
<1>3. \A k \in 1 .. 2 * n : /\ (k + 1) \div 2 \in 1 .. n /\ 2 - (k % 2) \in {1, 2}
                            /\ s[k] = <<rows[(k + 1) \div 2], 2 - (k % 2)>>
  BY <1>1, <1>2
<1>4. DOMAIN s = 1 .. 2 * n /\ s \in Seq(Halves) /\ Len(s) = 2 * n
  <2>1. ASSUME NEW k \in 1 .. 2 * n
        PROVE  s[k] \in Halves
    <3>1. rows[(k + 1) \div 2] \in Rows /\ 2 - (k % 2) \in {1, 2}
      BY <1>1, <1>3
    <3>2. \A x \in Rows, y \in {1, 2} : <<x, y>> \in Halves
      BY DEF Halves
    <3> QED
      BY <1>3, <3>1, <3>2
  <2>2. DOMAIN s = 1 .. 2 * n /\ s = [k \in 1 .. 2 * n |-> s[k]]
    BY <1>2
  <2>3. s \in [1 .. 2 * n -> Halves]
    BY <2>1, <2>2
  <2> QED
    BY <1>1, <2>2, <2>3
<1>5. IsInjective(s)
  <2> SUFFICES ASSUME NEW j \in 1 .. 2 * n, NEW k \in 1 .. 2 * n, s[j] = s[k]
               PROVE  j = k
    BY <1>4 DEF IsInjective
  <2>1. rows[(j + 1) \div 2] = rows[(k + 1) \div 2] /\ 2 - (j % 2) = 2 - (k % 2)
    BY <1>3
  <2>2. (j + 1) \div 2 = (k + 1) \div 2
    BY <1>1, <1>3, <2>1 DEF IsInjective
  <2> QED
    BY <1>1, <2>1, <2>2
<1>6. Range(s) = Range(rows) \X {1, 2}
  <2>1. ASSUME NEW h \in Range(s)
        PROVE  h \in Range(rows) \X {1, 2}
    <3>1. PICK k \in 1 .. 2 * n : h = s[k]
      BY <1>4, <2>1 DEF Range
    <3>2. rows[(k + 1) \div 2] \in Range(rows) /\ 2 - (k % 2) \in {1, 2}
      BY <1>1, <1>3 DEF Range
    <3>3. \A x \in Range(rows), y \in {1, 2} : <<x, y>> \in Range(rows) \X {1, 2}
      OBVIOUS
    <3> QED
      BY <1>3, <3>1, <3>2, <3>3
  <2>2. ASSUME NEW i \in 1 .. n, NEW b \in {1, 2}
        PROVE  <<rows[i], b>> \in Range(s)
    <3> DEFINE k == 2 * i - 2 + b
    <3>1. k \in 1 .. 2 * n /\ (k + 1) \div 2 = i /\ 2 - (k % 2) = b
      BY <1>1
    <3> HIDE DEF k
    <3> QED
      BY <1>3, <1>4, <3>1 DEF Range
  <2> QED
    BY <1>1, <2>1, <2>2, SMTT(20) DEF Range
<1>7. RowsWhole(s)
  <2> SUFFICES ASSUME NEW i \in 2 .. Len(s), s[i][2] = 2
               PROVE  s[i-1] = <<s[i][1], 1>>
    BY DEF RowsWhole
  <2>1. i \in 1 .. 2 * n /\ i - 1 \in 1 .. 2 * n
    BY <1>1, <1>4
  <2>2. 2 - (i % 2) = 2 /\ s[i][1] = rows[(i + 1) \div 2]
    <3>1. s[i] = <<rows[(i + 1) \div 2], 2 - (i % 2)>>
      BY <1>3, <2>1, Zenon
    <3> QED
      BY <3>1
  <2>3. ((i - 1) + 1) \div 2 = (i + 1) \div 2 /\ 2 - ((i - 1) % 2) = 1
    BY <2>1, <2>2
  <2> QED
    BY <1>3, <2>1, <2>2, <2>3
<1>8. StartsWhole(s)
  <2> SUFFICES ASSUME s # <<>>
               PROVE  s[1][2] # 2
    BY DEF StartsWhole
  <2>1. 1 \in 1 .. 2 * n
    BY <1>1, <1>4
  <2> QED
    BY <1>3, <2>1
<1> QED
  BY <1>4, <1>5, <1>6, <1>7, <1>8 DEF s

\* n halves go from what is left, l, to the stream, s.
LEMMA Chunk ==
    ASSUME NEW S, NEW s \in Seq(S), NEW l \in Seq(S), NEW n \in 0 .. Len(l)
    PROVE  LET t == s \o SubSeq(l, 1, n)
               r == SubSeq(l, n + 1, Len(l))
           IN /\ t \in Seq(S) /\ Len(t) = Len(s) + n
              /\ \A i \in 1 .. Len(s) : t[i] = s[i]
              /\ \A i \in 1 .. n : t[Len(s) + i] = l[i]
              /\ r \in Seq(S) /\ Len(r) = Len(l) - n
              /\ \A i \in 1 .. Len(l) - n : r[i] = l[n + i]
<1> DEFINE p == SubSeq(l, 1, n)
           r == SubSeq(l, n + 1, Len(l))
           t == s \o p
<1>1. Len(l) \in Nat /\ Len(s) \in Nat /\ n \in Int /\ \A i \in 1 .. Len(l) : l[i] \in S
  OBVIOUS
<1>2. /\ p \in Seq(S) /\ Len(p) = (IF 1 <= n THEN n - 1 + 1 ELSE 0)
      /\ \A i \in 1 .. n - 1 + 1 : p[i] = l[1 + i - 1]
  BY <1>1, SubSeqProperties
<1>3. /\ r \in Seq(S)
      /\ Len(r) = (IF n + 1 <= Len(l) THEN Len(l) - (n + 1) + 1 ELSE 0)
      /\ \A i \in 1 .. Len(l) - (n + 1) + 1 : r[i] = l[(n + 1) + i - 1]
  <2>1. \A i \in n + 1 .. Len(l) : l[i] \in S
    BY <1>1
  <2>2. n + 1 \in Int /\ Len(l) \in Int
    BY <1>1
  <2> QED
    BY <2>1, <2>2, SubSeqProperties
<1> HIDE DEF p, r
<1>4. Len(p) = n /\ \A i \in 1 .. n : p[i] = l[i]
  BY <1>1, <1>2
<1>5. Len(r) = Len(l) - n /\ \A i \in 1 .. Len(l) - n : r[i] = l[n + i]
  <2>1. Len(r) = Len(l) - n
    BY <1>1, <1>3
  <2>2. ASSUME NEW i \in 1 .. Len(l) - n
        PROVE  r[i] = l[n + i]
    <3>1. i \in 1 .. Len(l) - (n + 1) + 1 /\ (n + 1) + i - 1 = n + i
      BY <1>1
    <3> QED
      BY <1>3, <3>1
  <2> QED
    BY <2>1, <2>2
<1>6. /\ t \in Seq(S) /\ Len(t) = Len(s) + Len(p)
      /\ \A i \in 1 .. Len(s) + Len(p) : t[i] = IF i <= Len(s) THEN s[i] ELSE p[i - Len(s)]
  BY <1>2, ConcatProperties
<1> HIDE DEF t
<1>7. \A i \in 1 .. Len(s) : t[i] = s[i]
  BY <1>1, <1>4, <1>6
<1>8. ASSUME NEW i \in 1 .. n
      PROVE  t[Len(s) + i] = l[i]
  <2>1. /\ Len(s) + i \in 1 .. Len(s) + Len(p) /\ ~(Len(s) + i <= Len(s))
        /\ (Len(s) + i) - Len(s) = i
    BY <1>1, <1>4
  <2> QED
    BY <1>4, <1>6, <2>1
<1> QED
  BY <1>3, <1>4, <1>5, <1>6, <1>7, <1>8 DEF p, r, t

LEMMA ChunkMoves ==
    ASSUME NEW s \in Seq(Halves), NEW l \in Seq(Halves), NEW n \in 0 .. Len(l)
    PROVE  LET t == s \o SubSeq(l, 1, n)
               r == SubSeq(l, n + 1, Len(l))
           IN /\ t \in Seq(Halves) /\ r \in Seq(Halves)
              /\ Range(t) \cup Range(r) = Range(s) \cup Range(l)
              /\ Range(s) \subseteq Range(t) /\ Range(r) \subseteq Range(l)
              /\ IsInjective(s) /\ IsInjective(l) /\ Range(s) \cap Range(l) = {}
                   => IsInjective(t) /\ IsInjective(r) /\ Range(t) \cap Range(r) = {}
              /\ RowsWhole(l) => RowsWhole(r)
              /\ RowsWhole(s) /\ RowsWhole(l) /\ Continues(s, l)
                   => RowsWhole(t) /\ Continues(t, r)
<1> DEFINE t == s \o SubSeq(l, 1, n)
           r == SubSeq(l, n + 1, Len(l))
<1>1. /\ t \in Seq(Halves) /\ Len(t) = Len(s) + n
      /\ \A i \in 1 .. Len(s) : t[i] = s[i]
      /\ \A i \in 1 .. n : t[Len(s) + i] = l[i]
      /\ r \in Seq(Halves) /\ Len(r) = Len(l) - n
      /\ \A i \in 1 .. Len(l) - n : r[i] = l[n + i]
  BY Chunk
<1> HIDE DEF t, r
<1>2. /\ Len(s) \in Nat /\ Len(l) \in Nat /\ n \in Nat /\ n =< Len(l)
      /\ DOMAIN s = 1 .. Len(s) /\ DOMAIN l = 1 .. Len(l)
      /\ DOMAIN t = 1 .. Len(s) + n /\ DOMAIN r = 1 .. Len(l) - n
  BY <1>1
<1>3. \A i \in Len(s) + 1 .. Len(s) + n : t[i] = l[i - Len(s)]
  <2> SUFFICES ASSUME NEW i \in Len(s) + 1 .. Len(s) + n
               PROVE  t[i] = l[i - Len(s)]
    OBVIOUS
  <2>1. i - Len(s) \in 1 .. n /\ Len(s) + (i - Len(s)) = i
    BY <1>2
  <2> QED
    BY <1>1, <2>1
<1>4. Range(s) \subseteq Range(t)
  BY <1>1, <1>2 DEF Range
<1>5. Range(r) \subseteq Range(l)
  <2>1. ASSUME NEW i \in 1 .. Len(l) - n
        PROVE  r[i] = l[n + i] /\ n + i \in 1 .. Len(l)
    BY <1>1, <1>2
  <2> QED
    BY <1>2, <2>1 DEF Range
<1>6. Range(t) \subseteq Range(s) \cup Range(l)
  <2> SUFFICES ASSUME NEW i \in 1 .. Len(s) + n
               PROVE  t[i] \in Range(s) \cup Range(l)
    BY <1>2 DEF Range
  <2>1. CASE i \in 1 .. Len(s)
    BY <1>1, <1>2, <2>1 DEF Range
  <2>2. CASE i \in Len(s) + 1 .. Len(s) + n
    <3>1. i - Len(s) \in 1 .. Len(l) /\ t[i] = l[i - Len(s)]
      BY <1>2, <1>3, <2>2
    <3> QED
      BY <1>2, <3>1 DEF Range
  <2> QED
    BY <1>2, <2>1, <2>2
<1>7. Range(l) \subseteq Range(t) \cup Range(r)
  <2> SUFFICES ASSUME NEW i \in 1 .. Len(l)
               PROVE  l[i] \in Range(t) \cup Range(r)
    BY <1>2 DEF Range
  <2>1. CASE i =< n
    <3>1. Len(s) + i \in 1 .. Len(s) + n /\ i \in 1 .. n
      BY <1>2, <2>1
    <3> QED
      BY <1>1, <1>2, <3>1 DEF Range
  <2>2. CASE i > n
    <3>1. i - n \in 1 .. Len(l) - n /\ n + (i - n) = i
      BY <1>2, <2>2
    <3> QED
      BY <1>1, <1>2, <3>1 DEF Range
  <2> QED
    BY <1>2, <2>1, <2>2
<1>8. ASSUME IsInjective(s), IsInjective(l), Range(s) \cap Range(l) = {}
      PROVE  IsInjective(t) /\ IsInjective(r) /\ Range(t) \cap Range(r) = {}
  <2>1. \A i \in 1 .. Len(s), j \in 1 .. Len(l) : s[i] # l[j]
    BY <1>2, <1>8 DEF Range
  <2>2. \A i, j \in 1 .. Len(s) : s[i] = s[j] => i = j
    BY <1>2, <1>8 DEF IsInjective
  <2>3. \A i, j \in 1 .. Len(l) : l[i] = l[j] => i = j
    BY <1>2, <1>8 DEF IsInjective
  <2>4. IsInjective(t)
    <3> SUFFICES ASSUME NEW i \in 1 .. Len(s) + n, NEW j \in 1 .. Len(s) + n, t[i] = t[j]
                 PROVE  i = j
      BY <1>2 DEF IsInjective
    <3>1. CASE i \in 1 .. Len(s) /\ j \in 1 .. Len(s)
      BY <1>1, <2>2, <3>1
    <3>2. CASE i \in Len(s) + 1 .. Len(s) + n /\ j \in Len(s) + 1 .. Len(s) + n
      <4>1. i - Len(s) \in 1 .. Len(l) /\ j - Len(s) \in 1 .. Len(l)
        BY <1>2, <3>2
      <4>2. i - Len(s) = j - Len(s)
        BY <1>3, <2>3, <3>2, <4>1
      <4> QED
        BY <1>2, <4>2
    <3>3. ASSUME NEW x \in 1 .. Len(s), NEW y \in Len(s) + 1 .. Len(s) + n
          PROVE  t[x] # t[y]
      <4>1. y - Len(s) \in 1 .. Len(l)
        BY <1>2
      <4> QED
        BY <1>1, <1>3, <2>1, <4>1, ZenonT(40)
    <3> QED
      BY <1>2, <3>1, <3>2, <3>3
  <2>5. \A i \in 1 .. Len(l) - n : n + i \in 1 .. Len(l) /\ r[i] = l[n + i]
    BY <1>1, <1>2
  <2>6. IsInjective(r)
    <3> SUFFICES ASSUME NEW i \in 1 .. Len(l) - n, NEW j \in 1 .. Len(l) - n, r[i] = r[j]
                 PROVE  i = j
      BY <1>2 DEF IsInjective
    <3>1. n + i = n + j
      BY <2>3, <2>5
    <3> QED
      BY <1>2, <3>1
  <2>7. Range(t) \cap Range(r) = {}
    <3> SUFFICES ASSUME NEW i \in 1 .. Len(s) + n, NEW j \in 1 .. Len(l) - n, t[i] = r[j]
                 PROVE  FALSE
      BY <1>2 DEF Range
    <3>1. CASE i \in 1 .. Len(s)
      BY <1>1, <2>1, <2>5, <3>1
    <3>2. CASE i \in Len(s) + 1 .. Len(s) + n
      <4>1. i - Len(s) \in 1 .. Len(l) /\ i - Len(s) =< n
        BY <1>2, <3>2
      <4>2. i - Len(s) = n + j
        BY <1>3, <2>3, <2>5, <3>2, <4>1
      <4> QED
        BY <1>2, <4>1, <4>2
    <3> QED
      BY <1>2, <3>1, <3>2
  <2> QED
    BY <2>4, <2>6, <2>7
<1>9. ASSUME RowsWhole(l)
      PROVE  RowsWhole(r)
  <2> SUFFICES ASSUME NEW i \in 2 .. Len(r), r[i][2] = 2
               PROVE  r[i-1] = <<r[i][1], 1>>
    BY DEF RowsWhole
  <2>1. /\ i \in 1 .. Len(l) - n /\ i - 1 \in 1 .. Len(l) - n
        /\ n + i \in 2 .. Len(l) /\ n + (i - 1) = (n + i) - 1
    BY <1>1, <1>2
  <2>2. r[i] = l[n + i] /\ r[i-1] = l[(n + i) - 1]
    BY <1>1, <2>1
  <2> QED
    BY <1>9, <2>1, <2>2 DEF RowsWhole
<1>10. ASSUME RowsWhole(s), RowsWhole(l), Continues(s, l)
       PROVE  RowsWhole(t) /\ Continues(t, r)
  <2>1. ASSUME NEW i \in 2 .. Len(t), t[i][2] = 2
        PROVE  t[i-1] = <<t[i][1], 1>>
    <3>1. CASE i \in 2 .. Len(s)
      <4>1. i - 1 \in 1 .. Len(s) /\ i \in 1 .. Len(s)
        BY <1>2, <3>1
      <4>2. t[i] = s[i] /\ t[i-1] = s[i-1]
        BY <1>1, <4>1
      <4> QED
        BY <1>10, <2>1, <3>1, <4>2 DEF RowsWhole
    <3>2. CASE i = Len(s) + 1
      <4>1. n >= 1 /\ l # <<>> /\ Len(s) \in 1 .. Len(s) /\ 1 \in 1 .. n
        BY <1>1, <1>2, <2>1, <3>2
      <4>2. t[i] = l[1] /\ t[i-1] = s[Len(s)]
        BY <1>1, <1>2, <3>2, <4>1
      <4> QED
        BY <1>10, <2>1, <4>1, <4>2 DEF Continues
    <3>3. CASE i \in Len(s) + 2 .. Len(s) + n
      <4>1. /\ i - Len(s) \in 2 .. Len(l) /\ (i - 1) - Len(s) = (i - Len(s)) - 1
            /\ i \in Len(s) + 1 .. Len(s) + n /\ i - 1 \in Len(s) + 1 .. Len(s) + n
        BY <1>2, <3>3
      <4>2. t[i] = l[i - Len(s)] /\ t[i-1] = l[(i - Len(s)) - 1]
        BY <1>3, <4>1
      <4> QED
        BY <1>10, <2>1, <4>1, <4>2 DEF RowsWhole
    <3> QED
      BY <1>1, <1>2, <3>1, <3>2, <3>3
  <2>2. ASSUME r # <<>>, r[1][2] = 2
        PROVE  t # <<>> /\ t[Len(t)] = <<r[1][1], 1>>
    <3>1. 1 \in 1 .. Len(l) - n /\ r[1] = l[n + 1]
      BY <1>1, <1>2, <2>2
    <3>2. CASE n = 0
      <4>1. l # <<>> /\ l[1][2] = 2 /\ Len(t) = Len(s)
        BY <1>1, <1>2, <2>2, <3>1, <3>2
      <4>2. s # <<>> /\ s[Len(s)] = <<l[1][1], 1>>
        BY <1>10, <4>1 DEF Continues
      <4>3. Len(s) \in 1 .. Len(s)
        BY <1>2, <4>2
      <4> QED
        BY <1>1, <1>2, <3>1, <3>2, <4>1, <4>2, <4>3
    <3>3. CASE n > 0
      <4>1. n + 1 \in 2 .. Len(l) /\ (n + 1) - 1 = n /\ n \in 1 .. n
        BY <1>2, <3>1, <3>3
      <4>2. l[n] = <<l[n + 1][1], 1>>
        BY <1>10, <2>2, <3>1, <4>1 DEF RowsWhole
      <4>3. t[Len(t)] = l[n]
        BY <1>1, <4>1
      <4> QED
        BY <1>1, <1>2, <3>1, <3>3, <4>2, <4>3
    <3> QED
      BY <1>2, <3>2, <3>3
  <2> QED
    BY <2>1, <2>2 DEF RowsWhole, Continues
<1> QED
  BY <1>1, <1>4, <1>5, <1>6, <1>7, <1>8, <1>9, <1>10 DEF t, r

-----------------------------------------------------------------------------
(***************************************************************************)
(* Where a row is.  Each holder of rows is disjoint from every other, what *)
(* is left to write has reached no stream, and the second half of a row    *)
(* that nobody holds has.                                                  *)
(***************************************************************************)
WriterShape ==
    /\ arrived \in 0 .. MaxTicks /\ dials \in Conns /\ wconn \in 0 .. dials
    /\ buf \in Seq(Rows) /\ batch \in [Flushers -> Seq(Rows)]
    /\ left \in [Flushers -> Seq(Halves)]
    /\ flushAt \in [Flushers -> FlushPlace] /\ using \in [Flushers -> 0 .. dials]
    /\ dead \subseteq 1 .. dials /\ breaks \in 0 .. MaxBreaks
    /\ stream \in [1 .. MaxDials -> Seq(Halves)]
    /\ lostRows \subseteq Rows /\ overlapped \in BOOLEAN /\ writerDown \in BOOLEAN

Quiet == {"off", "idle", "flush"}

QuietAreEmpty == \A f \in Flushers : flushAt[f] \in Quiet => batch[f] = <<>> /\ left[f] = <<>>

BufferFits ==
    /\ Len(buf) =< BatchSize
    /\ flushAt["handler"] # "flush" => Len(buf) < BatchSize

StartsOnce ==
    \A f \in Flushers : flushAt[f] = "off" => dials = 0 /\ \A g \in Flushers : flushAt[g] = "off"

HeldOnce ==
    /\ Range(buf) \subseteq 1 .. arrived /\ lostRows \subseteq 1 .. arrived
    /\ Range(buf) \cap lostRows = {} /\ IsInjective(buf)
    /\ \A f \in Flushers : /\ Taken(f) \subseteq 1 .. arrived
                           /\ Taken(f) \cap Range(buf) = {} /\ Taken(f) \cap lostRows = {}
    /\ \A f, g \in Flushers : f # g => Taken(f) \cap Taken(g) = {}

HalvesLeft ==
    \A f \in Flushers :
        /\ IsInjective(left[f]) /\ Range(left[f]) \subseteq Taken(f) \X {1, 2}
        /\ \A c \in 1 .. MaxDials : Range(left[f]) \cap Range(stream[c]) = {}

HalvesSent ==
    /\ \A c \in 1 .. MaxDials :
         /\ IsInjective(stream[c])
         /\ \A h \in Range(stream[c]) : h[1] \in (1 .. arrived) \ Range(buf)
    /\ \A c, d \in 1 .. MaxDials : c # d => Range(stream[c]) \cap Range(stream[d]) = {}

NoneMissing ==
    \A r \in 1 .. arrived :
        \/ r \in Range(buf) \/ r \in lostRows \/ OnTable(r)
        \/ \E f \in Flushers : <<r, 2>> \in Range(left[f])

\* Where no two flushes have overlapped: one flush at a time, on the connection of
\* the field, whose stream it continues.
OneAtATime ==
    ~overlapped =>
        \A f, g \in Flushers : f = g \/ flushAt[f] \in Quiet \/ flushAt[g] \in Quiet

Continuing ==
    ~overlapped =>
        /\ \A c \in 1 .. MaxDials : RowsWhole(stream[c])
        /\ \A f \in Flushers :
             /\ flushAt[f] = "open" => wconn # 0
             /\ flushAt[f] \in {"check", "dial", "open"} => StartsWhole(left[f])
             /\ flushAt[f] = "write" => /\ using[f] = wconn /\ wconn # 0
                                        /\ Continues(stream[wconn], left[f])

LeftWhole == \A f \in Flushers : RowsWhole(left[f])

\* A nil connection at or past the check comes of a connection that was closed.
NilIsAfterALoss ==
    /\ \A f \in Flushers : /\ flushAt[f] = "open" /\ wconn = 0 => dead # {}
                           /\ flushAt[f] = "write" /\ using[f] = 0 => dead # {}
    /\ writerDown => overlapped /\ dead # {}

RowInv == HeldOnce /\ HalvesLeft /\ HalvesSent /\ NoneMissing
FlushInv == OneAtATime /\ Continuing /\ LeftWhole /\ NilIsAfterALoss
WriterInv ==
    WriterShape /\ QuietAreEmpty /\ BufferFits /\ StartsOnce /\ RowInv /\ FlushInv

LEMMA NoElements ==
    /\ \A S : <<>> \in Seq(S)
    /\ Range(<<>>) = {} /\ IsInjective(<<>>) /\ Len(<<>>) = 0
    /\ RowsWhole(<<>>) /\ StartsWhole(<<>>)
<1>1. DOMAIN <<>> = 1 .. 0 /\ Len(<<>>) = 0 /\ 1 .. 0 = {} /\ 2 .. 0 = {}
  OBVIOUS
<1> QED
  BY <1>1 DEF Range, IsInjective, RowsWhole, StartsWhole

LEMMA WriterInitInv == WriterInit => WriterInv
<1> SUFFICES ASSUME WriterInit
             PROVE  WriterInv
  OBVIOUS
<1>1. WriterShape
  <2>1. /\ arrived \in 0 .. MaxTicks /\ dials \in Conns /\ wconn \in 0 .. dials
        /\ dead \subseteq 1 .. dials /\ breaks \in 0 .. MaxBreaks
    BY TickWriterConstants DEF WriterInit, Conns
  <2>2. /\ buf \in Seq(Rows) /\ batch \in [Flushers -> Seq(Rows)]
        /\ left \in [Flushers -> Seq(Halves)] /\ stream \in [1 .. MaxDials -> Seq(Halves)]
    BY DEF WriterInit
  <2>3. flushAt \in [Flushers -> FlushPlace] /\ using \in [Flushers -> 0 .. dials]
    BY DEF WriterInit, FlushPlace
  <2> QED
    BY <2>1, <2>2, <2>3 DEF WriterInit, WriterShape
<1>2. QuietAreEmpty /\ StartsOnce
  BY DEF WriterInit, QuietAreEmpty, StartsOnce
<1>3. BufferFits
  BY TickWriterConstants, NoElements DEF WriterInit, BufferFits
<1>4. /\ Range(buf) = {} /\ IsInjective(buf)
      /\ \A f \in Flushers : batch[f] = <<>> /\ left[f] = <<>>
      /\ \A c \in 1 .. MaxDials : stream[c] = <<>>
  BY NoElements DEF WriterInit
<1>5. HeldOnce
  BY <1>4, NoElements DEF WriterInit, HeldOnce, Taken
<1>6. HalvesLeft /\ HalvesSent
  BY <1>4, NoElements DEF HalvesLeft, HalvesSent
<1>7. NoneMissing
  BY DEF WriterInit, NoneMissing
<1>8. OneAtATime /\ LeftWhole
  BY <1>4, NoElements DEF WriterInit, OneAtATime, LeftWhole, Quiet
<1>9. Continuing /\ NilIsAfterALoss
  BY <1>4, NoElements DEF WriterInit, Continuing, NilIsAfterALoss
<1> QED
  BY <1>1, <1>2, <1>3, <1>5, <1>6, <1>7, <1>8, <1>9 DEF WriterInv, RowInv, FlushInv

\* The steps that move no row.
LEMMA RowsStay ==
    ASSUME RowInv, UNCHANGED <<arrived, buf, batch, left, stream, lostRows>>
    PROVE  RowInv' /\ (LeftWhole => LeftWhole')
  BY DEF RowInv, HeldOnce, HalvesLeft, HalvesSent, NoneMissing, LeftWhole, Taken, OnTable

LEMMA StartWriterStep == WriterInv /\ StartWriter => WriterInv'
<1> SUFFICES ASSUME WriterInv, StartWriter
             PROVE  WriterInv'
  OBVIOUS
<1>1. /\ UNCHANGED <<arrived, buf, batch, left, stream, lostRows, using, dead, breaks,
                     overlapped, writerDown>>
      /\ flushAt' = [f \in Flushers |-> "idle"] /\ wconn' \in {0, 1} /\ dials' = wconn'
      /\ \A f \in Flushers : flushAt[f] = "off"
  BY DEF StartWriter
<1>2. dials = 0
  BY <1>1 DEF WriterInv, StartsOnce, Flushers
<1>3. WriterShape'
  <2>1. dials' \in Conns /\ wconn' \in 0 .. dials' /\ 0 .. dials \subseteq 0 .. dials'
    BY <1>1, <1>2, TickWriterConstants DEF Conns
  <2>2. dead' = {} /\ using' \in [Flushers -> 0 .. dials']
    BY <1>1, <1>2, <2>1 DEF WriterInv, WriterShape
  <2> QED
    BY <1>1, <2>1, <2>2 DEF WriterInv, WriterShape, FlushPlace
<1>4. QuietAreEmpty' /\ BufferFits' /\ StartsOnce'
  BY <1>1 DEF WriterInv, QuietAreEmpty, BufferFits, StartsOnce, Quiet, Flushers
<1>5. RowInv' /\ LeftWhole'
  BY <1>1, RowsStay DEF WriterInv, FlushInv
<1>6. OneAtATime' /\ Continuing' /\ NilIsAfterALoss'
  BY <1>1 DEF WriterInv, FlushInv, OneAtATime, Continuing, NilIsAfterALoss, Quiet
<1> QED
  BY <1>3, <1>4, <1>5, <1>6 DEF WriterInv, FlushInv

LEMMA TickerFiresStep == WriterInv /\ TickerFires => WriterInv'
<1> SUFFICES ASSUME WriterInv, TickerFires
             PROVE  WriterInv'
  OBVIOUS
<1>1. /\ UNCHANGED <<arrived, buf, batch, left, using, wconn, dials, dead, breaks, stream,
                     lostRows, overlapped, writerDown>>
      /\ flushAt["ticker"] = "idle" /\ flushAt' = [flushAt EXCEPT !["ticker"] = "flush"]
  BY DEF TickerFires, FlushGoto, connVars
<1>2. WriterShape'
  BY <1>1 DEF WriterInv, WriterShape, FlushPlace
<1>3. \A f \in Flushers : flushAt'[f] = IF f = "ticker" THEN "flush" ELSE flushAt[f]
  BY <1>1 DEF WriterInv, WriterShape
<1>4. QuietAreEmpty' /\ BufferFits' /\ StartsOnce'
  BY <1>1, <1>3 DEF WriterInv, QuietAreEmpty, BufferFits, StartsOnce, Quiet, Flushers
<1>5. RowInv' /\ LeftWhole'
  BY <1>1, RowsStay DEF WriterInv, FlushInv
<1>6. OneAtATime' /\ Continuing' /\ NilIsAfterALoss'
  BY <1>1, <1>3 DEF WriterInv, FlushInv, OneAtATime, Continuing, NilIsAfterALoss, Quiet
<1> QED
  BY <1>2, <1>4, <1>5, <1>6 DEF WriterInv, FlushInv

\* One flusher goes from place to place.
LEMMA Goes ==
    ASSUME NEW f \in Flushers, NEW place \in FlushPlace, WriterShape, FlushGoto(f, place)
    PROVE  /\ flushAt' \in [Flushers -> FlushPlace]
           /\ \A g \in Flushers : flushAt'[g] = IF g = f THEN place ELSE flushAt[g]
  BY DEF WriterShape, FlushGoto

LEMMA HandleStep == WriterInv /\ Handle => WriterInv'
<1> SUFFICES ASSUME WriterInv, Handle
             PROVE  WriterInv'
  OBVIOUS
<1> DEFINE place == IF IsFull(Len(buf) + 1) THEN "flush" ELSE "idle"
<1>1. /\ UNCHANGED <<batch, left, using, wconn, dials, dead, breaks, stream, lostRows,
                     overlapped, writerDown>>
      /\ flushAt["handler"] = "idle" /\ arrived < MaxTicks
      /\ arrived' = arrived + 1 /\ buf' = Append(buf, arrived + 1)
      /\ FlushGoto("handler", place)
  BY DEF Handle, connVars
<1>2. /\ flushAt' \in [Flushers -> FlushPlace]
      /\ \A g \in Flushers : flushAt'[g] = IF g = "handler" THEN place ELSE flushAt[g]
  BY <1>1, Goes DEF WriterInv, FlushPlace, Flushers
<1>3. /\ arrived' \in 1 .. MaxTicks /\ arrived' \in Rows /\ arrived' = arrived + 1
      /\ 1 .. arrived' = (1 .. arrived) \cup {arrived'} /\ arrived' \notin 1 .. arrived
  BY <1>1, TickWriterConstants, SMTT(20) DEF WriterInv, WriterShape, Rows
<1>4. /\ buf' \in Seq(Rows) /\ Len(buf') = Len(buf) + 1 /\ Len(buf) \in Nat
      /\ Range(buf') = Range(buf) \cup {arrived'}
      /\ arrived' \notin Range(buf) /\ IsInjective(buf) => IsInjective(buf')
  <2>1. buf \in Seq(Rows) /\ buf' = Append(buf, arrived')
    BY <1>1 DEF WriterInv, WriterShape
  <2>2. /\ buf' \in Seq(Rows) /\ Len(buf) \in Nat /\ Len(buf') = Len(buf) + 1
        /\ DOMAIN buf = 1 .. Len(buf) /\ DOMAIN buf' = 1 .. Len(buf) + 1
        /\ \A i \in 1 .. Len(buf) : buf'[i] = buf[i]
        /\ buf'[Len(buf) + 1] = arrived'
    BY <1>3, <2>1
  <2>3. 1 .. Len(buf) + 1 = (1 .. Len(buf)) \cup {Len(buf) + 1}
    BY <2>2
  <2>4. Range(buf') = Range(buf) \cup {arrived'}
    BY <2>2, <2>3 DEF Range
  <2>5. arrived' \notin Range(buf) /\ IsInjective(buf) => IsInjective(buf')
    BY <2>2, <2>3 DEF Range, IsInjective
  <2> QED
    BY <2>2, <2>4, <2>5
<1>5. WriterShape'
  BY <1>1, <1>2, <1>3, <1>4 DEF WriterInv, WriterShape
<1>6. QuietAreEmpty' /\ StartsOnce'
  BY <1>1, <1>2 DEF WriterInv, QuietAreEmpty, StartsOnce, Quiet, Flushers
<1>7. BufferFits'
  <2>1. Len(buf) < BatchSize /\ BatchSize \in Nat
    BY <1>1, TickWriterConstants DEF WriterInv, BufferFits
  <2>2. flushAt'["handler"] # "flush" => ~(Len(buf) + 1 >= BatchSize)
    BY <1>2 DEF IsFull, Flushers
  <2> QED
    BY <1>4, <2>1, <2>2 DEF BufferFits
<1>8. HeldOnce'
  BY <1>1, <1>3, <1>4, ZenonT(40) DEF WriterInv, RowInv, HeldOnce, Taken
<1>9. HalvesLeft' /\ LeftWhole'
  BY <1>1 DEF WriterInv, RowInv, FlushInv, HalvesLeft, LeftWhole, Taken
<1>10. HalvesSent'
  BY <1>1, <1>3, <1>4, ZenonT(40) DEF WriterInv, RowInv, HalvesSent
<1>11. NoneMissing'
  BY <1>1, <1>3, <1>4 DEF WriterInv, RowInv, NoneMissing, OnTable
<1>12. OneAtATime' /\ Continuing' /\ NilIsAfterALoss'
  BY <1>1, <1>2 DEF WriterInv, FlushInv, OneAtATime, Continuing, NilIsAfterALoss, Quiet
<1> QED
  BY <1>5, <1>6, <1>7, <1>8, <1>9, <1>10, <1>11, <1>12 DEF WriterInv, RowInv, FlushInv

LEMMA TakeBatchStep ==
    ASSUME WriterInv, NEW f \in Flushers, TakeBatch(f)
    PROVE  WriterInv'
<1>1. /\ UNCHANGED <<arrived, using, wconn, dials, dead, breaks, stream, lostRows, writerDown>>
      /\ flushAt[f] = "flush"
  BY DEF TakeBatch, connVars
<1>2. CASE buf = <<>>
  <2>1. UNCHANGED <<buf, batch, left, overlapped>> /\ FlushGoto(f, "idle")
    BY <1>2 DEF TakeBatch
  <2>2. /\ flushAt' \in [Flushers -> FlushPlace]
        /\ \A g \in Flushers : flushAt'[g] = IF g = f THEN "idle" ELSE flushAt[g]
    BY <2>1, Goes DEF WriterInv, FlushPlace
  <2>3. WriterShape'
    BY <1>1, <2>1, <2>2 DEF WriterInv, WriterShape
  <2>4. QuietAreEmpty' /\ StartsOnce'
    BY <1>1, <2>1, <2>2 DEF WriterInv, QuietAreEmpty, StartsOnce, Quiet
  <2>5. BufferFits'
    BY <1>2, <2>1, NoElements, TickWriterConstants DEF BufferFits
  <2>6. RowInv' /\ LeftWhole'
    BY <1>1, <2>1, RowsStay DEF WriterInv, FlushInv
  <2>7. OneAtATime' /\ Continuing' /\ NilIsAfterALoss'
    BY <1>1, <2>1, <2>2 DEF WriterInv, FlushInv, OneAtATime, Continuing, NilIsAfterALoss, Quiet
  <2> QED
    BY <2>3, <2>4, <2>5, <2>6, <2>7 DEF WriterInv, FlushInv
<1>3. CASE buf # <<>>
  <2>1. /\ batch' = [batch EXCEPT ![f] = buf] /\ left' = [left EXCEPT ![f] = BothHalves(buf)]
        /\ buf' = <<>> /\ FlushGoto(f, "check")
        /\ overlapped' = (overlapped \/ \E g \in Flushers \ {f} : flushAt[g] \notin Quiet)
    BY <1>3 DEF TakeBatch, BufferAfterTake, Quiet
  <2>2. /\ flushAt' \in [Flushers -> FlushPlace]
        /\ \A g \in Flushers : flushAt'[g] = IF g = f THEN "check" ELSE flushAt[g]
    BY <2>1, Goes DEF WriterInv, FlushPlace
  <2>3. /\ BothHalves(buf) \in Seq(Halves) /\ IsInjective(BothHalves(buf))
        /\ Range(BothHalves(buf)) = Range(buf) \X {1, 2}
        /\ RowsWhole(BothHalves(buf)) /\ StartsWhole(BothHalves(buf))
    BY BatchInHalves DEF WriterInv, WriterShape, RowInv, HeldOnce
  <2>4. /\ \A g \in Flushers : batch'[g] = IF g = f THEN buf ELSE batch[g]
        /\ \A g \in Flushers : left'[g] = IF g = f THEN BothHalves(buf) ELSE left[g]
    BY <2>1 DEF WriterInv, WriterShape
  <2>5. batch[f] = <<>> /\ left[f] = <<>>
    BY <1>1 DEF WriterInv, QuietAreEmpty, Quiet
  <2>6. WriterShape'
    <3>1. overlapped' \in BOOLEAN
      BY <2>1, Zenon
    <3>2. buf' \in Seq(Rows)
      BY <2>1, NoElements
    <3>3. batch' \in [Flushers -> Seq(Rows)] /\ left' \in [Flushers -> Seq(Halves)]
      BY <2>1, <2>3 DEF WriterInv, WriterShape
    <3> QED
      BY <1>1, <2>2, <3>1, <3>2, <3>3 DEF WriterInv, WriterShape
  <2>7. QuietAreEmpty' /\ StartsOnce'
    BY <1>1, <2>2, <2>4 DEF WriterInv, QuietAreEmpty, StartsOnce, Quiet
  <2>8. BufferFits'
    BY <2>1, NoElements, TickWriterConstants DEF BufferFits
  <2>9. HeldOnce'
    BY <1>1, <2>1, <2>4, NoElements, ZenonT(40) DEF WriterInv, RowInv, HeldOnce, Taken
  <2>10. \A c \in 1 .. MaxDials : Range(BothHalves(buf)) \cap Range(stream[c]) = {}
    BY <2>3 DEF WriterInv, RowInv, HalvesSent
  <2>11. HalvesLeft'
    BY <1>1, <2>3, <2>4, <2>10 DEF WriterInv, RowInv, HalvesLeft, Taken
  <2>12. HalvesSent'
    BY <1>1, <2>1, NoElements DEF WriterInv, RowInv, HalvesSent
  <2>13. NoneMissing'
    <3> SUFFICES ASSUME NEW r \in 1 .. arrived, r \notin lostRows, ~OnTable(r)
                 PROVE  \E g \in Flushers : <<r, 2>> \in Range(left'[g])
      BY <1>1 DEF NoneMissing, OnTable
    <3>1. CASE r \in Range(buf)
      BY <2>3, <2>4, <3>1
    <3>2. CASE r \notin Range(buf)
      <4>1. PICK g \in Flushers : <<r, 2>> \in Range(left[g])
        BY <3>2 DEF WriterInv, RowInv, NoneMissing
      <4>2. g # f
        BY <2>5, <4>1, NoElements
      <4> QED
        BY <2>4, <4>1, <4>2
    <3> QED
      BY <3>1, <3>2
  <2>14. LeftWhole'
    BY <2>3, <2>4 DEF WriterInv, FlushInv, LeftWhole
  <2>15. OneAtATime'
    BY <1>1, <2>1, <2>2 DEF WriterInv, FlushInv, OneAtATime
  <2>16. Continuing'
    BY <1>1, <2>1, <2>2, <2>3, <2>4 DEF WriterInv, FlushInv, Continuing
  <2>17. NilIsAfterALoss'
    BY <1>1, <2>1, <2>2 DEF WriterInv, FlushInv, NilIsAfterALoss
  <2> QED
    BY <2>6, <2>7, <2>8, <2>9, <2>11, <2>12, <2>13, <2>14, <2>15, <2>16, <2>17
       DEF WriterInv, RowInv, FlushInv
<1> QED
  BY <1>2, <1>3

LEMMA CheckConnStep ==
    ASSUME WriterInv, NEW f \in Flushers, CheckConn(f)
    PROVE  WriterInv'
<1>1. /\ UNCHANGED <<arrived, buf, batch, left, using, wconn, dials, dead, breaks, stream,
                     lostRows, overlapped, writerDown>>
      /\ flushAt[f] = "check" /\ FlushGoto(f, AfterCheck)
  BY DEF CheckConn, connVars
<1>2. /\ flushAt' \in [Flushers -> FlushPlace]
      /\ \A g \in Flushers : flushAt'[g] = IF g = f THEN AfterCheck ELSE flushAt[g]
  BY <1>1, Goes DEF WriterInv, FlushPlace, AfterCheck
<1>3. WriterShape'
  BY <1>1, <1>2 DEF WriterInv, WriterShape
<1>4. QuietAreEmpty' /\ BufferFits' /\ StartsOnce'
  BY <1>1, <1>2
     DEF WriterInv, QuietAreEmpty, BufferFits, StartsOnce, Quiet, AfterCheck, Flushers
<1>5. RowInv' /\ LeftWhole'
  BY <1>1, RowsStay DEF WriterInv, FlushInv
<1>6. OneAtATime' /\ Continuing' /\ NilIsAfterALoss'
  BY <1>1, <1>2
     DEF WriterInv, FlushInv, OneAtATime, Continuing, NilIsAfterALoss, Quiet, AfterCheck
<1> QED
  BY <1>3, <1>4, <1>5, <1>6 DEF WriterInv, FlushInv

LEMMA DialSucceedsStep ==
    ASSUME WriterInv, NEW f \in Flushers, DialSucceeds(f)
    PROVE  WriterInv'
<1>1. /\ UNCHANGED <<arrived, buf, batch, left, using, dead, breaks, stream, lostRows,
                     overlapped, writerDown>>
      /\ flushAt[f] = "dial" /\ dials < MaxDials /\ FlushGoto(f, "open")
      /\ dials' = dials + 1 /\ wconn' = dials + 1
  BY DEF DialSucceeds
<1>2. /\ flushAt' \in [Flushers -> FlushPlace]
      /\ \A g \in Flushers : flushAt'[g] = IF g = f THEN "open" ELSE flushAt[g]
  BY <1>1, Goes DEF WriterInv, FlushPlace
<1>3. WriterShape'
  <2>1. /\ dials' \in Conns /\ wconn' \in 0 .. dials' /\ wconn' # 0
        /\ 0 .. dials \subseteq 0 .. dials' /\ 1 .. dials \subseteq 1 .. dials'
    BY <1>1, TickWriterConstants DEF WriterInv, WriterShape, Conns
  <2>2. using' \in [Flushers -> 0 .. dials'] /\ dead' \subseteq 1 .. dials'
    BY <1>1, <2>1 DEF WriterInv, WriterShape
  <2> QED
    BY <1>1, <1>2, <2>1, <2>2 DEF WriterInv, WriterShape
<1>4. QuietAreEmpty' /\ BufferFits'
  BY <1>1, <1>2 DEF WriterInv, QuietAreEmpty, BufferFits, Quiet, Flushers
<1>5. StartsOnce'
  BY <1>1, <1>2 DEF WriterInv, StartsOnce
<1>6. RowInv' /\ LeftWhole'
  BY <1>1, RowsStay DEF WriterInv, FlushInv
<1>7. wconn' # 0
  BY <1>1, TickWriterConstants DEF WriterInv, WriterShape, Conns
<1>8. OneAtATime' /\ NilIsAfterALoss'
  BY <1>1, <1>2, <1>7 DEF WriterInv, FlushInv, OneAtATime, NilIsAfterALoss, Quiet
<1>9. Continuing'
  <2>1. ~overlapped => \A g \in Flushers : g = f \/ flushAt'[g] \in Quiet
    BY <1>1, <1>2 DEF WriterInv, FlushInv, OneAtATime, Quiet
  <2> QED
    BY <1>1, <1>2, <1>7, <2>1 DEF WriterInv, FlushInv, Continuing, Quiet
<1> QED
  BY <1>3, <1>4, <1>5, <1>6, <1>8, <1>9 DEF WriterInv, FlushInv

LEMMA OpenWriterStep ==
    ASSUME WriterInv, NEW f \in Flushers, OpenWriter(f)
    PROVE  WriterInv'
<1>1. /\ UNCHANGED <<arrived, buf, batch, left, wconn, dials, dead, breaks, stream, lostRows,
                     overlapped, writerDown>>
      /\ flushAt[f] = "open" /\ FlushGoto(f, "write")
      /\ using' = [using EXCEPT ![f] = wconn]
  BY DEF OpenWriter, connVars
<1>2. /\ flushAt' \in [Flushers -> FlushPlace]
      /\ \A g \in Flushers : flushAt'[g] = IF g = f THEN "write" ELSE flushAt[g]
      /\ \A g \in Flushers : using'[g] = IF g = f THEN wconn ELSE using[g]
  BY <1>1, Goes DEF WriterInv, WriterShape, FlushPlace
<1>3. WriterShape'
  BY <1>1, <1>2 DEF WriterInv, WriterShape
<1>4. QuietAreEmpty' /\ BufferFits' /\ StartsOnce'
  BY <1>1, <1>2 DEF WriterInv, QuietAreEmpty, BufferFits, StartsOnce, Quiet, Flushers
<1>5. RowInv' /\ LeftWhole'
  BY <1>1, RowsStay DEF WriterInv, FlushInv
<1>6. OneAtATime' /\ NilIsAfterALoss'
  BY <1>1, <1>2 DEF WriterInv, FlushInv, OneAtATime, NilIsAfterALoss, Quiet
<1>7. Continuing'
  BY <1>1, <1>2 DEF WriterInv, FlushInv, Continuing, StartsWhole, Continues
<1> QED
  BY <1>3, <1>4, <1>5, <1>6, <1>7 DEF WriterInv, FlushInv

LEMMA NilConnStep ==
    ASSUME WriterInv, NEW f \in Flushers, NilConn(f)
    PROVE  WriterInv'
<1>1. /\ UNCHANGED <<arrived, buf, batch, left, flushAt, using, wconn, dials, dead, breaks,
                     stream, lostRows, overlapped>>
      /\ flushAt[f] = "write" /\ (using[f] = 0 \/ (using[f] \in dead /\ wconn = 0))
      /\ writerDown' = TRUE
  BY DEF NilConn, flushVars, connVars
<1>2. dead # {} /\ overlapped
  BY <1>1 DEF WriterInv, WriterShape, FlushInv, NilIsAfterALoss, Continuing
<1>3. WriterShape'
  BY <1>1 DEF WriterInv, WriterShape
<1>4. QuietAreEmpty' /\ BufferFits' /\ StartsOnce'
  BY <1>1 DEF WriterInv, QuietAreEmpty, BufferFits, StartsOnce
<1>5. RowInv' /\ LeftWhole'
  BY <1>1, RowsStay DEF WriterInv, FlushInv
<1>6. OneAtATime' /\ Continuing' /\ NilIsAfterALoss'
  BY <1>1, <1>2 DEF WriterInv, FlushInv, OneAtATime, Continuing, NilIsAfterALoss
<1> QED
  BY <1>3, <1>4, <1>5, <1>6 DEF WriterInv, FlushInv

LEMMA QuestDBDropsStep == WriterInv /\ QuestDBDrops => WriterInv'
<1> SUFFICES ASSUME WriterInv, QuestDBDrops
             PROVE  WriterInv'
  OBVIOUS
<1>1. /\ UNCHANGED <<arrived, buf, batch, left, flushAt, using, wconn, dials, stream,
                     lostRows, overlapped, writerDown>>
      /\ breaks < MaxBreaks /\ breaks' = breaks + 1
      /\ \E c \in (1 .. dials) \ dead : dead' = dead \cup {c}
  BY DEF QuestDBDrops, flushVars
<1>2. WriterShape'
  <2>1. breaks' \in 0 .. MaxBreaks
    BY <1>1, TickWriterConstants DEF WriterInv, WriterShape
  <2> QED
    BY <1>1, <2>1 DEF WriterInv, WriterShape
<1>3. QuietAreEmpty' /\ BufferFits' /\ StartsOnce'
  BY <1>1 DEF WriterInv, QuietAreEmpty, BufferFits, StartsOnce
<1>4. RowInv' /\ LeftWhole'
  BY <1>1, RowsStay DEF WriterInv, FlushInv
<1>5. OneAtATime' /\ Continuing' /\ NilIsAfterALoss'
  BY <1>1 DEF WriterInv, FlushInv, OneAtATime, Continuing, NilIsAfterALoss
<1> QED
  BY <1>2, <1>3, <1>4, <1>5 DEF WriterInv, FlushInv

\* A flush that gives up: its rows are lost, and nobody else's.
LEMMA GivesUp ==
    ASSUME WriterInv, NEW f \in Flushers, flushAt[f] \in FlushPlace \ Quiet, GiveUp(f),
           UNCHANGED <<arrived, buf, stream>>
    PROVE  /\ flushAt' \in [Flushers -> FlushPlace]
           /\ \A g \in Flushers : flushAt'[g] = IF g = f THEN "idle" ELSE flushAt[g]
           /\ batch' \in [Flushers -> Seq(Rows)] /\ left' \in [Flushers -> Seq(Halves)]
           /\ \A g \in Flushers : left'[g] = IF g = f THEN <<>> ELSE left[g]
           /\ lostRows' \subseteq Rows
           /\ QuietAreEmpty' /\ BufferFits' /\ RowInv' /\ LeftWhole'
<1>1. /\ lostRows' = lostRows \cup Taken(f) /\ FlushGoto(f, "idle")
      /\ batch' = [batch EXCEPT ![f] = <<>>] /\ left' = [left EXCEPT ![f] = <<>>]
  BY DEF GiveUp, Taken
<1>2. /\ flushAt' \in [Flushers -> FlushPlace]
      /\ \A g \in Flushers : flushAt'[g] = IF g = f THEN "idle" ELSE flushAt[g]
  BY <1>1, Goes DEF WriterInv, FlushPlace
<1>3. /\ batch' \in [Flushers -> Seq(Rows)] /\ left' \in [Flushers -> Seq(Halves)]
      /\ \A g \in Flushers : batch'[g] = IF g = f THEN <<>> ELSE batch[g]
      /\ \A g \in Flushers : left'[g] = IF g = f THEN <<>> ELSE left[g]
  BY <1>1, NoElements DEF WriterInv, WriterShape
<1>4. lostRows' \subseteq Rows
  <2>1. Taken(f) \subseteq 1 .. arrived /\ 1 .. arrived \subseteq Rows
    BY TickWriterConstants DEF WriterInv, WriterShape, RowInv, HeldOnce, Rows
  <2> QED
    BY <1>1, <2>1 DEF WriterInv, WriterShape
<1>5. QuietAreEmpty' /\ BufferFits'
  BY <1>2, <1>3 DEF WriterInv, QuietAreEmpty, BufferFits, Quiet, Flushers
<1>6. HeldOnce'
  BY <1>1, <1>3, NoElements DEF WriterInv, RowInv, HeldOnce, Taken
<1>7. HalvesLeft' /\ LeftWhole'
  BY <1>3, NoElements DEF WriterInv, RowInv, FlushInv, HalvesLeft, LeftWhole, Taken
<1>8. HalvesSent'
  BY DEF WriterInv, RowInv, HalvesSent
<1>9. NoneMissing'
  <2> SUFFICES ASSUME NEW r \in 1 .. arrived, r \notin Range(buf), r \notin lostRows',
                      ~OnTable(r)
               PROVE  \E g \in Flushers : <<r, 2>> \in Range(left'[g])
    BY DEF NoneMissing, OnTable
  <2>1. PICK g \in Flushers : <<r, 2>> \in Range(left[g])
    BY <1>1 DEF WriterInv, RowInv, NoneMissing
  <2>2. r \in Taken(g)
    BY <2>1 DEF WriterInv, RowInv, HalvesLeft
  <2>3. g # f
    BY <1>1, <2>2
  <2> QED
    BY <1>3, <2>1, <2>3
<1> QED
  BY <1>2, <1>3, <1>4, <1>5, <1>6, <1>7, <1>8, <1>9 DEF RowInv

LEMMA DialFailsStep ==
    ASSUME WriterInv, NEW f \in Flushers, DialFails(f)
    PROVE  WriterInv'
<1>1. /\ UNCHANGED <<arrived, buf, using, wconn, dials, dead, breaks, stream, overlapped,
                     writerDown>>
      /\ flushAt[f] = "dial" /\ GiveUp(f)
  BY DEF DialFails, connVars
<1>2. flushAt[f] \in FlushPlace \ Quiet
  BY <1>1 DEF FlushPlace, Quiet
<1>3. /\ flushAt' \in [Flushers -> FlushPlace]
      /\ \A g \in Flushers : flushAt'[g] = IF g = f THEN "idle" ELSE flushAt[g]
      /\ batch' \in [Flushers -> Seq(Rows)] /\ left' \in [Flushers -> Seq(Halves)]
      /\ \A g \in Flushers : left'[g] = IF g = f THEN <<>> ELSE left[g]
      /\ lostRows' \subseteq Rows
      /\ QuietAreEmpty' /\ BufferFits' /\ RowInv' /\ LeftWhole'
  BY <1>1, <1>2, GivesUp
<1>4. WriterShape'
  BY <1>1, <1>3 DEF WriterInv, WriterShape
<1>5. StartsOnce'
  BY <1>1, <1>3 DEF WriterInv, StartsOnce
<1>6. OneAtATime' /\ Continuing' /\ NilIsAfterALoss'
  BY <1>1, <1>3 DEF WriterInv, FlushInv, OneAtATime, Continuing, NilIsAfterALoss, Quiet
<1> QED
  BY <1>3, <1>4, <1>5, <1>6 DEF WriterInv, FlushInv

LEMMA WriteFailsStep ==
    ASSUME WriterInv, NEW f \in Flushers, WriteFails(f)
    PROVE  WriterInv'
<1>1. /\ UNCHANGED <<arrived, buf, using, dials, breaks, stream, overlapped, writerDown>>
      /\ flushAt[f] = "write" /\ GiveUp(f)
      /\ using[f] \in dead /\ wconn # 0 /\ dead' = dead \cup {wconn} /\ wconn' = 0
  BY DEF WriteFails
<1>2. flushAt[f] \in FlushPlace \ Quiet
  BY <1>1 DEF FlushPlace, Quiet
<1>3. /\ flushAt' \in [Flushers -> FlushPlace]
      /\ \A g \in Flushers : flushAt'[g] = IF g = f THEN "idle" ELSE flushAt[g]
      /\ batch' \in [Flushers -> Seq(Rows)] /\ left' \in [Flushers -> Seq(Halves)]
      /\ \A g \in Flushers : left'[g] = IF g = f THEN <<>> ELSE left[g]
      /\ lostRows' \subseteq Rows
      /\ QuietAreEmpty' /\ BufferFits' /\ RowInv' /\ LeftWhole'
  BY <1>1, <1>2, GivesUp
<1>4. WriterShape'
  <2>1. wconn' \in 0 .. dials /\ dead' \subseteq 1 .. dials
    BY <1>1, TickWriterConstants DEF WriterInv, WriterShape, Conns
  <2> QED
    BY <1>1, <1>3, <2>1 DEF WriterInv, WriterShape
<1>5. StartsOnce'
  BY <1>1, <1>3 DEF WriterInv, StartsOnce
<1>6. dead' # {}
  BY <1>1
<1>7. OneAtATime' /\ NilIsAfterALoss'
  BY <1>1, <1>3, <1>6 DEF WriterInv, FlushInv, OneAtATime, NilIsAfterALoss, Quiet
<1>8. Continuing'
  <2>1. ~overlapped => \A g \in Flushers : flushAt'[g] \in Quiet
    BY <1>1, <1>3 DEF WriterInv, FlushInv, OneAtATime, Quiet
  <2> QED
    BY <1>1, <2>1 DEF WriterInv, FlushInv, Continuing, Quiet
<1> QED
  BY <1>3, <1>4, <1>5, <1>7, <1>8 DEF WriterInv, FlushInv

LEMMA WriteChunkStep ==
    ASSUME WriterInv, NEW f \in Flushers, WriteChunk(f)
    PROVE  WriterInv'
<1> DEFINE l == left[f]
           n == IF Len(l) < ChunkHalves THEN Len(l) ELSE ChunkHalves
           rest == SubSeq(l, n + 1, Len(l))
           u == using[f]
           s == stream[u]
           t == s \o SubSeq(l, 1, n)
<1>1. /\ UNCHANGED <<arrived, buf, using, wconn, dials, dead, breaks, lostRows, overlapped,
                     writerDown>>
      /\ flushAt[f] = "write" /\ u \notin dead \cup {0}
      /\ stream' = [stream EXCEPT ![u] = t] /\ left' = [left EXCEPT ![f] = rest]
      /\ IF rest = <<>>
         THEN FlushGoto(f, "idle") /\ batch' = [batch EXCEPT ![f] = <<>>]
         ELSE UNCHANGED <<flushAt, batch>>
  BY DEF WriteChunk, connVars
<1>2. u \in 1 .. MaxDials /\ s \in Seq(Halves) /\ l \in Seq(Halves)
  <2>1. u \in 0 .. dials /\ u # 0 /\ dials \in 0 .. MaxDials /\ MaxDials \in Nat
    BY <1>1, TickWriterConstants DEF WriterInv, WriterShape, Conns
  <2>2. u \in 1 .. MaxDials
    BY <2>1
  <2> QED
    BY <2>2 DEF WriterInv, WriterShape
<1>3. n \in 0 .. Len(l)
  BY <1>2, TickWriterConstants
<1>4. /\ t \in Seq(Halves) /\ rest \in Seq(Halves)
      /\ Range(t) \cup Range(rest) = Range(s) \cup Range(l)
      /\ Range(s) \subseteq Range(t) /\ Range(rest) \subseteq Range(l)
      /\ IsInjective(s) /\ IsInjective(l) /\ Range(s) \cap Range(l) = {}
           => IsInjective(t) /\ IsInjective(rest) /\ Range(t) \cap Range(rest) = {}
      /\ RowsWhole(l) => RowsWhole(rest)
      /\ RowsWhole(s) /\ RowsWhole(l) /\ Continues(s, l)
           => RowsWhole(t) /\ Continues(t, rest)
  BY <1>2, <1>3, ChunkMoves
<1> HIDE DEF t, rest, n
<1>5. /\ stream' \in [1 .. MaxDials -> Seq(Halves)]
      /\ \A c \in 1 .. MaxDials : stream'[c] = IF c = u THEN t ELSE stream[c]
      /\ left' \in [Flushers -> Seq(Halves)]
      /\ \A g \in Flushers : left'[g] = IF g = f THEN rest ELSE left[g]
  BY <1>1, <1>2, <1>4 DEF WriterInv, WriterShape
<1>6. /\ flushAt' \in [Flushers -> FlushPlace] /\ batch' \in [Flushers -> Seq(Rows)]
      /\ \A g \in Flushers \ {f} : flushAt'[g] = flushAt[g] /\ batch'[g] = batch[g]
      /\ IF rest = <<>> THEN flushAt'[f] = "idle" /\ batch'[f] = <<>>
                        ELSE flushAt'[f] = "write" /\ batch'[f] = batch[f]
  <2>1. CASE rest = <<>>
    <3>1. FlushGoto(f, "idle") /\ batch' = [batch EXCEPT ![f] = <<>>]
      BY <1>1, <2>1
    <3>2. /\ flushAt' \in [Flushers -> FlushPlace]
          /\ \A g \in Flushers : flushAt'[g] = IF g = f THEN "idle" ELSE flushAt[g]
      BY <3>1, Goes DEF WriterInv, FlushPlace
    <3>3. batch' \in [Flushers -> Seq(Rows)] /\ batch'[f] = <<>>
          /\ \A g \in Flushers \ {f} : batch'[g] = batch[g]
      BY <3>1, NoElements DEF WriterInv, WriterShape
    <3> QED
      BY <2>1, <3>2, <3>3
  <2>2. CASE rest # <<>>
    BY <1>1, <2>2 DEF WriterInv, WriterShape
  <2> QED
    BY <2>1, <2>2
<1>7. WriterShape'
  BY <1>1, <1>5, <1>6 DEF WriterInv, WriterShape
<1>8. QuietAreEmpty'
  BY <1>5, <1>6 DEF WriterInv, QuietAreEmpty, Quiet
<1>9. BufferFits' /\ StartsOnce'
  BY <1>1, <1>6 DEF WriterInv, BufferFits, StartsOnce, Flushers
<1>10. /\ IsInjective(l) /\ Range(l) \subseteq Taken(f) \X {1, 2} /\ IsInjective(s)
       /\ \A c \in 1 .. MaxDials : Range(l) \cap Range(stream[c]) = {}
       /\ \A g \in Flushers \ {f} : Range(l) \cap Range(left[g]) = {}
  <2>1. ASSUME NEW g \in Flushers \ {f}
        PROVE  Range(l) \cap Range(left[g]) = {}
    <3>1. /\ Range(l) \subseteq Taken(f) \X {1, 2} /\ Range(left[g]) \subseteq Taken(g) \X {1, 2}
          /\ Taken(f) \cap Taken(g) = {}
      BY DEF WriterInv, RowInv, HalvesLeft, HeldOnce
    <3> HIDE DEF l
    <3> QED
      BY <3>1
  <2> QED
    BY <1>2, <2>1 DEF WriterInv, RowInv, HalvesLeft, HalvesSent
<1>11. /\ IsInjective(t) /\ IsInjective(rest) /\ Range(t) \cap Range(rest) = {}
       /\ Range(t) \subseteq Range(s) \cup Range(l)
  BY <1>2, <1>4, <1>10
<1>12. HeldOnce'
  <2>1. \A g \in Flushers : Taken(g)' = IF g = f /\ rest = <<>> THEN {} ELSE Taken(g)
    BY <1>6, NoElements DEF Taken
  <2> QED
    BY <1>1, <2>1 DEF WriterInv, RowInv, HeldOnce
<1>13. HalvesLeft'
  <2> SUFFICES ASSUME NEW g \in Flushers
               PROVE  /\ IsInjective(left'[g]) /\ Range(left'[g]) \subseteq Taken(g)' \X {1, 2}
                      /\ \A c \in 1 .. MaxDials : Range(left'[g]) \cap Range(stream'[c]) = {}
    BY DEF HalvesLeft
  <2>1. CASE g = f
    <3>1. left'[g] = rest
      BY <1>5, <2>1
    <3>2. Range(rest) \subseteq Taken(f)' \X {1, 2}
      BY <1>4, <1>6, <1>10, NoElements DEF Taken
    <3>3. \A c \in 1 .. MaxDials : Range(rest) \cap Range(stream'[c]) = {}
      BY <1>4, <1>5, <1>10, <1>11
    <3> QED
      BY <1>11, <2>1, <3>1, <3>2, <3>3
  <2>2. CASE g # f
    <3>1. left'[g] = left[g] /\ Taken(g)' = Taken(g)
      BY <1>5, <1>6, <2>2 DEF Taken
    <3>2. \A c \in 1 .. MaxDials : Range(left[g]) \cap Range(stream[c]) = {}
      BY DEF WriterInv, RowInv, HalvesLeft
    <3>3. Range(left[g]) \cap Range(t) = {}
      BY <1>2, <1>10, <1>11, <2>2, <3>2
    <3> QED
      BY <1>5, <3>1, <3>2, <3>3 DEF WriterInv, RowInv, HalvesLeft
  <2> QED
    BY <2>1, <2>2
<1>14. HalvesSent'
  <2>1. \A c \in 1 .. MaxDials : IsInjective(stream'[c])
    BY <1>5, <1>11 DEF WriterInv, RowInv, HalvesSent
  <2>2. \A h \in Range(l) : h[1] \in (1 .. arrived) \ Range(buf)
    BY <1>10 DEF WriterInv, RowInv, HeldOnce
  <2>3. ASSUME NEW c \in 1 .. MaxDials, NEW h \in Range(stream'[c])
        PROVE  h[1] \in (1 .. arrived') \ Range(buf')
    <3>1. h \in Range(stream[c]) \cup Range(l)
      BY <1>5, <1>11
    <3> QED
      BY <1>1, <2>2, <3>1 DEF WriterInv, RowInv, HalvesSent
  <2>4. ASSUME NEW c \in 1 .. MaxDials, c # u
        PROVE  Range(t) \cap Range(stream[c]) = {}
    BY <1>2, <1>10, <1>11, <2>4 DEF WriterInv, RowInv, HalvesSent
  <2>5. ASSUME NEW c \in 1 .. MaxDials, NEW d \in 1 .. MaxDials, c # d
        PROVE  Range(stream'[c]) \cap Range(stream'[d]) = {}
    BY <1>5, <2>4, <2>5 DEF WriterInv, RowInv, HalvesSent
  <2> QED
    BY <2>1, <2>3, <2>5 DEF HalvesSent
<1>15. NoneMissing'
  <2> SUFFICES ASSUME NEW r \in 1 .. arrived, r \notin Range(buf), r \notin lostRows,
                      ~OnTable(r)'
               PROVE  \E g \in Flushers : <<r, 2>> \in Range(left'[g])
    BY <1>1 DEF NoneMissing
  <2>1. \A c \in 1 .. MaxDials : <<r, 2>> \notin Range(stream'[c])
    BY DEF OnTable
  <2>2. \A c \in 1 .. MaxDials : <<r, 2>> \notin Range(stream[c])
    BY <1>4, <1>5, <2>1
  <2>3. PICK g \in Flushers : <<r, 2>> \in Range(left[g])
    BY <2>2 DEF WriterInv, RowInv, NoneMissing, OnTable
  <2>4. <<r, 2>> \notin Range(t)
    BY <1>2, <1>5, <2>1
  <2>5. CASE g = f
    <3>1. <<r, 2>> \in Range(rest)
      BY <1>4, <2>3, <2>4, <2>5
    <3> QED
      BY <1>5, <3>1
  <2>6. CASE g # f
    BY <1>5, <2>3, <2>6
  <2> QED
    BY <2>5, <2>6
<1>16. LeftWhole'
  BY <1>4, <1>5 DEF WriterInv, FlushInv, LeftWhole
<1>17. OneAtATime' /\ NilIsAfterALoss'
  BY <1>1, <1>6 DEF WriterInv, FlushInv, OneAtATime, NilIsAfterALoss, Quiet
<1>18. Continuing'
  <2> SUFFICES ASSUME ~overlapped
               PROVE  /\ \A c \in 1 .. MaxDials : RowsWhole(stream'[c])
                      /\ \A g \in Flushers :
                           /\ flushAt'[g] = "open" => wconn # 0
                           /\ flushAt'[g] \in {"check", "dial", "open"} => StartsWhole(left'[g])
                           /\ flushAt'[g] = "write" => /\ using[g] = wconn /\ wconn # 0
                                                       /\ Continues(stream'[wconn], left'[g])
    BY <1>1 DEF Continuing
  <2>1. /\ u = wconn /\ wconn # 0 /\ Continues(s, l) /\ RowsWhole(s) /\ RowsWhole(l)
    BY <1>1, <1>2 DEF WriterInv, FlushInv, Continuing, LeftWhole
  <2>2. RowsWhole(t) /\ Continues(t, rest)
    BY <1>4, <2>1
  <2>3. \A g \in Flushers \ {f} : flushAt'[g] \in Quiet
    BY <1>1, <1>6 DEF WriterInv, FlushInv, OneAtATime, Quiet
  <2>4. \A c \in 1 .. MaxDials : RowsWhole(stream'[c])
    BY <1>5, <2>2 DEF WriterInv, FlushInv, Continuing
  <2>5. stream'[wconn] = t /\ left'[f] = rest /\ flushAt'[f] \in {"idle", "write"}
    BY <1>2, <1>5, <1>6, <2>1
  <2> QED
    BY <2>1, <2>2, <2>3, <2>4, <2>5 DEF Quiet
<1> QED
  BY <1>7, <1>8, <1>9, <1>12, <1>13, <1>14, <1>15, <1>16, <1>17, <1>18
     DEF WriterInv, RowInv, FlushInv

LEMMA WriterStepInv == WriterInv /\ [WriterNext]_writerVars => WriterInv'
<1> SUFFICES ASSUME WriterInv, [WriterNext]_writerVars
             PROVE  WriterInv'
  OBVIOUS
<1>1. ASSUME NEW f \in Flushers, FlushStep(f)
      PROVE  WriterInv'
  BY <1>1, TakeBatchStep, CheckConnStep, DialSucceedsStep, DialFailsStep, OpenWriterStep,
     WriteChunkStep, WriteFailsStep, NilConnStep DEF FlushStep
<1>2. ASSUME UNCHANGED writerVars
      PROVE  WriterInv'
  <2>1. UNCHANGED <<arrived, buf, batch, left, flushAt, using, wconn, dials, dead, breaks,
                    stream, lostRows, overlapped, writerDown>>
    BY <1>2 DEF writerVars, flushVars, connVars
  <2>2. RowInv' /\ LeftWhole'
    BY <2>1, RowsStay DEF WriterInv, FlushInv
  <2>3. WriterShape' /\ QuietAreEmpty' /\ BufferFits' /\ StartsOnce'
    BY <2>1 DEF WriterInv, WriterShape, QuietAreEmpty, BufferFits, StartsOnce
  <2>4. OneAtATime' /\ Continuing' /\ NilIsAfterALoss'
    BY <2>1 DEF WriterInv, FlushInv, OneAtATime, Continuing, NilIsAfterALoss
  <2> QED
    BY <2>2, <2>3, <2>4 DEF WriterInv, FlushInv
<1> QED
  BY <1>1, <1>2, StartWriterStep, HandleStep, TickerFiresStep, QuestDBDropsStep DEF WriterNext

\* No tick is lost silently or written twice, and rows are torn and the process dies
\* only where two flushes have overlapped, for any number of ticks, size of a batch and
\* of a write, and any number of connections that end.
THEOREM TicksAreKept == WriterSpec => []TicksAreSafe
<1>1. WriterInv => WriterTypeOK
  <2> SUFFICES ASSUME WriterInv
               PROVE  WriterTypeOK
    OBVIOUS
  <2>1. /\ arrived \in 0 .. MaxTicks /\ dials \in Conns /\ wconn \in 0 .. dials
        /\ dead \subseteq 1 .. dials /\ breaks \in 0 .. MaxBreaks
        /\ stream \in [1 .. MaxDials -> Seq(Halves)]
        /\ lostRows \subseteq Rows /\ {overlapped, writerDown} \subseteq BOOLEAN
    BY DEF WriterInv, WriterShape
  <2>2. \A S : \A q \in Seq(S) : Range(q) \subseteq S
    BY DEF Range
  <2>3. Range(buf) \subseteq Rows /\ Len(buf) =< BatchSize
    BY <2>2 DEF WriterInv, WriterShape, BufferFits
  <2>4. ASSUME NEW f \in Flushers
        PROVE  /\ flushAt[f] \in FlushPlace /\ using[f] \in 0 .. dials
               /\ Range(batch[f]) \subseteq Rows /\ Range(left[f]) \subseteq Halves
               /\ flushAt[f] \in {"off", "idle", "flush"} => batch[f] = <<>> /\ left[f] = <<>>
    BY <2>2 DEF WriterInv, WriterShape, QuietAreEmpty, Quiet
  <2> QED
    BY <2>1, <2>3, <2>4 DEF WriterTypeOK
<1>2. WriterInv => EachTickOnce
  <2> SUFFICES ASSUME WriterInv
               PROVE  EachTickOnce
    OBVIOUS
  <2>1. ASSUME NEW r \in 1 .. arrived
        PROVE  Cardinality({p \in Flushers : r \in Taken(p)}
                           \cup {p \in {"buffer"} : r \in Range(buf)}
                           \cup {p \in {"lost"} : r \in lostRows}
                           \cup {p \in {"table"} : OnTable(r)
                                             /\ r \notin Taken("handler") \cup Taken("ticker")
                                             /\ r \notin lostRows}) = 1
    <3> DEFINE A == {p \in Flushers : r \in Taken(p)}
               B == {p \in {"buffer"} : r \in Range(buf)}
               C == {p \in {"lost"} : r \in lostRows}
               D == {p \in {"table"} : OnTable(r)
                                         /\ r \notin Taken("handler") \cup Taken("ticker")
                                         /\ r \notin lostRows}
    <3>1. r \in Range(buf) => ~OnTable(r)
      BY DEF WriterInv, RowInv, HalvesSent, OnTable
    <3>2. \/ r \in Range(buf) \/ r \in lostRows \/ OnTable(r)
          \/ r \in Taken("handler") \/ r \in Taken("ticker")
      BY DEF WriterInv, RowInv, NoneMissing, HalvesLeft, Flushers
    <3>3. /\ Range(buf) \cap lostRows = {} /\ Taken("handler") \cap Taken("ticker") = {}
          /\ Taken("handler") \cap Range(buf) = {} /\ Taken("ticker") \cap Range(buf) = {}
          /\ Taken("handler") \cap lostRows = {} /\ Taken("ticker") \cap lostRows = {}
      BY DEF WriterInv, RowInv, HeldOnce, Flushers
    <3>4. CASE r \in Range(buf)
      <4>1. A \cup B \cup C \cup D = {"buffer"}
        BY <3>1, <3>3, <3>4 DEF Flushers
      <4> QED
        BY <4>1, FS_Singleton
    <3>5. CASE r \in lostRows
      <4>1. A \cup B \cup C \cup D = {"lost"}
        BY <3>3, <3>5 DEF Flushers
      <4> QED
        BY <4>1, FS_Singleton
    <3>6. CASE r \in Taken("handler")
      <4>1. A \cup B \cup C \cup D = {"handler"}
        BY <3>3, <3>6 DEF Flushers
      <4> QED
        BY <4>1, FS_Singleton
    <3>7. CASE r \in Taken("ticker")
      <4>1. A \cup B \cup C \cup D = {"ticker"}
        BY <3>3, <3>7 DEF Flushers
      <4> QED
        BY <4>1, FS_Singleton
    <3>8. CASE r \notin Range(buf) \cup lostRows \cup Taken("handler") \cup Taken("ticker")
      <4>1. A \cup B \cup C \cup D = {"table"}
        BY <3>2, <3>8 DEF Flushers
      <4> QED
        BY <4>1, FS_Singleton
    <3> QED
      BY <3>4, <3>5, <3>6, <3>7, <3>8
  <2>2. /\ \A c \in 1 .. MaxDials : IsInjective(stream[c])
        /\ \A c, d \in 1 .. MaxDials : c # d => Range(stream[c]) \cap Range(stream[d]) = {}
    BY DEF WriterInv, RowInv, HalvesSent
  <2> QED
    BY <2>1, <2>2 DEF EachTickOnce
<1>3. WriterInv => OnlyOverlapTears
  <2> SUFFICES ASSUME WriterInv
               PROVE  OnlyOverlapTears
    OBVIOUS
  <2>1. ~overlapped => ~Torn
    BY DEF WriterInv, FlushInv, Continuing, Torn, RowsWhole
  <2> QED
    BY <2>1 DEF WriterInv, FlushInv, NilIsAfterALoss, OnlyOverlapTears
<1> QED
  BY <1>1, <1>2, <1>3, WriterInitInv, WriterStepInv, PTL DEF WriterSpec, TicksAreSafe
=============================================================================
