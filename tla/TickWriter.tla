------------------------------ MODULE TickWriter ------------------------------
(***************************************************************************)
(* The gateway's QuestDB writer (services/gateway/internal/persist).       *)
(*                                                                         *)
(* The NATS handler and the ticker goroutine both flush.  The mutex covers *)
(* the taking of the batch and nothing after it: the connection is tested, *)
(* replaced, written to and closed by both without it.  A row is written   *)
(* as two halves, because a batch larger than bufio's 4096 bytes leaves in *)
(* several writes and the first of them ends inside a row.                 *)
(***************************************************************************)
EXTENDS Naturals, Sequences, SequencesExt, FiniteSets

CONSTANTS MaxTicks,     \* ticks that arrive (bound)
          BatchSize,    \* rows that trigger a flush
          ChunkHalves,  \* halves one write takes
          MaxDials,     \* connections (bound); 0 is the nil connection
          MaxBreaks     \* connections QuestDB or the network ends (bound)

ASSUME TickWriterConstants ==
    {MaxTicks, MaxBreaks} \subseteq Nat /\ {BatchSize, ChunkHalves, MaxDials} \subseteq Nat \ {0}

VARIABLES
    arrived,      \* ticks received from ticks.>
    buf,          \* w.buf and w.count
    batch,        \* per goroutine: rows taken and not yet written
    left,         \* per goroutine: halves not yet written
    flushAt,      \* per goroutine: place in flush
    using,        \* per goroutine: the connection its bufio.Writer wraps
    wconn,        \* w.conn
    dials,        \* connections made
    dead,         \* connections closed here or at the other end
    breaks,       \* connections ended at the other end
    stream,       \* per connection: the halves QuestDB receives
    lostRows,     \* rows of batches given up
    overlapped,   \* history: two flushes were past the mutex at once
    writerDown    \* the process died of a nil connection

flushVars == <<batch, left, flushAt, using>>
connVars == <<wconn, dials, dead, breaks>>
writerVars == <<arrived, buf, flushVars, connVars, stream, lostRows, overlapped, writerDown>>

Flushers == {"handler", "ticker"}
Rows == 1 .. MaxTicks
Halves == Rows \X {1, 2}
Conns == 0 .. MaxDials
FlushPlace == {"off", "idle", "flush", "check", "dial", "open", "write"}

WriterTypeOK ==
    /\ arrived \in 0 .. MaxTicks /\ dials \in Conns /\ wconn \in 0 .. dials
    /\ Range(buf) \subseteq Rows /\ Len(buf) =< BatchSize
    /\ \A f \in Flushers :
         /\ flushAt[f] \in FlushPlace /\ using[f] \in 0 .. dials
         /\ Range(batch[f]) \subseteq Rows /\ Range(left[f]) \subseteq Halves
         /\ flushAt[f] \in {"off", "idle", "flush"} => batch[f] = <<>> /\ left[f] = <<>>
    /\ dead \subseteq 1 .. dials /\ breaks \in 0 .. MaxBreaks
    /\ stream \in [1 .. MaxDials -> Seq(Halves)]
    /\ lostRows \subseteq Rows /\ {overlapped, writerDown} \subseteq BOOLEAN

WriterInit ==
    /\ arrived = 0 /\ buf = <<>>
    /\ batch = [f \in Flushers |-> <<>>] /\ left = [f \in Flushers |-> <<>>]
    /\ flushAt = [f \in Flushers |-> "off"] /\ using = [f \in Flushers |-> 0]
    /\ wconn = 0 /\ dials = 0
    /\ dead = {} /\ breaks = 0
    /\ stream = [c \in 1 .. MaxDials |-> <<>>]
    /\ lostRows = {} /\ overlapped = FALSE /\ writerDown = FALSE

FlushGoto(f, place) == flushAt' = [flushAt EXCEPT ![f] = place]
\* The batch as it leaves: of each row the first half, then the second.
BothHalves(rows) == [k \in 1 .. 2 * Len(rows) |-> <<rows[(k + 1) \div 2], 2 - (k % 2)>>]

-----------------------------------------------------------------------------
\* Start dials once, and leaves a failure there to the first flush.
StartWriter ==
    /\ \A f \in Flushers : flushAt[f] = "off"
    /\ flushAt' = [f \in Flushers |-> "idle"]
    /\ wconn' \in {0, 1} /\ dials' = wconn'
    /\ UNCHANGED <<arrived, buf, batch, left, using, dead, breaks, stream, lostRows,
                   overlapped, writerDown>>

IsFull(n) == n >= BatchSize

\* A tick: append it under the lock, flush when the batch is full.  Messages of
\* the subscription are handled one at a time.
Handle ==
    /\ flushAt["handler"] = "idle" /\ arrived < MaxTicks
    /\ arrived' = arrived + 1 /\ buf' = Append(buf, arrived + 1)
    /\ FlushGoto("handler", IF IsFull(Len(buf) + 1) THEN "flush" ELSE "idle")
    /\ UNCHANGED <<batch, left, using, connVars, stream, lostRows, overlapped, writerDown>>

TickerFires ==
    /\ flushAt["ticker"] = "idle" /\ FlushGoto("ticker", "flush")
    /\ UNCHANGED <<arrived, buf, batch, left, using, connVars, stream, lostRows,
                   overlapped, writerDown>>

\* What the lock protects.  The mutant leaves the rows in the buffer.
MutantBufferAfterTake == buf
BufferAfterTake == <<>>

TakeBatch(f) ==
    /\ flushAt[f] = "flush"
    /\ IF buf = <<>>
       THEN FlushGoto(f, "idle") /\ UNCHANGED <<buf, batch, left, overlapped>>
       ELSE /\ batch' = [batch EXCEPT ![f] = buf]
            /\ left' = [left EXCEPT ![f] = BothHalves(buf)]
            /\ buf' = BufferAfterTake
            /\ FlushGoto(f, "check")
            /\ overlapped' = (overlapped \/ \E g \in Flushers \ {f} :
                                              flushAt[g] \notin {"off", "idle", "flush"})
    /\ UNCHANGED <<arrived, using, connVars, stream, lostRows, writerDown>>

\* A connection lost is dialled again.
AfterCheck == IF wconn = 0 THEN "dial" ELSE "open"

CheckConn(f) ==
    /\ flushAt[f] = "check" /\ FlushGoto(f, AfterCheck)
    /\ UNCHANGED <<arrived, buf, batch, left, using, connVars, stream, lostRows,
                   overlapped, writerDown>>

GiveUp(f) ==
    /\ lostRows' = lostRows \cup Range(batch[f])
    /\ batch' = [batch EXCEPT ![f] = <<>>] /\ left' = [left EXCEPT ![f] = <<>>]
    /\ FlushGoto(f, "idle")

DialSucceeds(f) ==
    /\ flushAt[f] = "dial" /\ dials < MaxDials
    /\ dials' = dials + 1 /\ wconn' = dials + 1 /\ FlushGoto(f, "open")
    /\ UNCHANGED <<arrived, buf, batch, left, using, dead, breaks, stream, lostRows,
                   overlapped, writerDown>>

DialFails(f) ==
    /\ flushAt[f] = "dial" /\ GiveUp(f)
    /\ UNCHANGED <<arrived, buf, using, connVars, stream, overlapped, writerDown>>

\* bufio.NewWriter(w.conn) reads the field a second time.
OpenWriter(f) ==
    /\ flushAt[f] = "open" /\ using' = [using EXCEPT ![f] = wconn] /\ FlushGoto(f, "write")
    /\ UNCHANGED <<arrived, buf, batch, left, connVars, stream, lostRows, overlapped, writerDown>>

\* One write of the socket: at most ChunkHalves halves.
WriteChunk(f) ==
    LET n == IF Len(left[f]) < ChunkHalves THEN Len(left[f]) ELSE ChunkHalves
        rest == SubSeq(left[f], n + 1, Len(left[f]))
    IN /\ flushAt[f] = "write" /\ using[f] \notin dead \cup {0}
       /\ stream' = [stream EXCEPT ![using[f]] = @ \o SubSeq(left[f], 1, n)]
       /\ left' = [left EXCEPT ![f] = rest]
       /\ IF rest = <<>>
          THEN FlushGoto(f, "idle") /\ batch' = [batch EXCEPT ![f] = <<>>]
          ELSE UNCHANGED <<flushAt, batch>>
       /\ UNCHANGED <<arrived, buf, using, connVars, lostRows, overlapped, writerDown>>

\* The error path closes and clears the field, whatever it now holds.
WriteFails(f) ==
    /\ flushAt[f] = "write" /\ using[f] \in dead /\ wconn # 0
    /\ dead' = dead \cup {wconn} /\ wconn' = 0
    /\ GiveUp(f)
    /\ UNCHANGED <<arrived, buf, using, dials, breaks, stream, overlapped, writerDown>>

\* A write to a nil connection, or Close of one.
NilConn(f) ==
    /\ flushAt[f] = "write" /\ (using[f] = 0 \/ (using[f] \in dead /\ wconn = 0))
    /\ writerDown' = TRUE
    /\ UNCHANGED <<arrived, buf, flushVars, connVars, stream, lostRows, overlapped>>

\* The other end goes away; the writer learns of it from its next write.
QuestDBDrops ==
    /\ breaks < MaxBreaks /\ breaks' = breaks + 1
    /\ \E c \in (1 .. dials) \ dead : dead' = dead \cup {c}
    /\ UNCHANGED <<arrived, buf, flushVars, wconn, dials, stream, lostRows, overlapped, writerDown>>

-----------------------------------------------------------------------------
FlushStep(f) ==
    \/ TakeBatch(f) \/ CheckConn(f) \/ DialSucceeds(f) \/ DialFails(f)
    \/ OpenWriter(f) \/ WriteChunk(f) \/ WriteFails(f) \/ NilConn(f)

WriterNext ==
    ~writerDown /\ (StartWriter \/ Handle \/ TickerFires \/ QuestDBDrops \/ \E f \in Flushers : FlushStep(f))

WriterSpec == WriterInit /\ [][WriterNext]_writerVars

-----------------------------------------------------------------------------
Taken(f) == Range(batch[f])
OnTable(r) == \E c \in 1 .. MaxDials : <<r, 2>> \in Range(stream[c])

\* A tick received is in one place: in the buffer, in one batch, given up, or
\* in QuestDB; and no half of it reaches QuestDB twice.
EachTickOnce ==
    /\ \A r \in 1 .. arrived :
         Cardinality({p \in Flushers : r \in Taken(p)}
                     \cup {p \in {"buffer"} : r \in Range(buf)}
                     \cup {p \in {"lost"} : r \in lostRows}
                     \cup {p \in {"table"} : OnTable(r)
                                             /\ r \notin Taken("handler") \cup Taken("ticker")
                                             /\ r \notin lostRows}) = 1
    /\ \A c \in 1 .. MaxDials : IsInjective(stream[c])
    /\ \A c, d \in 1 .. MaxDials : c # d => Range(stream[c]) \cap Range(stream[d]) = {}

\* A row whose second half follows something else than its first half is torn.
Torn == \E c \in 1 .. MaxDials : \E i \in 2 .. Len(stream[c]) :
            /\ stream[c][i][2] = 2 /\ stream[c][i-1] # <<stream[c][i][1], 1>>

\* Rows are torn, and the process dies on a nil connection, only when the handler
\* and the ticker were past the mutex at the same time; and the latter only when
\* a connection had been lost besides.
OnlyOverlapTears == (Torn => overlapped) /\ (writerDown => overlapped /\ dead # {})

\* Two flushes and a connection used outside the mutex: no tick is lost silently or
\* written twice, and what damage there is has the overlap as its only cause.
TicksAreSafe == WriterTypeOK /\ EachTickOnce /\ OnlyOverlapTears
=============================================================================
