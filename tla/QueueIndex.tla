----------------------------- MODULE QueueIndex -----------------------------
(***************************************************************************)
(* The Redis index of a show's waiting callers in the Go API, which the    *)
(* creator's list is read from: internal/queue/service.go and index.go,    *)
(* with the outbox that repairs it.                                        *)
(*                                                                         *)
(* A handler commits to PostgreSQL, with an event in the outbox, and then  *)
(* changes the index itself, late or never.  Each API process also runs a  *)
(* worker that reads a batch of the outbox, applies it one event at a time *)
(* and marks it published, with no lock on what it has read: two workers   *)
(* may apply the same events, each at its own pace.                        *)
(***************************************************************************)
EXTENDS Integers, Sequences, FiniteSets

CONSTANTS
    Callers,     \* queue entries of the show
    Ranks,       \* priority ranks of its tiers
    Workers,     \* API processes
    BatchSize,   \* flushOutbox's batchSize
    MaxEvents,   \* bound: events of the outbox
    MaxStops     \* bound: flushes that fail or die

ASSUME QueueIndexAssumption ==
    /\ Callers # {} /\ Ranks # {} /\ BatchSize \in Nat \ {0}
    /\ MaxEvents \in Nat /\ MaxStops \in Nat

VARIABLES
    line,        \* queue_entries: status and priority_rank
    joins,       \* joins so far
    over,        \* the show has ended
    outbox,      \* queue_outbox, by id
    published,   \* ids with a published_at
    index,       \* Redis: members of the sorted sets, with their rank
    direct,      \* index changes handlers have yet to make
    flush,       \* flushOutbox of each worker: the ids it read, those applied
    stops

indexVars == <<line, joins, over, outbox, published, index, direct, flush, stops>>
queueTables == <<line, joins, over>>

Change == {"add", "remove"} \X Callers \X Ranks
NotFlushing == [read |-> {}, applied |-> {}]

IndexInit ==
    /\ line = [c \in Callers |-> [status |-> "NONE", rank |-> CHOOSE r \in Ranks : TRUE]]
    /\ joins = [c \in Callers |-> 0]
    /\ over = FALSE
    /\ outbox = <<>> /\ published = {}
    /\ index = {} /\ direct = {}
    /\ flush = [w \in Workers |-> NotFlushing]
    /\ stops = 0

InLine == {c \in Callers : line[c].status = "WAITING"}
RankOf(c) == line[c].rank

------------------------------------------------------------------------------
(* The index: RedisCandidateIndex. *)

Applied(kind, c, r) ==
    CASE kind = "add"    -> index \cup {<<c, r>>}
      [] kind = "remove" -> index \ {<<c, r>>}
      [] kind = "clear"  -> {}

\* Service.List: what the index names and is still waiting; PostgreSQL answers
\* only for an empty index.
Listed == IF index = {} THEN InLine
          ELSE {c \in InLine : \E r \in Ranks : <<c, r>> \in index}

------------------------------------------------------------------------------
(* Handlers: a transaction, then the index. *)

\* insertOutbox, in the transaction.
Emit(kind, c, r) ==
    /\ Len(outbox) < MaxEvents
    /\ outbox' = Append(outbox, <<kind, c, r>>)
Owes(kind, c, r) == direct' = direct \cup {<<kind, c, r>>}

QueueJoin(c, r) ==
    /\ ~over
    /\ line[c].status \in {"NONE", "LEFT"}
    /\ line' = [line EXCEPT ![c] = [status |-> "WAITING", rank |-> r]]
    /\ joins' = [joins EXCEPT ![c] = @ + 1]
    /\ Emit("add", c, r)
    /\ Owes("add", c, r)
    /\ UNCHANGED <<over, published, index, flush, stops>>

\* A join that finds an entry returns it, and adds it to the index even when the
\* caller is no longer waiting.
QueueJoinAgain(c) ==
    /\ ~over
    /\ line[c].status \in {"WAITING", "SELECTED", "ENDED"}
    /\ <<"add", c, RankOf(c)>> \notin direct
    /\ Owes("add", c, RankOf(c))
    /\ UNCHANGED <<queueTables, outbox, published, index, flush, stops>>

QueueLeave(c) ==
    /\ c \in InLine
    /\ line' = [line EXCEPT ![c].status = "LEFT"]
    /\ Emit("remove", c, RankOf(c))
    /\ Owes("remove", c, RankOf(c))
    /\ UNCHANGED <<joins, over, published, index, flush, stops>>

\* Selecting a caller leaves the index to the outbox.
QueueSelect(c) ==
    /\ c \in InLine
    /\ line' = [line EXCEPT ![c].status = "SELECTED"]
    /\ Emit("remove", c, RankOf(c))
    /\ UNCHANGED <<joins, over, published, index, direct, flush, stops>>

QueueEnd ==
    /\ ~over
    /\ over' = TRUE
    /\ line' = [c \in Callers |-> IF c \in InLine THEN [line[c] EXCEPT !.status = "ENDED"]
                                  ELSE line[c]]
    /\ LET c == CHOOSE c \in Callers : TRUE IN Emit("clear", c, RankOf(c))
    /\ UNCHANGED <<joins, published, index, direct, flush, stops>>

\* The handler reaches Redis, or gives up with a warning.
ChangeIndex(d) ==
    /\ d \in direct
    /\ direct' = direct \ {d}
    /\ index' \in {index, Applied(d[1], d[2], d[3])}
    /\ UNCHANGED <<queueTables, outbox, published, flush, stops>>

------------------------------------------------------------------------------
(* The worker: flushOutbox. *)

Pending == {i \in 1..Len(outbox) : i \notin published}
PendingOutbox == {i \in Pending : Cardinality({j \in Pending : j < i}) < BatchSize}

FlushRead(w) ==
    /\ flush[w] = NotFlushing
    /\ Pending # {}
    /\ flush' = [flush EXCEPT ![w].read = PendingOutbox]
    /\ UNCHANGED <<queueTables, outbox, published, index, direct, stops>>

\* The batch is applied in the order of its ids.
Unapplied(w) == flush[w].read \ flush[w].applied
FlushApply(w) ==
    /\ \E i \in Unapplied(w) :
        /\ \A j \in Unapplied(w) : i <= j
        /\ index' = Applied(outbox[i][1], outbox[i][2], outbox[i][3])
        /\ flush' = [flush EXCEPT ![w].applied = @ \cup {i}]
    /\ UNCHANGED <<queueTables, outbox, published, direct, stops>>

\* MarkOutboxPublished, by id.
Acknowledged(w) == flush[w].read

\* The show's sockets are notified, and the batch is acknowledged.
FlushMark(w) ==
    /\ flush[w] # NotFlushing
    /\ Unapplied(w) = {}
    /\ published' = published \cup Acknowledged(w)
    /\ flush' = [flush EXCEPT ![w] = NotFlushing]
    /\ UNCHANGED <<queueTables, outbox, index, direct, stops>>

\* Redis or PostgreSQL fails, or the process dies: the batch stays pending.
FlushStops(w) ==
    /\ flush[w] # NotFlushing
    /\ stops < MaxStops
    /\ stops' = stops + 1
    /\ flush' = [flush EXCEPT ![w] = NotFlushing]
    /\ UNCHANGED <<queueTables, outbox, published, index, direct>>

------------------------------------------------------------------------------
IndexNext ==
    \/ QueueEnd
    \/ \E c \in Callers :
          \/ QueueJoinAgain(c) \/ QueueLeave(c) \/ QueueSelect(c)
          \/ \E r \in Ranks : QueueJoin(c, r)
    \/ \E d \in Change : ChangeIndex(d)
    \/ \E w \in Workers : FlushRead(w) \/ FlushApply(w) \/ FlushMark(w) \/ FlushStops(w)

IndexSpec == IndexInit /\ [][IndexNext]_indexVars

\* RunOutbox runs for as long as the process does.
IndexFairness ==
    \A w \in Workers : WF_indexVars(FlushRead(w) \/ FlushApply(w) \/ FlushMark(w))

------------------------------------------------------------------------------
(* Properties. *)

\* Entries, events and index have their shape; a worker reads ids of the outbox.
IndexTypeOK ==
    /\ line \in [Callers -> [status : {"NONE", "WAITING", "LEFT", "SELECTED", "ENDED"},
                             rank : Ranks]]
    /\ joins \in [Callers -> 0..MaxEvents]
    /\ over \in BOOLEAN
    /\ outbox \in Seq({"add", "remove", "clear"} \X Callers \X Ranks)
    /\ published \subseteq 1..Len(outbox)
    /\ index \subseteq Callers \X Ranks /\ direct \subseteq Change
    /\ flush \in [Workers -> [read : SUBSET (1..Len(outbox)), applied : SUBSET (1..Len(outbox))]]
    /\ \A w \in Workers : flush[w].applied \subseteq flush[w].read
    /\ stops \in 0..MaxStops

\* A caller who joined once and waits is in the creator's list as soon as the
\* outbox says its event was published, whatever became of the handler's own
\* change and however many workers repeat older events.
\* (A caller who came back is not covered: a removal from before may arrive late.)
PublishedIsListed ==
    \A c \in InLine :
        /\ joins[c] = 1
        /\ \E i \in published : outbox[i] = <<"add", c, RankOf(c)>>
        => c \in Listed

\* And that happens to everyone who keeps waiting: a flush that fails is repeated
\* until the event is applied.
FirstJoinIsListed ==
    \A c \in Callers :
        c \in InLine /\ joins[c] = 1 ~> c \in Listed \/ c \notin InLine \/ joins[c] # 1
==============================================================================
