------------------------------- MODULE WebSession -------------------------------
(***************************************************************************)
(* The session of the browser: HidDevice of src/lib.rs (the web module)    *)
(* and InputReportStream of src/backend/webhid.rs.  The device exists      *)
(* before it is opened, may be closed and opened again, and `read` starts  *)
(* a stream of input reports when there is none.  There is one thread: the *)
(* tasks and the browser's callbacks take turns, and what a task does      *)
(* between two awaits is one step.                                         *)
(***************************************************************************)
EXTENDS Session

CONSTANTS
  QueueCapacity,  \* INPUT_QUEUE_CAPACITY
  MaxTurns,       \* bound: opens, closes and reads, a transfer counting double
  MaxReports      \* bound: input reports the device sends, numbered from 1

VARIABLES
  promise,    \* the open or close that the browser is at, or "none"
  stream,     \* HidDevice::stream: the current one's number, or None
  streams,    \* every stream started: [queue, wakers, last, full]
  reading,    \* the stream that each task's ReadFuture shares, or None
  awake,      \* tasks to be polled
  turns,      \* counter of the bound
  sent        \* input reports that found a listener

ASSUME WebAssumption == QueueCapacity \in Nat \ {0} /\ None \notin Nat

web == <<promise, stream, streams, reading, awake, turns, sent>>

\* last is the latest report read from the stream, and full whether it has
\* ever dropped one.
Fresh == [queue |-> <<>>, wakers |-> {}, last |-> sent, full |-> FALSE]

WebInit ==
  /\ Init
  /\ promise = "none"
  /\ stream = None /\ streams = <<>>
  /\ reading = [c \in Callers |-> None]
  /\ awake = {}
  /\ turns = 0 /\ sent = 0

-----------------------------------------------------------------------------
(* open and close.                                                         *)

Spent == turns + 2 * Cardinality({c \in Callers : call[c].op # "none"})

Browser == backend = "web" /\ handle # None

OpenDevice ==
  /\ Browser /\ promise = "none" /\ Spent < MaxTurns
  /\ turns' = turns + 1
  /\ promise' = "open"
  /\ UNCHANGED <<discovery, opened, call, pc, req, staging, holder, told, wire>>
  /\ UNCHANGED <<stream, streams, reading, awake, sent>>

\* The stream goes at once, and with it its listener; a ReadFuture keeps its
\* share of the queue.
CloseDevice ==
  /\ Browser /\ promise = "none" /\ Spent < MaxTurns
  /\ turns' = turns + 1
  /\ stream' = None
  /\ promise' = "close"
  /\ UNCHANGED <<discovery, opened, call, pc, req, staging, holder, told, wire>>
  /\ UNCHANGED <<streams, reading, awake, sent>>

\* The browser keeps or rejects the promise; an open needs the device.
Settle ==
  /\ promise # "none"
  /\ \/ opened' = opened
     \/ promise = "open" /\ ~Gone /\ opened' = TRUE
     \/ promise = "close" /\ opened' = FALSE
  /\ promise' = "none"
  /\ UNCHANGED <<discovery, call, pc, req, staging, holder, told, wire>>
  /\ UNCHANGED <<stream, streams, reading, awake, turns, sent>>

-----------------------------------------------------------------------------
(* read.                                                                   *)

Read(c) ==
  /\ Browser /\ pc[c] = "idle" /\ Spent < MaxTurns
  /\ turns' = turns + 1
  /\ pc' = [pc EXCEPT ![c] = "reading"]
  /\ awake' = awake \cup {c}
  /\ UNCHANGED <<discovery, opened, call, req, staging, holder, told, wire>>
  /\ UNCHANGED <<promise, stream, streams, reading, sent>>

\* The streams as the first poll of a read finds or makes them.
Started ==
  IF stream = None THEN Append(streams, Fresh) ELSE streams

Shared(c) ==
  IF reading[c] # None THEN reading[c]
  ELSE IF stream # None THEN stream ELSE Len(streams) + 1

\* Mutant: room for one waker.
ParkedAlone(s, c) == [s EXCEPT !.wakers = {c}]

\* A task is in wakers once, however often it has parked (will_wake).
Parked(s, c) == [s EXCEPT !.wakers = @ \cup {c}]

Popped(s) == [s EXCEPT !.queue = Tail(@), !.last = Head(s.queue)]

\* One poll of HidDevice::read, ReadFuture's included.
Poll(c) ==
  /\ pc[c] = "reading" /\ c \in awake
  /\ LET now == IF reading[c] = None THEN Started ELSE streams
         n == Shared(c)
     IN IF now[n].queue = <<>>
        THEN /\ streams' = [now EXCEPT ![n] = Parked(@, c)]
             /\ reading' = [reading EXCEPT ![c] = n]
             /\ UNCHANGED pc
        ELSE /\ streams' = [now EXCEPT ![n] = Popped(@)]
             /\ reading' = [reading EXCEPT ![c] = None]
             /\ pc' = [pc EXCEPT ![c] = "idle"]
  /\ stream' = IF reading[c] = None /\ stream = None THEN Len(streams) + 1 ELSE stream
  /\ awake' = awake \ {c}
  /\ UNCHANGED <<discovery, opened, call, req, staging, holder, told, wire>>
  /\ UNCHANGED <<promise, turns, sent>>

\* A task drops its read: the waker stays where it is.
DropRead(c) ==
  /\ pc[c] = "reading"
  /\ pc' = [pc EXCEPT ![c] = "idle"]
  /\ reading' = [reading EXCEPT ![c] = None]
  /\ awake' = awake \ {c}
  /\ UNCHANGED <<discovery, opened, call, req, staging, holder, told, wire>>
  /\ UNCHANGED <<promise, stream, streams, turns, sent>>

\* Room for one more: the oldest report goes when the queue is full.
Pushed(s, report) ==
  LET full == Len(s.queue) >= QueueCapacity
  IN [s EXCEPT !.queue = Append(IF full THEN Tail(@) ELSE @, report),
               !.wakers = {},
               !.full = @ \/ full]

\* The inputreport event, to whoever listens: the one stream that is held; with
\* none it changes nothing.  A waker of a task that has dropped its read wakes it
\* for nothing.
InputReport ==
  /\ Browser /\ opened /\ ~Gone /\ stream # None /\ sent < MaxReports
  /\ sent' = sent + 1
  /\ streams' = [streams EXCEPT ![stream] = Pushed(@, sent + 1)]
  /\ awake' = awake \cup {c \in streams[stream].wakers : pc[c] = "reading"}
  /\ UNCHANGED <<discovery, transfers, promise, stream, reading, turns>>

-----------------------------------------------------------------------------
WebNext ==
  \/ Next /\ UNCHANGED web /\ (backend = "web" => Spent' <= MaxTurns)
  \/ OpenDevice \/ CloseDevice \/ Settle \/ InputReport
  \/ \E c \in Callers : Read(c) \/ Poll(c) \/ DropRead(c)

WebSpec == WebInit /\ [][WebNext]_<<vars, web>>

-----------------------------------------------------------------------------
(* Properties.                                                             *)

Waits(c, n) == pc[c] = "reading" /\ reading[c] = n

\* Tasks may read at once, drop reads, close and reopen between a push and a
\* poll.  A stream's reports are read in the order in which they came, none of
\* them twice, and none is skipped unless the queue has run full; no task sleeps
\* on a queue that holds a report (a single waker instead of the list would let
\* one of two readers do so), and one that sleeps on the current stream will be
\* woken by its next report.
WebReadsInOrder ==
  \A n \in DOMAIN streams :
    LET s == streams[n]
    IN /\ Len(s.queue) <= QueueCapacity
       /\ \A i \in DOMAIN s.queue :
            IF i = 1 THEN s.queue[1] > s.last /\ (s.queue[1] = s.last + 1 \/ s.full)
            ELSE s.queue[i] = s.queue[i - 1] + 1
       /\ \A c \in Callers : Waits(c, n) =>
            /\ s.queue # <<>> => c \in awake
            /\ (c \notin awake /\ stream = n) => c \in s.wakers

\* Every task is somewhere in its call, what it holds there is what that place
\* needs, and the handle, the locks and the streams are what the backend has.
TypeOK ==
  /\ holder \in Callers \cup {None}
  /\ handle = None => \A c \in Callers : pc[c] = "idle"
  /\ (handle # None /\ backend # "web") => opened
  /\ Len(staging) = ReportLen
  /\ wire # None => wire.kind \in {"Output", "Feature"}
  /\ \A c \in Callers :
       /\ pc[c] \in {"idle", "check", "lock", "submit", "wait", "cancel", "reap", "reading"}
       /\ (req[c] # None) = (pc[c] \in {"wait", "cancel", "reap"})
       /\ (call[c].result = None /\ call[c].op # "none")
            = (pc[c] \notin {"idle", "reading"})
       /\ (holder = c) = (Locks(c) /\ pc[c] \in {"submit", "wait", "cancel", "reap"})
       /\ reading[c] # None => reading[c] \in DOMAIN streams /\ pc[c] = "reading"
  /\ stream # None => stream = Len(streams)
=============================================================================
