---------------------------- MODULE GatewayEvents ----------------------------
(***************************************************************************)
(* The gateway's event bus and its replay contract: publishing, the        *)
(* retained window, /v1/pairing/events and /v1/pairing/stream, and the     *)
(* state that outlives a restart (crates/daemon/src/gateway/event_bus.rs,  *)
(* api_events.rs, pairing_api.rs, pairing_runtime.rs, control.rs; leases   *)
(* from crates/app/src/control_plane.rs).                                  *)
(*                                                                         *)
(* Publishers and request handlers are threads: what they do under one     *)
(* lock is one step.  An event is its sequence number and an id that tells *)
(* apart events given the same number.  Paired clients resume from the     *)
(* cursor the gateway gave them, keep it across a restart of the gateway,  *)
(* and acknowledge what they like.  Leases do not expire here.             *)
(***************************************************************************)
EXTENDS Naturals, Sequences

CONSTANTS Publishers, Pollers, Streamers,
          Capacity,    \* of the window and of the broadcast channel (256)
          Limit,       \* the page size of a request
          MaxEvents,   \* bound on events, for TLC
          MaxRestarts, \* bound on restarts, for TLC
          WriteFails   \* whether writing the persisted state may fail

ASSUME GatewayEventsAssumption ==
    /\ Capacity \in Nat \ {0} /\ Limit \in 1 .. Capacity
    /\ MaxEvents \in Nat /\ MaxRestarts \in Nat /\ WriteFails \in BOOLEAN
    /\ Publishers \cap (Pollers \cup Streamers) = {}

Clients == Pollers \cup Streamers
Threads == Publishers \cup Clients
Seqs == 0 .. MaxEvents
Record == [seq: Seqs \ {0}, id: 1 .. MaxEvents]
Snapshot == [acks: [Clients -> Seqs], next: Seqs, recent: Seq(Record)]

PersistSteps == {"leases", "next", "recent", "write"}
StreamSteps == {"check", "subscribe", "replay", "live"}
Steps == PersistSteps \cup StreamSteps \cup {"idle", "retained", "window", "fetch"}

VARIABLES nextSeq,   \* next_seq, the last number given
          recent,    \* the retained window
          sent,      \* what went into the broadcast channel since the start
          acks,      \* acknowledged_seq of each lease, 0 before the first
          at,        \* where each thread is
          record,    \* the event each publisher has retained and not sent
          snap,      \* the snapshot each thread is persisting
          position,  \* where each stream's receiver reads sent
          pending,   \* what each stream has yet to replay
          disk,      \* the persisted state
          cursor,    \* the last number each client was given
          got,       \* history: the events each client was given
          history,   \* history: the number of each event published
          restarts

bus == <<nextSeq, recent, sent>>
client == <<cursor, got>>
stream == <<position, pending>>
vars == <<bus, acks, at, record, snap, stream, disk, client, history, restarts>>

Largest(a, b) == IF a > b THEN a ELSE b
LastSeq(window) == IF window = <<>> THEN 0 ELSE window[Len(window)].seq
LastOf(s, n) == SubSeq(s, Largest(1, Len(s) + 1 - n), Len(s))
NoRecord == [seq |-> 0, id |-> 0]
NothingSaved == [acks |-> [c \in Clients |-> 0], next |-> 0, recent |-> <<>>]
InOrder(s) == \A i, j \in DOMAIN s : i < j => s[i].seq < s[j].seq
Goto(t, step) == at' = [at EXCEPT ![t] = step]

Init ==
    /\ nextSeq = 0 /\ recent = <<>> /\ sent = <<>>
    /\ acks = [c \in Clients |-> 0]
    /\ at = [t \in Threads |-> "idle"]
    /\ record = [p \in Publishers |-> NoRecord]
    /\ disk = NothingSaved
    /\ snap = [t \in Threads |-> NothingSaved]
    /\ position = [c \in Clients |-> 1]
    /\ pending = [c \in Clients |-> <<>>]
    /\ cursor = [c \in Clients |-> 0]
    /\ got = [c \in Clients |-> <<>>]
    /\ history = <<>>
    /\ restarts = 0

-----------------------------------------------------------------------------
(* Publishing *)

\* Under the retention lock: number, retain, trim.
Publish(p) ==
    /\ at[p] = "idle"
    /\ Len(history) < MaxEvents /\ nextSeq < MaxEvents
    /\ nextSeq' = nextSeq + 1
    /\ history' = Append(history, nextSeq')
    /\ record' = [record EXCEPT ![p] = [seq |-> nextSeq', id |-> Len(history')]]
    /\ recent' = LastOf(Append(recent, record'[p]), Capacity)
    /\ Goto(p, "retained")
    /\ UNCHANGED <<sent, acks, snap, stream, disk, client, restarts>>

\* The broadcast comes after the lock is released; the publish hook persists next.
Send(p) ==
    /\ at[p] = "retained"
    /\ sent' = Append(sent, record[p])
    /\ record' = [record EXCEPT ![p] = NoRecord]
    /\ Goto(p, "leases")
    /\ UNCHANGED <<nextSeq, recent, acks, snap, stream, disk, client, history, restarts>>

-----------------------------------------------------------------------------
(* persist_gateway_pairing_runtime_state, run by publishers and by requests that       *)
(* acknowledge: three reads under three locks, then a file replaced by rename          *)

SnapshotLeases(t) ==
    /\ at[t] = "leases"
    /\ snap' = [snap EXCEPT ![t].acks = acks]
    /\ Goto(t, "next")
    /\ UNCHANGED <<bus, acks, record, stream, disk, client, history, restarts>>

\* Mutant: the persisted number does not cover the acknowledgements.
MutSnapshotNext(t) == nextSeq

SnapshotNext(t) ==
    CHOOSE n \in {nextSeq} \cup {snap[t].acks[c] : c \in Clients} :
        n >= nextSeq /\ \A c \in Clients : n >= snap[t].acks[c]

LoadNextSeq(t) ==
    /\ at[t] = "next"
    /\ snap' = [snap EXCEPT ![t].next = SnapshotNext(t)]
    /\ Goto(t, "recent")
    /\ UNCHANGED <<bus, acks, record, stream, disk, client, history, restarts>>

CloneRecent(t) ==
    /\ at[t] = "recent"
    /\ snap' = [snap EXCEPT ![t].recent = recent]
    /\ Goto(t, "write")
    /\ UNCHANGED <<bus, acks, record, stream, disk, client, history, restarts>>

\* A failed write is ignored by both callers.
WriteState(t) ==
    /\ at[t] = "write"
    /\ disk' \in IF WriteFails THEN {snap[t], disk} ELSE {snap[t]}
    /\ snap' = [snap EXCEPT ![t] = NothingSaved]
    /\ Goto(t, IF t \in Publishers THEN "idle" ELSE "window")
    /\ UNCHANGED <<bus, acks, record, stream, client, history, restarts>>

-----------------------------------------------------------------------------
(* Replay *)

\* Where the retained events after a number begin: numbers grow (RetainedInOrder).
FirstAfter(seq) ==
    CHOOSE i \in 1 .. Len(recent) + 1 :
        /\ \A j \in i .. Len(recent) : recent[j].seq > seq
        /\ i > 1 => recent[i - 1].seq <= seq

\* recent_events_after: the newest Limit of the retained events after a number.
ReplayAfter(seq) ==
    SubSeq(recent, Largest(FirstAfter(seq), Len(recent) + 1 - Limit), Len(recent))

Stale(seq) == recent # <<>> /\ seq + 1 < recent[1].seq

\* The 409 stale_cursor answer names the position the client resumes from.
AnswerStale(c) ==
    /\ cursor' = [cursor EXCEPT ![c] = recent[1].seq - 1]
    /\ Goto(c, "idle")

\* Mutant: the next cursor skips an event.
MutNextCursor(c, records) == IF records = <<>> THEN cursor[c] ELSE LastSeq(records) + 1

NextCursor(c, records) == IF records = <<>> THEN cursor[c] ELSE LastSeq(records)

Deliver(c, records) ==
    /\ got' = [got EXCEPT ![c] = @ \o records]
    /\ cursor' = [cursor EXCEPT ![c] = NextCursor(c, records)]

-----------------------------------------------------------------------------
(* GET /v1/pairing/events *)

\* The acknowledged number is the client's word: nothing compares it with next_seq.
PollAcknowledging(c) ==
    /\ at[c] = "idle"
    /\ \E seq \in Seqs : acks' = [acks EXCEPT ![c] = Largest(@, seq)]
    /\ Goto(c, "leases")
    /\ UNCHANGED <<bus, record, snap, stream, disk, client, history, restarts>>

Poll(c) ==
    /\ at[c] = "idle"
    /\ Goto(c, "window")
    /\ UNCHANGED <<bus, acks, record, snap, stream, disk, client, history, restarts>>

CheckWindow(c) ==
    /\ at[c] = "window"
    /\ IF Stale(cursor[c])
       THEN AnswerStale(c) /\ UNCHANGED got
       ELSE Goto(c, "fetch") /\ UNCHANGED client
    /\ UNCHANGED <<bus, acks, record, snap, stream, disk, history, restarts>>

Fetch(c) ==
    /\ at[c] = "fetch"
    /\ Deliver(c, ReplayAfter(cursor[c]))
    /\ Goto(c, "idle")
    /\ UNCHANGED <<bus, acks, record, snap, stream, disk, history, restarts>>

-----------------------------------------------------------------------------
(* GET /v1/pairing/stream *)

OpenStream(c) ==
    /\ at[c] = "idle"
    /\ Goto(c, "check")
    /\ UNCHANGED <<bus, acks, record, snap, stream, disk, client, history, restarts>>

CheckStream(c) ==
    /\ at[c] = "check"
    /\ IF Stale(cursor[c])
       THEN AnswerStale(c) /\ UNCHANGED got
       ELSE Goto(c, "subscribe") /\ UNCHANGED client
    /\ UNCHANGED <<bus, acks, record, snap, stream, disk, history, restarts>>

Subscribe(c) ==
    /\ at[c] = "subscribe"
    /\ position' = [position EXCEPT ![c] = Len(sent) + 1]
    /\ Goto(c, "replay")
    /\ UNCHANGED <<bus, acks, record, snap, pending, disk, client, history, restarts>>

Replay(c) ==
    /\ at[c] = "replay"
    /\ pending' = [pending EXCEPT ![c] = ReplayAfter(cursor[c])]
    /\ Goto(c, "live")
    /\ UNCHANGED <<bus, acks, record, snap, position, disk, client, history, restarts>>

DeliverPending(c) ==
    /\ at[c] = "live"
    /\ pending[c] # <<>>
    /\ Deliver(c, <<Head(pending[c])>>)
    /\ pending' = [pending EXCEPT ![c] = Tail(@)]
    /\ UNCHANGED <<bus, acks, at, record, snap, position, disk, history, restarts>>

\* The channel keeps the last Capacity records.
OldestSent == Largest(1, Len(sent) + 1 - Capacity)

\* Mutant: the event right after the last one is taken for a repetition.
MutAlreadySeen(c, r) == r.seq <= cursor[c] + 1

\* Mutant: nothing is taken for a repetition.
MutNeverSeen(c, r) == FALSE

AlreadySeen(c, r) == r.seq <= cursor[c]

Receive(c) ==
    /\ at[c] = "live"
    /\ pending[c] = <<>>
    /\ position[c] \in OldestSent .. Len(sent)
    /\ position' = [position EXCEPT ![c] = @ + 1]
    /\ IF AlreadySeen(c, sent[position[c]])
       THEN UNCHANGED <<got, cursor>>
       ELSE Deliver(c, <<sent[position[c]]>>)
    /\ UNCHANGED <<bus, acks, at, record, snap, pending, disk, history, restarts>>

\* Mutant: a receiver that lags starts over at the end of the channel, with no replay.
MutLag(c) ==
    /\ at[c] = "live"
    /\ pending[c] = <<>>
    /\ position[c] < OldestSent
    /\ position' = [position EXCEPT ![c] = Len(sent) + 1]
    /\ UNCHANGED <<bus, acks, at, record, snap, pending, disk, client, history, restarts>>

\* RecvError::Lagged: the receiver skips to the oldest record in the channel, then what
\* is retained is replayed.
Lag(c) ==
    /\ at[c] = "live"
    /\ pending[c] = <<>>
    /\ position[c] < OldestSent
    /\ position' = [position EXCEPT ![c] = OldestSent]
    /\ Goto(c, "replay")
    /\ UNCHANGED <<bus, acks, record, snap, pending, disk, client, history, restarts>>

Disconnect(c) ==
    /\ at[c] = "live"
    /\ Goto(c, "idle")
    /\ position' = [position EXCEPT ![c] = 1]
    /\ pending' = [pending EXCEPT ![c] = <<>>]
    /\ UNCHANGED <<bus, acks, record, snap, disk, client, history, restarts>>

-----------------------------------------------------------------------------
(* Restart *)

\* Mutant: the retained events do not raise the restored number.
MutRestoredSeq == disk.next

\* GatewayEventBus::from_snapshot
RestoredSeq == Largest(disk.next, LastSeq(disk.recent))

\* The gateway stops between any two steps and starts again from the persisted state.
Restart ==
    /\ restarts < MaxRestarts
    /\ restarts' = restarts + 1
    /\ nextSeq' = RestoredSeq
    /\ recent' = LastOf(disk.recent, Capacity)
    /\ sent' = <<>>
    /\ acks' = disk.acks
    /\ at' = [t \in Threads |-> "idle"]
    /\ record' = [p \in Publishers |-> NoRecord]
    /\ snap' = [t \in Threads |-> NothingSaved]
    /\ position' = [c \in Clients |-> 1]
    /\ pending' = [c \in Clients |-> <<>>]
    /\ UNCHANGED <<disk, client, history>>

-----------------------------------------------------------------------------

Persist(t) == SnapshotLeases(t) \/ LoadNextSeq(t) \/ CloneRecent(t) \/ WriteState(t)

ServePoll(c) == CheckWindow(c) \/ Fetch(c)

ServeStream(c) ==
    \/ CheckStream(c) \/ Subscribe(c) \/ Replay(c)
    \/ DeliverPending(c) \/ Receive(c) \/ Lag(c)

Next ==
    \/ \E p \in Publishers : Publish(p) \/ Send(p) \/ Persist(p)
    \/ \E c \in Pollers : PollAcknowledging(c) \/ Poll(c) \/ Persist(c) \/ ServePoll(c)
    \/ \E c \in Streamers : OpenStream(c) \/ ServeStream(c) \/ Disconnect(c)
    \/ Restart

Spec == Init /\ [][Next]_vars

\* A publisher that has retained an event sends it, and a connection is served.
FairSpec ==
    /\ Spec
    /\ \A p \in Publishers : WF_vars(Send(p))
    /\ \A c \in Streamers : WF_vars(ServeStream(c))

-----------------------------------------------------------------------------
(* Properties *)

\* Type correctness.
TypeOK ==
    /\ nextSeq \in Seqs /\ recent \in Seq(Record) /\ sent \in Seq(Record)
    /\ acks \in [Clients -> Seqs]
    /\ at \in [Threads -> Steps]
    /\ record \in [Publishers -> [seq: Seqs, id: 0 .. MaxEvents]]
    /\ snap \in [Threads -> Snapshot] /\ disk \in Snapshot
    /\ position \in [Clients -> Nat \ {0}]
    /\ pending \in [Clients -> Seq(Record)]
    /\ cursor \in [Clients -> Seqs]
    /\ got \in [Clients -> Seq(Record)]
    /\ history \in Seq(Seqs)
    /\ restarts \in 0 .. MaxRestarts

\* The retained window holds at most Capacity events, each with a larger number than
\* the one before, and no event to come gets one of their numbers, whenever the gateway
\* was restarted from a snapshot taken while events were published (from_snapshot).
RetainedInOrder ==
    /\ Len(recent) <= Capacity
    /\ \A i \in DOMAIN recent : recent[i].seq <= nextSeq
    /\ InOrder(recent)

\* A client is given every event once at most and in order, however replays, live
\* events, lag, reconnections and restarts mix (next_gateway_sse_item).
InOrderOnce == \A c \in Clients : InOrder(got[c])

\* What a client's cursor is past it was given, unless a page of newer events had been
\* published: a replay hands out the newest page, and a stale cursor or a lagging receiver
\* starts again no later than that page does, so that polls, replays, live events and lag
\* join without a hole.  It speaks of a gateway that is not restarted and whose events one
\* task publishes: two may send theirs in the order opposite to their numbers
\* (list_gateway_pairing_events, next_gateway_sse_item).
OneTaskPublishes == \A p, q \in Publishers : p = q
NewestPageGiven ==
    restarts = 0 /\ OneTaskPublishes =>
        \A c \in Clients : \A id \in DOMAIN history :
            id + Limit > Len(history) =>
                \/ history[id] > cursor[c]
                \/ \E i \in DOMAIN got[c] : got[c][i].id = id

\* No acknowledged position restored by a restart is ahead of the events to come.
RestoredAhead == [][Restart => \A c \in Clients : acks'[c] <= nextSeq']_vars

\* A stream that stays connected gets to the newest event that was sent, though it may
\* lag behind the channel (next_gateway_sse_item).
StreamCatchesUp ==
    \A c \in Streamers :
        []<>(at[c] \notin StreamSteps \/ \A i \in DOMAIN sent : sent[i].seq <= cursor[c])
=============================================================================
